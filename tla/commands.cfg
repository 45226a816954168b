SPECIFICATION MCSpec
CONSTANTS
    p1 = p1
    p2 = p2
    Processes = {p1, p2}
    Missing = Missing
    Undecodable = Undecodable
    Radix = 2
    NoOutput = NoOutput
    Torn = Torn
    Directory = "registry"
    FileOrder <- MCFileOrder
    Singletons = {"openevents", "namespace"}
    SupportedVersion = "0.1.0"
    MalformedNames = {}
    Contents <- MCContents
    Pasts <- MCPasts
    Capital <- MCCapital
    Digits = {"1"}
    SpelledEvent <- MCSpelledEvent
    ContextNames = {1, 2}
    PropertyNames = {1, 2}
    Keys <- MCKeys
    PermanentEvents <- ThePermanent
    ContextScope = ContextScope
    FieldTypes = {}
    PascalCase <- MCPascalCase
    ValueName <- MCValueName
    UnfitNames = {}
    ReservedStart = 8
    ReservedEnd = 9
    MaxCommands = 3
    MaxEdits = 1
    MaxFaults = 1
    MaxHistory = 5
SYMMETRY Alike
INVARIANTS
    TypeOK
    NumbersKept
    ShortWriteNoticed
    MergeIgnoresOrder
    OutputsMatch
    IdentifiersDiffer
PROPERTY
    LedgerUnlessSlip
CHECK_DEADLOCK FALSE
