SPECIFICATION MCSpec
CONSTANTS
    ContextNames = {1, 2}
    PropertyNames = {1, 2}
    Keys <- OneEvent
    PermanentEvents = {}
    ContextScope = ContextScope
    FieldTypes <- Strings
    PascalCase <- MCPascalCase
    ValueName <- MCValueName
    UnfitNames = {}
    ReservedStart = 8
    ReservedEnd = 9
    ShortHistory = 4
    LongHistory = 4
INVARIANT
    NumberMeansOneNameForever
