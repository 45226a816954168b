SPECIFICATION MCTamperSpec
CONSTANTS
    ContextNames = {1, 2}
    PropertyNames = {1, 2}
    Keys <- OneEvent
    PermanentEvents = {}
    ContextScope = ContextScope
    FieldTypes <- Strings
    PascalCase <- MCPascalCase
    ValueName <- MCValueName
    UnfitNames = {}
    ReservedStart = 8
    ReservedEnd = 9
    EditNumbers = {0, 1, 2, 3, 4, 5, 8}
    MaxHistory = 3
INVARIANTS
    NoSilentRenumber
    OnlyTheTailIsForgotten
    CheckIsFixpoint
    RepairSettles
    GatesAgree
    TradesPass
