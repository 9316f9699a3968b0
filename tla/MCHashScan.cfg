SPECIFICATION ScanSpec
VIEW StateView
CONSTANTS
    a = a
    b = b
    None = None
    Versions = {1, 2}
    UniqueVersions = TRUE
    Fields = {1, 2, 3}
    Vals <- MCVals
    ScoreKeys = {}
    TTLs = {}
    MaxNow = 2
    Puts <- MCPuts
    Takes <- MCTakes
    PageSize = 2
    Counts = {0, 2}
INVARIANTS
    SizeInv
    ScanComplete
PROPERTIES
    ReturnedOnce
    ImplementsADT
