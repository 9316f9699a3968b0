SPECIFICATION Spec
VIEW StateView
SYMMETRY VersionSymmetry
CONSTANTS
    v1 = v1
    v2 = v2
    v3 = v3
    None = None
    Versions <- MCVersions
    UniqueVersions = TRUE
    Fields = {1, 2, 3}
    Vals = {"1"}
    ScoreKeys = {}
    TTLs <- MCTTLs
    MaxNow = 4
    Puts <- MCPuts
    Takes <- MCTakes
INVARIANTS
    SizeInv
PROPERTIES
    FreshSetIsEmpty
    ImplementsADT
