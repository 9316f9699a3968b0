SPECIFICATION Spec
SYMMETRY VersionSymmetry
VIEW StateView
CONSTANTS
    v1 = v1
    v2 = v2
    a = a
    b = b
    None = None
    Versions <- MCVersions
    UniqueVersions = TRUE
    Fields <- MCFields
    Vals <- MCVals
    ScoreKeys = {}
    TTLs <- MCTTLs
    MaxNow = 3
    Batches <- MCBatches
    Counts <- MCCounts
    Ranges <- MCRanges
INVARIANTS
    WindowInv
PROPERTY ImplementsADT
