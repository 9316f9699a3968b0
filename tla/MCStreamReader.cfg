SPECIFICATION ReaderSpec
VIEW StateView
CONSTANTS
    a = a
    None = None
    Versions = {1, 2}
    UniqueVersions = TRUE
    Fields <- MCIds
    Vals = {a}
    ScoreKeys = {}
    TTLs = {}
    MaxNow = 2
    MaxMs = 2
    PageSize = 1
    MaxSeq = 3
    MaxSize = 2
    Specs <- MCSpecs
    RangeBounds <- MCBounds
    RangeCounts <- MCCounts
INVARIANTS
    TypeOK
    SizeInv
    NothingMissed
PROPERTY IdsGrow
