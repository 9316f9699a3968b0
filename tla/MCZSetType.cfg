SPECIFICATION Spec
VIEW StateView
CONSTANTS
    None = None
    Versions = {1, 2}
    UniqueVersions = TRUE
    Fields = {1, 2}
    Vals <- MCVals
    ScoreKeys <- MCScoreKeys
    MaxScore = 1
    TTLs <- MCTTLs
    MaxNow = 3
    Adds <- MCAdds
    Incrs <- MCIncrs
    Takes <- MCTakes
    Indexes <- MCIndexes
    Bounds <- MCBounds
    Limits <- MCLimits
    PageSize = 1
INVARIANTS
    IndexInv
    SizeInv
PROPERTY ImplementsADT
