SPECIFICATION Spec
CONSTANTS
    v1 = v1
    v2 = v2
    None = None
    Keys = {"a", "b"}
    Versions <- MCVersions
    Elems = {1, 2}
    Scores = {1, 2}
    NoScore = NoScore
    Members <- MCMembers
    DelArgs <- MCDelArgs
    PageSize = 1
    MetadataOrder <- MCMetadataOrder
    SubkeyOrder <- MCSubkeyOrder
    ScoreOrder <- MCScoreOrder
    MaxSize = 2
    UnionLimit = 1
    AlgebraArgs <- MCAlgebraArgs
INVARIANTS
    WholeInv
    CutInv
    AnsweredMeansGone
    AlgebraInv
PROPERTIES
    DelLeavesNoGarbage
    EveryCommandEnds
