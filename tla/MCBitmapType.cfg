SPECIFICATION Spec
VIEW StateView
SYMMETRY VersionSymmetry
CONSTANTS
    v1 = v1
    v2 = v2
    None = None
    Versions <- MCVersions
    UniqueVersions = TRUE
    Fields = {0, 1}
    Vals <- MCVals
    ScoreKeys = {}
    TTLs <- MCTTLs
    MaxNow = 3
    ByteBits = 2
    FragBytes = 2
    Offsets = {0, 3, 4, 5}
    Ranges <- MCRanges
    Self = "self"
    OtherKeys = {"short", "sparse", "missing", "hash"}
    Stored <- MCStored
    BitOps <- MCBitOps
INVARIANTS
    TypeOK
    ExtentInv
PROPERTIES
    ImplementsADT
