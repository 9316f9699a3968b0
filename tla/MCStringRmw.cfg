SPECIFICATION FairSpec
CONSTANTS
    t1 = t1
    t2 = t2
    k1 = k1
    k2 = k2
    s1 = s1
    s2 = s2
    None = None
    Threads <- MCThreads
    Keys <- MCKeys
    Shards <- MCShards
    ShardOf <- MCShardOf
    Ops <- MCOps
    MaxInt = 1
    MaxCalls = 2
INVARIANTS
    LockInv
PROPERTIES
    ImplementsAtomic
    EveryCallReturns
CHECK_DEADLOCK FALSE
