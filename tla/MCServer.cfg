SPECIFICATION FairSpec
CONSTANTS
    c1 = c1
    c2 = c2
    k1 = k1
    k2 = k2
    None = None
    Conns <- MCConns
    Keys <- MCKeys
    Vals <- MCVals
    MaxRequests <- MCRequests
    InitStore <- MCStore
    Commands <- MCCommands
INVARIANTS
    TypeOK
    AnsweredMeansDone
PROPERTIES
    RunsWhatWasSent
    WatchDetects
    EveryRequestAnswered
CHECK_DEADLOCK FALSE
