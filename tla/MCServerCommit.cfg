SPECIFICATION Spec
CONSTANTS
    c1 = c1
    c2 = c2
    k1 = k1
    k2 = k2
    None = None
    Conns <- MCConns
    Keys <- MCKeys
    Vals <- MCVals
    MaxRequests <- MCRequests
    InitStore <- MCStore
    Commands <- StringCommands
PROPERTY CommitsOnWatchedState
CHECK_DEADLOCK FALSE
