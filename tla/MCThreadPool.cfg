SPECIFICATION FairPool
CONSTANTS
    w1 = w1
    w2 = w2
    w3 = w3
    j1 = j1
    j2 = j2
    j3 = j3
    j4 = j4
    Nothing = Nothing
    Workers <- MCWorkers
    Jobs <- MCJobs
INVARIANTS
    OneJobAtATime
PROPERTIES
    ImplementsExecutor
    EveryCallerAnswered
CHECK_DEADLOCK FALSE
