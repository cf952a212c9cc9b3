CONSTANTS
    r1 = r1
    r2 = r2
    r3 = r3
    r4 = r4
    w1 = w1
    w2 = w2
    NoReq = NoReq
    Requests <- ThreeRequests
    Method <- GuardedMethods
    Workers <- OneWorker
    MaxWrites = 1
    MaxLongJobs = 1
SPECIFICATION FairSpec
CHECK_DEADLOCK FALSE
PROPERTIES
    EveryRequestAnswered
    WritesFinish
