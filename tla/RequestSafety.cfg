CONSTANTS
    r1 = r1
    r2 = r2
    r3 = r3
    r4 = r4
    w1 = w1
    w2 = w2
    NoReq = NoReq
    Requests <- FourRequests
    Method <- MixedMethods
    Workers <- TwoWorkers
    MaxWrites = 2
    MaxLongJobs = 0
SPECIFICATION Spec
CHECK_DEADLOCK FALSE
SYMMETRY WorkerSymmetry
INVARIANTS
    TypeOK
    OneCarrier
    NoTokenLeak
    DeferredOnce
    SnapshotsCurrent
    AtMostOneReply
PROPERTIES
    ImplementsService
