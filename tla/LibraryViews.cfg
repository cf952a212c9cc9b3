CONSTANTS
    src = src
    c1 = c1
    c2 = c2
    r1 = r1
    r2 = r2
    SourceFiles <- OneSource
    ClassFiles <- TwoClasses
    Requests <- TwoRequests
    Needs <- SharedNeeds
    MaxFailures = 1
    MaxPrunes = 2
    MaxCrashes = 1
SPECIFICATION FairSpec
CHECK_DEADLOCK FALSE
INVARIANTS
    NullHasCause
    TextsAreWhole
PROPERTIES
    EveryNeedAnswered
