CONSTANTS
    guava = guava
    broken = broken
    q1 = q1
    q2 = q2
    Libraries <- TwoLibraries
    LoadedGraphs <- ChangingGraphs
    Broken = {broken}
    OldEntries = {guava}
    Queries <- TwoQueries
SPECIFICATION Spec
CHECK_DEADLOCK FALSE
INVARIANTS
    TypeOK
    PruneEndsWarmup
    EveryLibraryIndexed
PROPERTIES
    PanicsOnlyInReload
    ResolvedHasRecord
    ReloadKeepsIndexes
