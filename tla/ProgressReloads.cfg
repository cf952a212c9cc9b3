CONSTANTS
    guava = guava
    slf4j = slf4j
    MaxLoads = 2
    LibrariesOf <- ShrinkingGraphs
    MayRefuse = TRUE
SPECIFICATION Spec
CHECK_DEADLOCK FALSE
INVARIANTS
    BufferAwaitsAnswer
    NotificationsInOrder
    BarsClose
