\* One robot at the barrier of two, or summing up a map, and one that stores;
\* or two that store twice.
SPECIFICATION FairSpec
CONSTANTS
    Robot = {1, 2}
    Threshold = 2
    Shared = "barrier"
    Text <- Texts
    Launches <- EachProgram
    RegisteredFunction = {"go_forward", "random_sleep"}
INVARIANT TypeOK
INVARIANT NothingReachableIsFreed
INVARIANT CodeRunsInItsScope
INVARIANT EveryClosureHasCode
PROPERTY ImplementsStigmergy
PROPERTY ReactionsEnd
PROPERTY BarrierOpens
CHECK_DEADLOCK FALSE
