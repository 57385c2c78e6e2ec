\* One robot at the barrier of two, and one that stores.
SPECIFICATION Spec
CONSTANTS
    Robot = {1, 2}
    Threshold = 2
    Shared = "barrier"
    Text <- Texts
    Launches <- OnlyWaiter
    RegisteredFunction = {"go_forward", "random_sleep"}
INVARIANT BarrierHolds
CHECK_DEADLOCK FALSE
