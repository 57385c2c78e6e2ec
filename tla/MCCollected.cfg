\* One robot with two foreach blocks, and one that stores.
SPECIFICATION Spec
CONSTANTS
    Robot = {1, 2}
    Threshold = 2
    Shared = "barrier"
    Text <- Texts
    Launches <- OnlyTwice
    RegisteredFunction = {"go_forward", "random_sleep"}
INVARIANT DependantsAreKept
CHECK_DEADLOCK FALSE
