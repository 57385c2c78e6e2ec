\* Programs in which the system breaks what its comments promise.
SPECIFICATION Spec
CONSTANTS
    RobotID = 2
    MaxUpdates = 0
    Code <- Broken
    Source <- BrokenSources
    Text <- BrokenTexts
    Updates <- NoUpdates
    RegisteredFunction = {"go_forward", "random_sleep"}
INVARIANT ProgramsDoAsPromised
CHECK_DEADLOCK FALSE
