\* Robot 2 with each of the programs; robots 1 and 3 send updates.
SPECIFICATION FairSpec
CONSTANTS
    RobotID = 2
    MaxUpdates = 3
    Code <- Codes
    Source <- Sources
    Text <- Texts
    Updates <- UpdatesOf
    RegisteredFunction = {"go_forward", "random_sleep"}
INVARIANT TypeOK
INVARIANT ProgramsMeanWhatTheySay
INVARIANT OnlyReactionsGrowTheStack
INVARIANT CodeRunsInItsScope
INVARIANT BodiesStayApart
INVARIANT NothingIsOutOfDate
INVARIANT ForeachVisitsEachOnce
PROPERTY ProgramsComeToRest
CHECK_DEADLOCK FALSE
