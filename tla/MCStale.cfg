\* Two robots store at the same time, with clock readings that never coincide.
CONSTANTS
    Robot = {r1, r2}
    Writer = {r1, r2}
    None = None
    MaxClock = 3
    MaxStores = 2
    MaxBroadcasts = 3
SPECIFICATION DistinctSpec
PROPERTY NoStaleOverwrite
CHECK_DEADLOCK FALSE
