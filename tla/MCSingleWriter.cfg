\* One writer among three robots and clock readings that never coincide.
CONSTANTS
    Robot = {r1, r2, r3}
    Writer = {r1}
    None = None
    MaxClock = 14
    MaxStores = 2
    MaxBroadcasts = 11
SPECIFICATION FairDistinctSpec
PROPERTIES SingleWriterNeverGoesBack SingleWriterSettles
CHECK_DEADLOCK FALSE
