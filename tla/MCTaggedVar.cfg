\* Two writers, a clock of three values, everybody may join late.
CONSTANTS
    Robot = {r1, r2}
    Writer = {r1, r2}
    None = None
    MaxClock = 2
    MaxStores = 3
    MaxBroadcasts = 4
SPECIFICATION FairSpec
INVARIANTS TypeOK Convergence
PROPERTIES NeverOlder EventualAgreement
CHECK_DEADLOCK FALSE
