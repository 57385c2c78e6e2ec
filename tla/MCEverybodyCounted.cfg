\* Each robot stores once, as barrier.txt does.
CONSTANTS
    Robot = {r1, r2}
    MaxStores = 1
SPECIFICATION FairSpec
PROPERTY EverybodyCounted
CHECK_DEADLOCK FALSE
