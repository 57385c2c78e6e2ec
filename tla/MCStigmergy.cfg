\* Two robots, two stores each, joining at any time.
CONSTANTS
    Robot = {r1, r2}
    MaxStores = 3
SPECIFICATION FairSpec
INVARIANTS TypeOK KnownOrOnTheWay
PROPERTIES OthersNeverGoBack StoresSpread
CHECK_DEADLOCK FALSE
