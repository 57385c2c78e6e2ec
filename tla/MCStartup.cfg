\* Three robots that start before or after the signal, one update, two faults
\* of any kind.
CONSTANTS
    Robot = {r1, r2, r3}
    TimestampWord = 1000
    MaxUpdates = 1
    MaxFaults = 2
SPECIFICATION FairFaultySpec
INVARIANTS TypeOK DistinctIDs NoMisreadPacket NobodyStartsEarly
PROPERTY EverybodyStarts
CHECK_DEADLOCK FALSE
