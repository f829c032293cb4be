CONSTANTS
    s1 = s1
    s2 = s2
    Sets = {s1, s2}
    NumParts <- MCNumParts
    Undecodable = {s2}
    Wire <- MCWire
    MaxWait = 1
    MaxRemember = 2
    MaxBatch = 2
    MaxClock = 3
    MaxDumps = 1
    MaxRestarts = 1

SPECIFICATION Spec

INVARIANTS
    TypeOK
    PassedOnWhole
    NoneOverlooked
    PassedOnOnce
    GoodIsUsed
    PendingSaved

CHECK_DEADLOCK FALSE
