CONSTANTS
    Keys = {k1}
    Values = {v1, v2}
    Absent = Absent
    Lag = 2
    Aliens = {}
    Devices = {d1, r1}
    Readers = {r1}
    LateReads = FALSE
    CleanupStates = {}
    NewHashes <- MCNewHashes
    Orders <- MCOrders
    MaxEdits = 2
    MaxDumps = 2
    MaxRestarts = 1
    MaxFailures = 0

SPECIFICATION Spec

INVARIANTS
    NeedsDumpSound
    HashesOnlyWhenClean
    ReaderDataStored

SYMMETRY MCSymmetry

CHECK_DEADLOCK FALSE
