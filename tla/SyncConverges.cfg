CONSTANTS
    Keys = {k1}
    Values = {v1, v2}
    Absent = Absent
    Lag = 2
    Aliens = {}
    Devices = {d1, d2}
    Readers = {}
    LateReads = FALSE
    CleanupStates = {}
    NewHashes <- MCNewHashes
    Orders <- MCOrders
    MaxEdits = 2
    MaxDumps = 0
    MaxRestarts = 0
    MaxFailures = 0

SPECIFICATION FairSpec

PROPERTIES
    Converges

CHECK_DEADLOCK FALSE
