CONSTANTS
    Keys = {k1}
    Values = {v1}
    Absent = Absent
    Lag = 2
    Aliens = {}
    Devices = {d1, d2}
    Readers = {}
    LateReads = FALSE
    CleanupStates = {"Clean", "Waiting"}
    NewHashes <- MCNewHashes
    Orders <- MCOrders
    MaxEdits = 1
    MaxDumps = 1
    MaxRestarts = 1
    MaxFailures = 2

SPECIFICATION FairSpec

PROPERTIES
    Converges

CHECK_DEADLOCK FALSE
