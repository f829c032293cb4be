CONSTANTS
    Keys = {k1}
    Values = {v1, v2}
    Absent = Absent
    Lag = 2
    Aliens = {}
    Devices = {d1, d2}
    Readers = {}
    LateReads = TRUE
    CleanupStates = {}
    NewHashes <- MCNewHashes
    Orders <- MCOrders
    MaxEdits = 2
    MaxDumps = 0
    MaxRestarts = 0
    MaxFailures = 1

SPECIFICATION Spec

INVARIANTS
    TypeOK
    CurrentNotObsolete
    SomeConfKept
    SettledAgree
    NoChangeLost
    CleanDataStored

PROPERTIES
    SeqnoNeverBack

SYMMETRY MCSymmetry

CHECK_DEADLOCK FALSE
