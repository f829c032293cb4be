CONSTANTS
    MaxRefreshes = 3
    MaxClears = 2
    MaxFailures = 2
    MaxRestarts = 1

SPECIFICATION FairSpec

INVARIANTS
    TypeOK
    SavedAtRest
    ClearTakesEffect

PROPERTIES
    CatchesUp
    ShutDownEnds

CHECK_DEADLOCK FALSE
