CONSTANTS
    PUBLISH_PERIOD = 3
    RECONNECT_PERIOD = 4
    WDOG_PERIOD = 8
    NUM_SENSORS = 2
    NumMeas <- MCNumMeas
    MemoryMayRunOut = FALSE

SPECIFICATION Spec

INVARIANTS
    FailedConnectionIsRetried
