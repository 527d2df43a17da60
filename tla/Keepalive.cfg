CONSTANTS
    Half = 16
    TIMER_TICK_PERIOD = 3
    Timeouts = {12}
    MaxAge = 16
    KEEPALIVE = 12
    GRACE = 18
    ANSWER = 9
    PUBLISH_PERIOD = 6
    POLLING_PERIOD = 3
    Values = {0, 1, 3, 6, 14}
    YIELD = 2

SPECIFICATION KSpec

INVARIANTS
    TypeOK
    KTypeOK
    ExpiresOnTime
    KeptAlive
