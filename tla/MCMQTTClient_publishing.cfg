CONSTANTS
    Threads <- MCThreads
    Calls <- MCPublishing
    Filters <- MCFilters
    NoFilter = "none"
    MAX_PACKET_ID = 1
    MAX_MESSAGE_HANDLERS = 1
    BrokerQos = {}
    QueueBound = 2

SPECIFICATION Spec

INVARIANTS
    TypeOK
    PingAccounted
    ProtocolOrder

CHECK_DEADLOCK FALSE
