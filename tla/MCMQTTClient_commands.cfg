CONSTANTS
    Threads <- MCThreads
    Calls <- MCCommands
    Filters <- MCFilters
    NoFilter = "none"
    MAX_PACKET_ID = 1
    MAX_MESSAGE_HANDLERS = 1
    BrokerQos = {1, 2}
    QueueBound = 1

SPECIFICATION FairSpec

PROPERTIES
    WaitsEnd

CHECK_DEADLOCK FALSE
