CONSTANTS
    Threads <- Tasks
    Calls <- MCCalls
    Filters <- MCFilters
    NoFilter = "none"
    MAX_PACKET_ID = 3
    MAX_MESSAGE_HANDLERS = 2
    BrokerQos = {0}
    QueueBound = 2

SPECIFICATION DeviceSpec

INVARIANTS
    AnswerIsOwn
    SubscriptionIsHandled
    HandlersIndexedByTopic
    ServesWhatWasGranted
    NothingBeforeAnswer
