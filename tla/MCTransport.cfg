CONSTANTS
    BASE = 2
    Streams <- MCStreams
    SendLengths = {2}
    MaxErrors = 1

SPECIFICATION FairSpec

INVARIANTS
    TypeOK
    InStep

PROPERTIES
    SuccessIsWhole
    ImplementsPacketLink
    EveryPacketIsRead

CHECK_DEADLOCK FALSE
