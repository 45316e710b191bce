CONSTANTS
    Streams <- MCStreams
    MaxWrites = 3
    BufferSize = 2
SPECIFICATION TlsSpec
INVARIANTS NothingHeld  WireIsWhole NoRecordTwice
CHECK_DEADLOCK FALSE
