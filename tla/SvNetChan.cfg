CONSTANTS
    MAX_MSGLEN = 4
    FRAGMENT_SIZE = 2
    Lengths <- MCLengths
    MaxMessages = 3
SPECIFICATION FairSpec
INVARIANTS
    TypeOK
    SnapshotSequenceExact
    OneMessagePerSequence
    EndedIsComplete
PROPERTIES
    ImplementsStream
    Drains
CHECK_DEADLOCK FALSE
