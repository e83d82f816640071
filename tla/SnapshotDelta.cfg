CONSTANTS
    Views <- MCViews
    Values = 2
    PACKET_BACKUP = 3
    Margin = 0
    numSnapshotEntities = 8
    MAX_PARSE_ENTITIES = 5
    ParseMargin = 1
    MaxSequence = 6
    MaxServerId = 2
    MaxOthers = 1
    MaxInFlight = 1
SPECIFICATION Spec
INVARIANTS
    TypeOK
    SnapshotsExact
    SourceIsKept
CHECK_DEADLOCK FALSE
