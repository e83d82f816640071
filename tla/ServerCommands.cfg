CONSTANTS
    MAX_RELIABLE_COMMANDS = 3
    ConfigStrings <- MCConfigStrings
    DeferAfter = 1
    MaxPending = 4
    MaxCommands = 4
    MaxServerId = 2
    MaxInFlight = 2
SPECIFICATION Spec
INVARIANTS
    TypeOK
    PendingIntact
    ClientAgrees
    ExecutedAsIssued
    SnapshotAfterCommands
    KeyAgreement
