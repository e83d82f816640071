CONSTANTS
    MAX_RELIABLE_COMMANDS = 3
    FitsInPacket = 5
    MaxCommands = 5
    MaxServerId = 2
    MaxInFlight = 2
SPECIFICATION FairSpec
INVARIANTS
    TypeOK
    ExecutedAsIssued
    NothingLost
    MovesAfterCommands
    MessagesReadable
PROPERTIES
    CommandsExecuted
