CONSTANTS
    MAX_RELIABLE_COMMANDS = 2
    ConfigStrings <- MCConfigStrings
    DeferAfter = 1
    MaxPending = 3
    MaxCommands = 2
    MaxServerId = 2
    MaxInFlight = 1
SPECIFICATION FairSpec
PROPERTIES
    CommandsExecuted
