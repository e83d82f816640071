CONSTANTS
    Clients <- MCClients
    Ports <- MCPorts
    Numbers <- MCNumbers
    MaxClients = 2
    MAX_CHALLENGES = 2
    RetransmitTimeout = 3
    ReconnectLimit = 4
    ZombieTime = 2
    DropTime = 4
    PacketLife = 1
    MaxPackets = 1
    MaxPortChanges = 1
SPECIFICATION Spec
INVARIANTS
    TypeOK
    OneSlotPerClient
    NoWastedConnection
