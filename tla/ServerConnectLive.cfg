CONSTANTS
    Clients <- MCClients
    Ports <- MCOnePort
    Numbers <- MCNumbers
    MaxClients = 1
    MAX_CHALLENGES = 2
    RetransmitTimeout = 1
    ReconnectLimit = 2
    ZombieTime = 1
    DropTime = 2
    PacketLife = 0
    MaxPackets = 1
    MaxPortChanges = 0
SPECIFICATION FairSpec
PROPERTIES
    ConnectsEventually
    SlotsRecovered
    NoGhosts
