CONSTANTS
    Size <- MCOneFile
    MAX_DOWNLOAD_WINDOW = 2
    MaxShort = 1
    MaxServerId = 1
    MaxInFlight = 1
SPECIFICATION FairSpec
PROPERTIES
    GameStateArrives
