CONSTANTS
    Size <- MCTwoFiles
    MAX_DOWNLOAD_WINDOW = 2
    MaxShort = 3
    MaxServerId = 2
    MaxInFlight = 2
SPECIFICATION FairSpec
INVARIANTS
    TypeOK
    FilesExact
    NoBrokenDownload
    CommandsBounded
PROPERTIES
    FilesArrive
