CONSTANTS
    Lengths <- MCLengths
    Chunks = 2
    MaxSets = 0
    MaxServerId = 2
    MaxChanges = 2
    MaxInFlight = 1
SPECIFICATION FairSpec
PROPERTIES
    AlwaysCatchesUp
