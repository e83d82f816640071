CONSTANTS
    Lengths <- MCLengths
    Chunks = 2
    MaxSets = 3
    MaxServerId = 3
    MaxChanges = 5
    MaxInFlight = 1
SPECIFICATION FairSpec
INVARIANTS
    TypeOK
    ClientAgrees
    SnapshotsOfThisMap
    MovesOfThisMap
PROPERTIES
    CatchesUp
