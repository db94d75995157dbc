SPECIFICATION FairOperations
CONSTANTS
    Version = {"v1", "v2"}
    MaxMoves = 2
    MaxLives = 2
    Faults = {"rpc", "read", "insert"}
    MaxBlocks = 2
    Caller = {"feerate", "api"}
    Diagram = {"empty", "rising"}
    MaxChanges = 3
    OtherSubject = {"mempool.stats"}
    OutboundCapacity = 1
    MaxMounts = 2
    MaxBreaks = 1
    MaxBad = 1
    MaxTip = 1
INVARIANTS
    OperationsTypeOK
    SubjectsAgree
    TipIsCurrent
    
    OutagesAlternate
    LogFollowsWatcher
    VersionRowsAreChanges
    BlocksLandWhole
    ConnectionsAreAccounted
    BlocksAnnouncedInOrder
PROPERTIES
    HealthSettles
    ShutdownEnds
    ObserverRecovers
    AllIsHeard
CHECK_DEADLOCK FALSE
