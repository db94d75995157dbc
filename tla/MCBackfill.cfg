SPECIFICATION FairBackfill
CONSTANTS
    TxId = {t1, t2}
    QueueCapacity = 1
    MAX_CONCURRENT_BACKFILLS = 1
    MAX_ATTEMPTS = 1
    AttemptsMax = 2
    MaxMoves = 1
    MaxTransient = 2
    MaxDbErrors = 1
INVARIANTS
    EntryFollowsRaw
PROPERTIES
    StayersAreCompleted
    DrainEnds
CHECK_DEADLOCK FALSE
