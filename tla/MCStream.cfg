SPECIFICATION StreamSpec
CONSTANTS
    ClusterId = {c1, c2}
    Contents = {1, 2}
    ChannelCapacity = 2
    OutboundCapacity = 1
    ChunkSize = 1
    MaxRounds = 3
    MaxBreaks = 1
INVARIANTS
    NoDataGaps
PROPERTY
    ListSettles
CHECK_DEADLOCK FALSE
