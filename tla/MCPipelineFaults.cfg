SPECIFICATION FairPipeline
CONSTANTS
    TxId = {t1}
    JournalCap = 2
    MaxHold = 1
    MaxChurn = 2
    MaxFaults = 1
    Mishaps = {"boot_unseeded", "hang", "lost_ack"}
INVARIANT
    NoMissingHeights
PROPERTIES
    Converges
    EventsAreServed
