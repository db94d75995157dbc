SPECIFICATION PipelineSpec
CONSTANTS
    TxId = {t1, t2}
    JournalCap = 3
    MaxHold = 1
    MaxChurn = 3
    MaxFaults = 1
    Mishaps = {"lost_event"}
SYMMETRY TxSymmetry
INVARIANTS
    EveryRowIsATransition
PROPERTY
    ReconcilerSpec
