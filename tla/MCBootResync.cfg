SPECIFICATION PipelineSpec
CONSTANTS
    TxId = {t1, t2}
    JournalCap = 4
    MaxHold = 1
    MaxChurn = 3
    MaxFaults = 1
    Mishaps = {"boot_resync"}
SYMMETRY TxSymmetry
INVARIANT
    EveryRowIsATransition
