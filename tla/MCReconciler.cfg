SPECIFICATION RepairedSpec
CONSTANTS
    TxId = {t1, t2}
    JournalCap = 2
    MaxHold = 1
SYMMETRY TxSymmetry
INVARIANTS
    ReconcilerTypeOK
    NoFlushDuringBlock
    DatabaseCatchesUp
    LabelsAreCurrent
PROPERTY
    ImplementsResidencyLog
