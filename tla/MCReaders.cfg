SPECIFICATION ReadersSpec
CONSTANTS
    TxId = {t1, t2}
    JournalCap = 6
    MaxCalls = 5
    MaxHold = 2
    Slack = 1
    Ladder = {1, 2, 4}
    MaxPoints = 2
    BackToBack = FALSE
    Duration = 6
    MaxEntries = 1
    MaxBlocks = 2
    MaxFaults = 1
SYMMETRY TxSymmetry
INVARIANTS
    SettledTxsAreFolded
    WindowsTile
    CountsAreFinal
    
CHECK_DEADLOCK FALSE
