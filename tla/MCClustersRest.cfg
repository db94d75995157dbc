SPECIFICATION FairClusterSync
CONSTANTS
    TxId = {"a", "b", "x"}
    Parents <- Join
    MaxClusters = 8
    MaxChurn = 2
    MaxFaults = 1
    Faults = {"crash", "rpc", "lookup", "insert", "merge", "replace", "confirm", "trim", "evict", "batch"}
PROPERTY ComesToRest
