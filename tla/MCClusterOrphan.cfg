SPECIFICATION ClusterSyncSpec
CONSTANTS
    TxId = {"a", "b", "x", "d"}
    Parents <- Branch
    MaxClusters = 9
    MaxChurn = 4
    MaxFaults = 0
    Faults = {}
INVARIANT EveryTxHasACluster
CONSTRAINT NothingMined
