SPECIFICATION ClusterSyncSpec
CONSTANTS
    TxId = {"a", "b", "x"}
    Parents <- Join
    MaxClusters = 8
    MaxChurn = 3
    MaxFaults = 2
    Faults = {"crash", "rpc", "lookup", "insert", "merge", "replace", "confirm", "trim", "evict"}
INVARIANTS
    LiveChunksAreCurrent
    LinksMatchClusters
    SnapshotIsActiveClusters
    StaleClustersAreOwed
    ClustersMatchNode
PROPERTY UnlinkedAreRequeued
