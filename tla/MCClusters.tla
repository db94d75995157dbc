---------------------------- MODULE MCClusters ----------------------------
EXTENDS ClusterSync

\* x spends a and b.
Join == [t \in TxId |-> IF t = "x" THEN {"a", "b"} ELSE {}]
\* ... and d spends b.
Branch == [t \in TxId |-> CASE t = "x" -> {"a", "b"} [] t = "d" -> {"b"} [] OTHER -> {}]

\* Nothing is mined: evictions and arrivals suffice.
NothingMined == chain = <<>>
=============================================================================
