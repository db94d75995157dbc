---------------------------- MODULE ClusterStore ----------------------------
(***************************************************************************)
(* The tables that hold the clusters and the transactions on them          *)
(* (api/src/db/repositories/cluster_membership.rs and cluster.rs), as      *)
(* operators from a state of the tables to the next one: each is what one  *)
(* database transaction does.                                              *)
(*                                                                         *)
(* A cluster's chunks are abstracted to the txids they hold, so a new      *)
(* version that only reorders or revalues them is no change here; its      *)
(* past versions are abstracted to whatever txids they still keep live.    *)
(***************************************************************************)
EXTENDS Naturals, FiniteSets

CONSTANTS TxId,         \* the transactions
          MaxClusters   \* bound on clusters_id_seq

ASSUME StoreAssumption == IsFiniteSet(TxId) /\ MaxClusters \in Nat

ClusterId == 1 .. MaxClusters
NoCluster == 0

ClusterStatus == {"none", "active", "merged", "evicted", "confirmed"}
Tables ==
    [status : [ClusterId -> ClusterStatus],      \* clusters.status; "none": no row
     txids  : [ClusterId -> SUBSET TxId],        \* chunks of the cluster's version
     live   : [ClusterId -> SUBSET TxId],        \* chunks flagged live, of any version
     link   : [TxId -> ClusterId \cup {NoCluster}]]   \* transactions.cluster_id

EmptyTables ==
    [status |-> [c \in ClusterId |-> "none"],
     txids  |-> [c \in ClusterId |-> {}],
     live   |-> [c \in ClusterId |-> {}],
     link   |-> [t \in TxId |-> NoCluster]]

Active(d) == {c \in ClusterId : d.status[c] = "active"}
Unused(d) == {c \in ClusterId : d.status[c] = "none"}

(***************************************************************************)
(* Lookups.  Few txids are looked up through the live flag, many (64 or    *)
(* more) through the active clusters' version.                             *)
(***************************************************************************)
find_active_ids_by_txids(d, txids) == {c \in ClusterId : d.live[c] \cap txids # {}}
find_active_ids_by_join(d, txids) == {c \in Active(d) : d.txids[c] \cap txids # {}}

\* Clusters with the chunks of their current version.
load_clusters(d, ids) == [c \in ids \ Unused(d) |-> d.txids[c]]
find_by_ids(d, ids) == load_clusters(d, ids)
find_active(d) == load_clusters(d, Active(d))

(***************************************************************************)
(* Transactions.                                                           *)
(***************************************************************************)

\* `new' maps fresh ids to groups of txids.
insert_in(d, new) ==
    [status |-> [c \in ClusterId |-> IF c \in DOMAIN new THEN "active" ELSE d.status[c]],
     txids  |-> [c \in ClusterId |-> IF c \in DOMAIN new THEN new[c] ELSE d.txids[c]],
     live   |-> [c \in ClusterId |-> IF c \in DOMAIN new THEN new[c] ELSE d.live[c]],
     link   |-> [t \in TxId |-> IF \E c \in DOMAIN new : t \in new[c]
                                THEN CHOOSE c \in DOMAIN new : t \in new[c]
                                ELSE d.link[t]]]

\* Slip: the previous version's chunks stay live.
ReplaceKeepsOldLive(d, id, txids) ==
    IF d.status[id] # "active" \/ d.txids[id] = txids THEN d
    ELSE [d EXCEPT !.txids[id] = txids,
                   !.live[id] = @ \cup txids,
                   !.link = [t \in TxId |-> IF t \in txids THEN id
                                            ELSE IF @[t] = id THEN NoCluster ELSE @[t]]]

replace_chunks(d, id, txids) ==
    IF d.status[id] # "active" \/ d.txids[id] = txids THEN d
    ELSE [d EXCEPT !.txids[id] = txids,
                   !.live[id] = (@ \ d.txids[id]) \cup txids,
                   !.link = [t \in TxId |-> IF t \in txids THEN id
                                            ELSE IF @[t] = id THEN NoCluster ELSE @[t]]]

\* Slip: the members of a closed cluster stay linked to it.
CloseKeepsLinks(d, ids, status) ==
    LET closing == ids \cap Active(d)
    IN  [d EXCEPT !.status = [c \in ClusterId |-> IF c \in closing THEN status ELSE @[c]],
                  !.live = [c \in ClusterId |-> IF c \in closing THEN {} ELSE @[c]]]

\* mark_merged and mark_evicted.
close_many(d, ids, status) ==
    LET closing == ids \cap Active(d)
    IN  [d EXCEPT !.status = [c \in ClusterId |-> IF c \in closing THEN status ELSE @[c]],
                  !.live = [c \in ClusterId |-> IF c \in closing THEN {} ELSE @[c]],
                  !.link = [t \in TxId |-> IF @[t] \in closing THEN NoCluster ELSE @[t]]]

\* The members of a confirmed cluster stay linked to it.
confirm_many(d, ids) ==
    LET pending == ids \cap Active(d)
    IN  [d EXCEPT !.status = [c \in ClusterId |-> IF c \in pending THEN "confirmed" ELSE @[c]],
                  !.live = [c \in ClusterId |-> IF c \in pending THEN {} ELSE @[c]]]

\* replace_chunks_in of the active clusters among the updates with their mined
\* part, born closed, and then confirm_many.
trim_and_confirm_many(d, updates) ==
    LET trimmed == DOMAIN updates \cap Active(d)
        keeper(t) == {c \in trimmed : t \in updates[c]}
    IN  confirm_many(
          [d EXCEPT !.txids = [c \in ClusterId |-> IF c \in trimmed THEN updates[c] ELSE @[c]],
                    !.live = [c \in ClusterId |-> IF c \in trimmed THEN @[c] \ d.txids[c]
                                                  ELSE @[c]],
                    !.link = [t \in TxId |-> IF keeper(t) # {} THEN CHOOSE c \in keeper(t) : TRUE
                                             ELSE IF @[t] \in trimmed THEN NoCluster
                                             ELSE @[t]]],
          DOMAIN updates)
=============================================================================
