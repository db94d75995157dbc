------------------------- MODULE ClusterSyncProofs --------------------------
(***************************************************************************)
(* The cluster service keeps its tables consistent, and the snapshot that  *)
(* clients are served from equal to them, for any transactions, any number *)
(* of clusters, and any calls that fail.                                   *)
(***************************************************************************)
EXTENDS ClusterSyncRounds

\* The invariant holds of an empty database.
LEMMA InitInv == ClusterSyncInit => Inv
<1> SUFFICES ASSUME ClusterSyncInit PROVE Inv
  OBVIOUS
<1>1. NodeInv /\ LedgerInv /\ JobsInv
  BY DEF ClusterSyncInit, NodeInv, LedgerInv, JobsInv
<1>2. db = EmptyTables /\ \A c \in ClusterId : db.status[c] = "none"
  BY DEF ClusterSyncInit, EmptyTables
<1>3. TablesInv
  BY <1>2, EmptyConsistent DEF TablesInv, Active
<1> QED
  BY <1>1, <1>3 DEF Inv

\* Every step keeps the invariant.
LEMMA NextInv == Inv /\ [ClusterSyncNext]_vars => Inv'
<1> SUFFICES ASSUME Inv, [ClusterSyncNext]_vars PROVE Inv'
  OBVIOUS
<1>1. CASE NodeChanges \/ PollNode \/ sync_clusters_after_flush \/ apply_block
  BY <1>1, NodeChangesKeeps, PollNodeKeeps, SyncKeeps, ApplyBlockKeeps
<1>2. CASE publish_delta \/ Bootstrap \/ Crash
  BY <1>2, RestKeeps
<1>3. CASE handle_confirmed \/ confirm_mined_inner \/ handle_evicted
  BY <1>3, ConfirmedKeeps, ConfirmMinedKeeps, EvictedKeeps
<1>4. CASE AskNode \/ TakeAnswer \/ InsertSingletons
  BY <1>4, AskKeeps, TakeAnswerKeeps, SingletonsKeeps
<1>5. CASE UNCHANGED vars
  <2>1. UNCHANGED <<nodePool, chain, stored, live, toAdd, toRemove, eventual, resident, db, jobs>>
    BY <1>5 DEF vars, nodeVars, ledgerVars, roundVars
  <2> QED
    BY <2>1, MinedSame, MoreMined DEF Inv, NodeInv, LedgerInv
<1> QED
  BY <1>1, <1>2, <1>3, <1>4, <1>5 DEF ClusterSyncNext, ServiceStep, RoundStep

\* The invariant of the cluster service: its tables are consistent, and the queue of
\* its round never holds a singleton that an active cluster has, nor an unmined
\* txid in a block job.
THEOREM Inductive == ClusterSyncSpec => []Inv
BY InitInv, NextInv, PTL DEF ClusterSyncSpec

\* Whatever the node does between two calls, whichever calls fail and whenever
\* the process is restarted, the live flag marks the current version of the
\* active clusters and nothing else (cluster_membership.rs).
THEOREM LiveFlagIsRight == ClusterSyncSpec => []LiveChunksAreCurrent
<1>1. Inv => LiveChunksAreCurrent
  <2> SUFFICES ASSUME Inv, NEW t \in TxId
               PROVE  find_active_ids_by_txids(db, {t}) = find_active_ids_by_join(db, {t})
    BY DEF LiveChunksAreCurrent
  <2> QED
    BY FoundAreActive DEF Inv, TablesInv, find_active_ids_by_join
<1> QED
  BY <1>1, Inductive, PTL

\* ... transactions.cluster_id and the members of the clusters agree, and a
\* confirmed cluster has mined members only.
THEOREM LinksAreRight == ClusterSyncSpec => []LinksMatchClusters
<1>1. Inv => LinksMatchClusters
  <2> SUFFICES ASSUME Inv PROVE LinksMatchClusters
    OBVIOUS
  <2>1. Linked(db) /\ db \in Tables
    BY DEF Inv, TablesInv, Consistent
  <2>2. \A c \in Active(db) : db.txids[c] \subseteq TxId
    BY <2>1 DEF Tables, Active
  <2>3. \A c \in Active(db) : db.txids[c] = {t \in TxId : db.link[t] = c}
    BY <2>1, <2>2 DEF Linked
  <2> QED
    BY <2>1, <2>3 DEF LinksMatchClusters, Linked, Inv, TablesInv
<1> QED
  BY <1>1, Inductive, PTL

\* What the snapshot will be when the round is over is what the tables have.
SnapshotInv ==
    /\ changes \in ChangeSet
    /\ snapshot \in [ClusterId -> SUBSET TxId]
    /\ round = "none" => changes = NoChanges /\ jobs = <<>>
    /\ up => \A c \in ClusterId : Published(changes, snapshot, c) = Holds(db, c)

\* Without changes the snapshot stays.
LEMMA NothingPublished ==
    ASSUME NEW c \in ClusterId, NEW s
    PROVE  Published(NoChanges, s, c) = s[c] /\ NoChanges \in ChangeSet
BY DEF Published, NoChanges, ChangeSet

\* seed_snapshot has the members of the active clusters.
LEMMA SeedIs ==
    ASSUME db \in Tables
    PROVE  /\ seed_snapshot \in [ClusterId -> SUBSET TxId]
           /\ \A c \in ClusterId : seed_snapshot[c] = Holds(db, c)
<1>1. Active(db) \ Unused(db) = Active(db)
  BY DEF Active, Unused
<1>2. find_active(db) = [c \in Active(db) |-> db.txids[c]]
  BY <1>1 DEF find_active, load_clusters
<1>3. seed_snapshot = [c \in ClusterId |-> IF c \in Active(db) THEN db.txids[c] ELSE {}]
  BY <1>2 DEF seed_snapshot, seed
<1>4. \A c \in ClusterId : db.txids[c] \in SUBSET TxId
  BY DEF Tables
<1> QED
  BY <1>3, <1>4 DEF Holds

\* Every step records what it changes, or starts anew.
LEMMA NextSnapshot ==
    ASSUME "batch" \notin Faults, Inv, SnapshotInv, [ClusterSyncNext]_vars
    PROVE  SnapshotInv'
<1>1. CASE UNCHANGED <<changes, snapshot, db, up>> /\ (UNCHANGED <<round, jobs>> \/ round' # "none")
  BY <1>1 DEF SnapshotInv, Published, Holds, Active
<1>2. CASE Recorded /\ UNCHANGED <<snapshot, up, round>> /\ round # "none"
  BY <1>2 DEF SnapshotInv, Recorded, Published, Holds, Active
<1>3. CASE publish_delta
  <2>1. /\ changes' = NoChanges /\ up' = up /\ db' = db /\ jobs' = <<>>
        /\ snapshot' = [c \in ClusterId |-> Published(changes, snapshot, c)]
    BY <1>3 DEF publish_delta, Published
  <2>2. snapshot' \in [ClusterId -> SUBSET TxId]
    <3>1. \A c \in ClusterId : Published(changes, snapshot, c) \in SUBSET TxId
      BY DEF SnapshotInv, ChangeSet, Published
    <3> QED
      BY <2>1, <3>1
  <2>3. ASSUME up', NEW c \in ClusterId PROVE Published(changes', snapshot', c) = Holds(db', c)
    BY <2>1, <2>3, NothingPublished DEF SnapshotInv
  <2>4. changes' \in ChangeSet
    BY <2>1 DEF NoChanges, ChangeSet
  <2>5. \A c \in ClusterId :
          /\ Published(changes, snapshot, c)' = Published(changes', snapshot', c)
          /\ Holds(db, c)' = Holds(db', c)
    BY DEF Published, Holds, Active
  <2> QED
    BY <2>1, <2>2, <2>3, <2>4, <2>5 DEF SnapshotInv
<1>4. CASE Bootstrap
  <2>1. changes' = NoChanges /\ jobs' = <<>> /\ db' = db /\ snapshot' = seed_snapshot
    BY <1>4 DEF Bootstrap, SnapshotInv, roundVars
  <2>2. /\ seed_snapshot \in [ClusterId -> SUBSET TxId]
        /\ \A c \in ClusterId : seed_snapshot[c] = Holds(db, c)
    BY SeedIs DEF Inv, TablesInv, Consistent
  <2>3. \A c \in ClusterId : Published(changes', snapshot', c) = Holds(db', c)
    BY <2>1, <2>2, NothingPublished
  <2>4. changes' \in ChangeSet
    BY <2>1 DEF NoChanges, ChangeSet
  <2>5. \A c \in ClusterId :
          /\ Published(changes, snapshot, c)' = Published(changes', snapshot', c)
          /\ Holds(db, c)' = Holds(db', c)
    BY DEF Published, Holds, Active
  <2> QED
    BY <2>1, <2>2, <2>3, <2>4, <2>5 DEF SnapshotInv
<1>5. CASE Crash
  <2>1. changes' = NoChanges /\ jobs' = <<>> /\ snapshot' = NoClusters /\ ~up'
    BY <1>5 DEF Crash
  <2>2. changes' \in ChangeSet /\ snapshot' \in [ClusterId -> SUBSET TxId]
    BY <2>1 DEF NoChanges, ChangeSet, NoClusters
  <2> QED
    BY <2>1, <2>2 DEF SnapshotInv
<1>6. CASE NodeChanges \/ PollNode \/ sync_clusters_after_flush \/ apply_block \/ UNCHANGED vars
  BY <1>1, <1>6
     DEF NodeChanges, PollNode, sync_clusters_after_flush, apply_block, vars, roundVars
<1>7. CASE RoundStep /\ ~publish_delta
  <2>1. Recorded
    BY <1>7, ConfirmedKeeps, ConfirmMinedKeeps, EvictedKeeps, AskKeeps, TakeAnswerKeeps,
       SingletonsKeeps DEF RoundStep
  <2>2. UNCHANGED <<snapshot, up, round>>
    BY <1>7 DEF RoundStep, handle_confirmed, confirm_mined_inner, handle_evicted, AskNode,
       TakeAnswer, InsertSingletons, roundRest
  <2>3. round # "none"
    BY <1>7 DEF SnapshotInv, RoundStep, handle_confirmed, confirm_mined_inner, handle_evicted,
       AskNode, TakeAnswer, InsertSingletons
  <2> QED
    BY <1>2, <2>1, <2>2, <2>3
<1> QED
  BY <1>3, <1>4, <1>5, <1>6, <1>7 DEF ClusterSyncNext, ServiceStep

\* Between rounds, clients are served exactly the active clusters
\* (ClusterDeltaService::publish), unless an insert of several batches fails in
\* between two of them.
THEOREM ClientsSeeTheTables ==
    ASSUME "batch" \notin Faults
    PROVE  ClusterSyncSpec => []SnapshotIsActiveClusters
<1>1. ClusterSyncInit => SnapshotInv
  <2> SUFFICES ASSUME ClusterSyncInit PROVE SnapshotInv
    OBVIOUS
  <2>1. changes = NoChanges /\ snapshot = NoClusters /\ jobs = <<>> /\ ~up
    BY DEF ClusterSyncInit
  <2>2. changes \in ChangeSet /\ snapshot \in [ClusterId -> SUBSET TxId]
    BY <2>1 DEF NoChanges, ChangeSet, NoClusters
  <2> QED
    BY <2>1, <2>2 DEF SnapshotInv
<1>2. Inv /\ SnapshotInv /\ [ClusterSyncNext]_vars => SnapshotInv'
  BY NextSnapshot
<1>3. Inv /\ SnapshotInv => SnapshotIsActiveClusters
  <2> SUFFICES ASSUME Inv, SnapshotInv, up, round = "none" PROVE snapshot = seed_snapshot
    BY DEF SnapshotIsActiveClusters
  <2>1. /\ seed_snapshot \in [ClusterId -> SUBSET TxId]
        /\ \A c \in ClusterId : seed_snapshot[c] = Holds(db, c)
    BY SeedIs DEF Inv, TablesInv, Consistent
  <2>2. \A c \in ClusterId : snapshot[c] = Holds(db, c)
    BY NothingPublished DEF SnapshotInv
  <2> QED
    BY <2>1, <2>2 DEF SnapshotInv
<1> QED
  BY <1>1, <1>2, <1>3, Inductive, PTL DEF ClusterSyncSpec
=============================================================================
