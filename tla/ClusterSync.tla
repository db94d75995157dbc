---------------------------- MODULE ClusterSync ----------------------------
(***************************************************************************)
(* The cluster service (api/src/services/cluster.rs): how the clusters in  *)
(* the database follow the clusters of the node's mempool, one round after *)
(* each flush of the reconciler and one for each block.                    *)
(*                                                                         *)
(* The block gate runs one round at a time (BlockGate; a hold that exceeds *)
(* MAX_HOLD is not modelled here), so only the round in progress writes    *)
(* the tables, while the node changes and is polled at any time.  The      *)
(* ledger and its journal (MempoolLedger) are abstracted to the txids with *)
(* an unflushed Add or Remove and the residency they lead to.              *)
(***************************************************************************)
EXTENDS ClusterStore, Sequences, FiniteSetsExt

CONSTANTS Parents,     \* the unconfirmed transactions each one spends
          MaxChurn,    \* bound on the changes of the node's mempool and chain
          MaxFaults,   \* bound on the crashes and the failing calls
          Faults       \* which calls may fail, and whether the process may crash

FaultKind ==
    {"crash", "rpc", "lookup", "insert", "merge", "replace", "confirm", "trim", "evict",
     "batch"}   \* an insert fails after earlier batches of it went in

ASSUME ClusterSyncAssumption ==
    /\ Parents \in [TxId -> SUBSET TxId]
    /\ MaxChurn \in Nat /\ MaxFaults \in Nat
    /\ Faults \subseteq FaultKind

VARIABLES nodePool, chain, churn,        \* the node
          live, toAdd, toRemove,         \* the ledger and the entries of its journal
          eventual,                      \* residency once the journal is flushed
          resident,                      \* residency by the table mempool_deltas
          stored,                        \* table blocks: how many of the chain it has
          db,                            \* the cluster tables
          up,                            \* bootstrap is over
          jobs,                          \* what is left of the round
          round,                         \* "none", "tick" or "block"
          changes,                       \* ClusterDeltaSet of the round
          snapshot,                      \* the ClusterSnapshot that clients are served from
          faults,                        \* how many crashes and failing calls so far
          still                          \* the node has kept still during all rounds

nodeVars == <<nodePool, chain, churn, still>>
ledgerVars == <<live, toAdd, toRemove, eventual>>
roundVars == <<jobs, round, changes>>
vars == <<nodeVars, ledgerVars, resident, stored, db, up, roundVars, snapshot, faults>>

NoChanges == [upserted |-> [c \in ClusterId |-> {}], removed |-> {}]
NoClusters == [c \in ClusterId |-> {}]

Mined(n) == UNION {chain[h] : h \in 1 .. n}

\* handle_candidates_covering: what it has still to ask, what it need not ask
\* any more, the singletons it will insert, and the answer it is acting on.
Ask(txids, covered) ==
    [op |-> "ask", pending |-> txids \ covered, covered |-> covered, fresh |-> {},
     answer |-> <<>>]
handle_candidates(txids) == Ask(txids, {})
Job(op, txids) == [op |-> op, txids |-> txids]

ClusterSyncInit ==
    /\ nodePool = {} /\ chain = <<>> /\ churn = 0
    /\ live = {} /\ toAdd = {} /\ toRemove = {} /\ eventual = {}
    /\ resident = {} /\ stored = 0 /\ db = EmptyTables
    /\ up = FALSE
    /\ jobs = <<>> /\ round = "none" /\ changes = NoChanges
    /\ snapshot = NoClusters
    /\ faults = 0 /\ still = TRUE

(***************************************************************************)
(* The node (external): a transaction enters after its parents, leaves     *)
(* with its descendants, and is mined with or after its ancestors.  Its    *)
(* cluster is its connected component.                                     *)
(***************************************************************************)
Related(t) == {u \in nodePool : u \in Parents[t] \/ t \in Parents[u]}

Component(t) ==
    CHOOSE group \in SUBSET nodePool :
        /\ t \in group
        /\ \A u \in group : Related(u) \subseteq group
        /\ \A part \in SUBSET group :
              t \in part /\ (\A u \in part : Related(u) \subseteq part) => part = group

\* ClusterRpcRetriever::get_mempool_cluster.  A txid that the node does not have
\* is told apart from a call that fails: here it is the answer {}.
get_mempool_cluster(t) == IF t \in nodePool THEN Component(t) ELSE {}

NodeChanges ==
    /\ churn < MaxChurn
    /\ still' = (still /\ round = "none")
    /\ churn' = churn + 1
    /\ \/ /\ \E enter \in SUBSET (TxId \ (nodePool \cup Mined(Len(chain)))) :
                /\ enter # {}
                /\ \A t \in enter :
                      Parents[t] \subseteq nodePool \cup enter \cup Mined(Len(chain))
                /\ nodePool' = nodePool \cup enter
          /\ UNCHANGED chain
       \/ /\ \E leave \in SUBSET nodePool :
                /\ leave # {}
                /\ \A t \in nodePool \ leave : Parents[t] \cap leave = {}
                /\ nodePool' = nodePool \ leave
          /\ UNCHANGED chain
       \/ \E block \in SUBSET nodePool :
          /\ block # {}
          /\ \A t \in block : Parents[t] \cap nodePool \subseteq block
          /\ nodePool' = nodePool \ block
          /\ chain' = Append(chain, block)
    /\ UNCHANGED <<ledgerVars, resident, stored, db, up, roundVars, snapshot, faults>>

(***************************************************************************)
(* The ledger, summarised.                                                 *)
(***************************************************************************)

LedgerMoves(added, removed) ==
    /\ live' = (live \cup added) \ removed
    /\ toAdd' = toAdd \cup (added \ live)
    /\ toRemove' = toRemove \cup (removed \cap live)
    /\ eventual' = (eventual \cup (added \ live)) \ (removed \cap live)

assert_present(txids) == LedgerMoves(txids, {})
assert_absent(txids) == LedgerMoves({}, txids)

\* The mempool watcher's poll.
PollNode ==
    /\ up
    /\ LedgerMoves(nodePool, live \ nodePool)
    /\ UNCHANGED <<nodeVars, resident, stored, db, up, roundVars, snapshot, faults>>

(***************************************************************************)
(* Rounds.  sync_clusters handles confirmed, then evicted, then candidate  *)
(* txids and publishes the merged changes; a block's round handles its     *)
(* own txids.                                                              *)
(***************************************************************************)

\* A tick has committed its batch and syncs the clusters.
sync_clusters_after_flush ==
    /\ up /\ round = "none"
    /\ toAdd \cup toRemove # {}
    /\ resident' = eventual
    /\ toAdd' = {} /\ toRemove' = {}
    /\ round' = "tick"
    /\ jobs' = <<Job("confirmed", toRemove \cap Mined(stored)),
                 Job("evicted", toRemove \ Mined(stored)),
                 handle_candidates(toAdd)>>
    /\ UNCHANGED <<nodeVars, live, eventual, stored, db, up, changes, snapshot, faults>>

\* A block's transaction is in and its txids are asserted absent.
apply_block ==
    /\ round = "none"
    /\ stored < Len(chain)
    /\ stored' = stored + 1
    /\ assert_absent(chain[stored + 1])
    /\ round' = "block"
    /\ jobs' = <<Job("block", chain[stored + 1])>>
    /\ UNCHANGED <<nodeVars, resident, db, up, changes, snapshot, faults>>

\* Slip: removed clusters are not recorded.
MarkedForgetsRemoved(ch, d, upserted, removed) ==
    [upserted |-> [c \in ClusterId |-> IF c \in upserted \cap Active(d) THEN d.txids[c]
                                       ELSE ch.upserted[c]],
     removed |-> ch.removed \ upserted]

\* mark_removed and mark_upserted; an upserted cluster that is not active any
\* more counts as removed.
Marked(ch, d, upserted, removed) ==
    LET gone == removed \cup (upserted \ Active(d))
    IN  [upserted |-> [c \in ClusterId |-> IF c \in gone THEN {}
                                           ELSE IF c \in upserted THEN d.txids[c]
                                           ELSE ch.upserted[c]],
         removed |-> (ch.removed \ upserted) \cup gone]

\* One of the calls that may fail does.
Fails(call) ==
    /\ call \in Faults
    /\ faults < MaxFaults
    /\ faults' = faults + 1

roundRest == <<nodeVars, resident, stored, up, round, snapshot>>

\* TransactionRepository::find_mined_by_txids: mined ones with their height.
find_mined_by_txids(txids) == {row \in (1 .. stored) \X txids : row[2] \in chain[row[1]]}

\* MinedTxs::by_block: in height order.
by_block(rows) ==
    LET heights == {row[1] : row \in rows}
        below(h) == Cardinality({k \in heights : k < h})
    IN  [i \in 1 .. Cardinality(heights) |->
            {row[2] : row \in {r \in rows : below(r[1]) = i - 1}}]

\* handle_confirmed: the mined members of the clusters that the confirmed
\* txids belong to, block by block.
handle_confirmed ==
    /\ jobs # <<>> /\ Head(jobs).op = "confirmed"
    /\ LET ids == find_active_ids_by_txids(db, Head(jobs).txids)
           blocks == by_block(find_mined_by_txids(UNION Range(find_by_ids(db, ids))))
       IN  \/ /\ jobs' = [i \in DOMAIN blocks |-> Job("block", blocks[i])] \o Tail(jobs)
              /\ UNCHANGED faults
           \/ Fails("lookup") /\ jobs' = Tail(jobs)
    /\ UNCHANGED <<ledgerVars, db, changes, roundRest>>

\* All members of a cluster are in the MinedBlock.
MinedWhole(cluster, block) == \A t \in cluster : t \in block

\* MinedTrim: a cluster split into what the block mined and what is pending.
MinedTrim(cluster, block) == [mined |-> cluster \cap block, pending |-> cluster \ block]

\* confirm_mined_inner: the clusters that the block mined whole are confirmed
\* in one transaction, the others are trimmed to what it mined in another, and
\* what it left of them is asked for.
confirm_mined_inner ==
    /\ jobs # <<>> /\ Head(jobs).op = "block"
    /\ LET block == Head(jobs).txids
           clusters == find_by_ids(db, find_active_ids_by_txids(db, block))
           full == {c \in DOMAIN clusters : MinedWhole(clusters[c], block)}
           trims == [c \in DOMAIN clusters \ full |-> MinedTrim(clusters[c], block)]
       IN  \E failing \in SUBSET (Faults \cap {"lookup", "confirm", "trim"}) :
           LET confirming == IF failing \cap {"lookup", "confirm"} = {} THEN full ELSE {}
               trimming == IF failing \cap {"lookup", "trim"} = {} THEN DOMAIN trims ELSE {}
               updates == [c \in trimming |-> trims[c].mined]
               pending == UNION {trims[c].pending : c \in trimming}
           IN  /\ faults' = faults + Cardinality(failing)
               /\ faults' <= MaxFaults
               /\ db' = trim_and_confirm_many(confirm_many(db, confirming), updates)
               /\ changes' = Marked(changes, db', {}, confirming \cup trimming)
               /\ jobs' = (IF trimming = {} THEN <<>> ELSE <<handle_candidates(pending)>>) \o Tail(jobs)
    /\ UNCHANGED <<ledgerVars, roundRest>>

\* Slip: go by the evicted batch alone, without the ledger.
EvictedTrustsBatch ==
    /\ jobs # <<>> /\ Head(jobs).op = "evicted"
    /\ LET evicted == Head(jobs).txids
           ids == find_active_ids_by_txids(db, evicted)
           emptied == {c \in ids : db.txids[c] \subseteq evicted}
           survivors == UNION {db.txids[c] : c \in ids} \ evicted
       IN  /\ db' = close_many(db, emptied, "evicted")
           /\ changes' = Marked(changes, db', {}, emptied)
           /\ jobs' = (IF survivors = {} THEN <<>> ELSE <<Ask(survivors, evicted)>>) \o Tail(jobs)
    /\ UNCHANGED <<ledgerVars, faults, roundRest>>

\* Slip: the survivors are left in their cluster.
EvictedLeavesSurvivors ==
    /\ jobs # <<>> /\ Head(jobs).op = "evicted"
    /\ LET ids == find_active_ids_by_txids(db, Head(jobs).txids)
           emptied == {c \in ids : (db.txids[c] \ Head(jobs).txids) \cap live = {}}
       IN  /\ db' = close_many(db, emptied, "evicted")
           /\ changes' = Marked(changes, db', {}, emptied)
    /\ jobs' = Tail(jobs)
    /\ UNCHANGED <<ledgerVars, faults, roundRest>>

\* handle_evicted: a cluster of evicted txids is closed when none of its other
\* members is live; the survivors of the others are asked for.
handle_evicted ==
    /\ jobs # <<>> /\ Head(jobs).op = "evicted"
    /\ LET evicted == Head(jobs).txids
           ids == find_active_ids_by_txids(db, evicted)
           remaining(c) == (db.txids[c] \ evicted) \cap live
           emptied == {c \in ids : remaining(c) = {}}
           survivors == UNION {remaining(c) : c \in ids}
           ask == IF survivors = {} THEN <<>> ELSE <<Ask(survivors, evicted)>>
       IN  \/ /\ db' = close_many(db, emptied, "evicted")
              /\ changes' = Marked(changes, db', {}, emptied)
              /\ jobs' = ask \o Tail(jobs)
              /\ UNCHANGED faults
           \/ /\ Fails("evict")
              /\ jobs' = ask \o Tail(jobs)
              /\ UNCHANGED <<db, changes>>
           \/ /\ Fails("lookup")
              /\ jobs' = Tail(jobs)
              /\ UNCHANGED <<db, changes>>
    /\ UNCHANGED <<ledgerVars, roundRest>>

(***************************************************************************)
(* handle_candidates_covering, one txid at a time: the node is asked, and  *)
(* its answer is asserted and stored later.                                *)
(***************************************************************************)
AskNode ==
    /\ jobs # <<>> /\ Head(jobs).op = "ask" /\ Head(jobs).answer = <<>>
    /\ \E t \in Head(jobs).pending :
          LET asked == [Head(jobs) EXCEPT !.pending = @ \ {t}]
          IN  \/ /\ jobs' = <<[asked EXCEPT !.answer = <<t, get_mempool_cluster(t)>>]>>
                               \o Tail(jobs)
                 /\ UNCHANGED faults
              \/ /\ Fails("rpc")
                 /\ jobs' = <<asked>> \o Tail(jobs)
    /\ UNCHANGED <<ledgerVars, db, changes, roundRest>>

\* Slip: the detached txids are forgotten.
AnsweredForgetsDetached(covered, fresh, detached) ==
    LET j == Head(jobs)
        done == j.covered \cup covered
    IN  <<[j EXCEPT !.answer = <<>>, !.covered = done, !.fresh = fresh,
                    !.pending = @ \ done]>> \o Tail(jobs)

\* Slip: the members of an answer are queued with the detached, covered or not.
AnsweredAsksAgain(covered, fresh, detached) ==
    LET j == Head(jobs)
    IN  <<[j EXCEPT !.answer = <<>>, !.covered = @ \cup covered, !.fresh = fresh,
                    !.pending = @ \cup covered \cup detached]>> \o Tail(jobs)

\* The queue after an answer: `covered' is not asked again, `detached' is
\* asked unless covered.
Answered(covered, fresh, detached) ==
    LET j == Head(jobs)
        done == j.covered \cup covered
    IN  <<[j EXCEPT !.answer = <<>>, !.covered = done, !.fresh = fresh,
                    !.pending = (@ \cup detached) \ done]>> \o Tail(jobs)

\* The bound on clusters_id_seq leaves room for n more.
RoomFor(n) == Unused(db) # {} /\ Min(Unused(db)) + n - 1 <= MaxClusters

upsert(group, ids) ==
    LET fresh == Head(jobs).fresh \ group
        untouched == jobs' = Answered(group, fresh, {}) /\ UNCHANGED <<db, changes>>
    IN  \/ /\ ids = {} /\ RoomFor(1)
           /\ LET id == Min(Unused(db))
              IN  /\ db' = insert_in(db, [c \in {id} |-> group])
                  /\ changes' = Marked(changes, db', {id}, {})
           /\ jobs' = Answered(group, fresh, {})
           /\ UNCHANGED faults
        \/ ids = {} /\ Fails("insert") /\ untouched
        \/ ids # {} /\ Fails("lookup") /\ untouched
        \/ Cardinality(ids) > 1 /\ Fails("merge") /\ untouched
        \/ \E keep \in ids :   \* the oldest one
           LET merged == close_many(db, ids \ {keep}, "merged")
               detached == UNION {db.txids[c] : c \in ids} \ group
           IN  /\ \/ /\ db' = replace_chunks(merged, keep, group)
                     /\ changes' = Marked(changes, db', {keep}, ids \ {keep})
                     /\ UNCHANGED faults
                  \/ /\ Fails("replace")
                     /\ db' = merged
                     /\ changes' = Marked(changes, db', {}, ids \ {keep})
               /\ jobs' = Answered(group, fresh, detached)

TakeAnswer ==
    /\ jobs # <<>> /\ Head(jobs).op = "ask" /\ Head(jobs).answer # <<>>
    /\ LET t == Head(jobs).answer[1]
           group == Head(jobs).answer[2]
           ids == find_active_ids_by_txids(db, group)
           fresh == Head(jobs).fresh
       IN  IF group = {}
           THEN /\ assert_absent({t})
                /\ jobs' = Answered({t}, fresh, {})
                /\ UNCHANGED <<db, changes, faults>>
           ELSE /\ assert_present(group)
                /\ \/ /\ Fails("lookup")
                      /\ jobs' = Answered(group, fresh, {})
                      /\ UNCHANGED <<db, changes>>
                   \/ /\ ids = {} /\ Cardinality(group) = 1
                      /\ jobs' = Answered(group, fresh \cup group, {})
                      /\ UNCHANGED <<db, changes, faults>>
                   \/ /\ ~(ids = {} /\ Cardinality(group) = 1)
                      /\ upsert(group, ids)
    /\ UNCHANGED roundRest

\* The queue is empty: the singletons are inserted in batches, each its own
\* transaction; when one fails, those before it are in but not recorded.
Singletons(txids) ==
    LET first == Min(Unused(db))
        order == CHOOSE f \in Injection(1 .. Cardinality(txids), txids) : TRUE
    IN  [c \in first .. first + Cardinality(txids) - 1 |-> {order[c - first + 1]}]

InsertSingletons ==
    /\ jobs # <<>> /\ Head(jobs).op = "ask"
    /\ Head(jobs).answer = <<>> /\ Head(jobs).pending = {}
    /\ LET fresh == Head(jobs).fresh
       IN  \/ /\ fresh = {}
              /\ UNCHANGED <<db, changes, faults>>
           \/ /\ fresh # {} /\ RoomFor(Cardinality(fresh))
              /\ db' = insert_in(db, Singletons(fresh))
              /\ changes' = Marked(changes, db', DOMAIN Singletons(fresh), {})
              /\ UNCHANGED faults
           \/ /\ fresh # {}
              /\ Fails("insert")
              /\ \E done \in IF "batch" \in Faults THEN SUBSET fresh \ {fresh} ELSE {{}} :
                    \/ done = {} /\ UNCHANGED db
                    \/ /\ done # {} /\ RoomFor(Cardinality(done))
                       /\ db' = insert_in(db, Singletons(done))
              /\ UNCHANGED changes
    /\ jobs' = Tail(jobs)
    /\ UNCHANGED <<ledgerVars, roundRest>>

\* publish_delta: the changes reach the snapshot, and its subscribers.
publish_delta ==
    /\ jobs = <<>> /\ round # "none"
    /\ snapshot' = [c \in ClusterId |-> IF c \in changes.removed THEN {}
                                        ELSE IF changes.upserted[c] # {} THEN changes.upserted[c]
                                        ELSE snapshot[c]]
    /\ changes' = NoChanges
    /\ round' = "none"
    /\ UNCHANGED <<nodeVars, ledgerVars, resident, stored, db, up, jobs, faults>>

(***************************************************************************)
(* The process.  Bootstrap applies the missing blocks, seeds the ledger    *)
(* from the database, tells it the node's mempool, and seeds the snapshot. *)
(***************************************************************************)
seed(clusters) == [c \in ClusterId |-> IF c \in DOMAIN clusters THEN clusters[c] ELSE {}]

seed_snapshot == seed(find_active(db))

Bootstrap ==
    /\ ~up /\ round = "none" /\ stored = Len(chain)
    /\ up' = TRUE
    /\ live' = nodePool
    /\ toAdd' = toAdd \cup (nodePool \ resident)
    /\ toRemove' = toRemove \cup (resident \ nodePool)
    /\ eventual' = (eventual \cup nodePool) \ (resident \ nodePool)
    /\ snapshot' = seed_snapshot
    /\ UNCHANGED <<nodeVars, resident, stored, db, roundVars, faults>>

Crash ==
    /\ Fails("crash")
    /\ up' = FALSE
    /\ live' = {} /\ toAdd' = {} /\ toRemove' = {} /\ eventual' = resident
    /\ jobs' = <<>> /\ round' = "none" /\ changes' = NoChanges
    /\ snapshot' = NoClusters
    /\ UNCHANGED <<nodeVars, resident, stored, db>>

(***************************************************************************)
(* GaugeSampleService::sample: the counts of a row, and the members of a   *)
(* cluster that are not live, by ClusterSnapshot::missing_member_count.    *)
(***************************************************************************)
stats == [cluster_count |-> Cardinality({c \in ClusterId : snapshot[c] # {}}),
          tx_count |-> MapThenSumSet(LAMBDA c : Cardinality(snapshot[c]), ClusterId)]

build_row == [cluster_count |-> stats.cluster_count, clustered_tx_count |-> stats.tx_count,
              mempool_tx_count |-> Cardinality(live)]

missing_members(c) == snapshot[c] \ live

RoundStep ==
    \/ handle_confirmed \/ confirm_mined_inner \/ handle_evicted
    \/ AskNode \/ TakeAnswer \/ InsertSingletons \/ publish_delta

\* What the round, the task that starts the next one and the bootstrap do.
ServiceStep ==
    \/ RoundStep
    \/ sync_clusters_after_flush \/ apply_block
    \/ Bootstrap

ClusterSyncNext == NodeChanges \/ PollNode \/ ServiceStep \/ Crash

ClusterSyncSpec == ClusterSyncInit /\ [][ClusterSyncNext]_vars

\* The tasks are scheduled, and a call either returns or fails.
FairClusterSync == ClusterSyncSpec /\ WF_vars(PollNode) /\ WF_vars(ServiceStep)

(***************************************************************************)
(* Properties.                                                             *)
(***************************************************************************)
AtRest ==
    /\ up /\ round = "none"
    /\ toAdd = {} /\ toRemove = {}
    /\ live = nodePool /\ stored = Len(chain)

\* live "must mark exactly the current version of each active cluster and
\* nothing else" (cluster_versions.rs:76-77): the two forms of the lookup, by
\* the flag and by the version, always find the same clusters.
LiveChunksAreCurrent ==
    \A t \in TxId : find_active_ids_by_txids(db, {t}) = find_active_ids_by_join(db, {t})

\* transactions.cluster_id and the clusters agree: an active cluster's members
\* are the transactions linked to it, so nothing is in two of them, and a
\* closed cluster keeps its links only when it is confirmed, which is when all
\* that it has kept is mined.
LinksMatchClusters ==
    /\ \A c \in Active(db) : db.txids[c] = {t \in TxId : db.link[t] = c}
    /\ \A t \in TxId : db.link[t] # NoCluster =>
          db.status[db.link[t]] \in {"active", "confirmed"} /\ t \in db.txids[db.link[t]]
    /\ \A c \in ClusterId : db.status[c] = "confirmed" => db.txids[c] \subseteq Mined(stored)

\* A cluster that has lost a member without being told is noticed: as long as
\* no call failed and the process ran through, what missing_member_count counts
\* between rounds is in clusters of which the journal still has a removal, so a
\* later round visits them, however the node changed while it was asked.
StaleClustersAreOwed ==
    up /\ round = "none" /\ faults = 0 =>
        \A c \in ClusterId : missing_members(c) # {} => snapshot[c] \cap toRemove # {}

\* Between rounds, clients are served exactly the active clusters.  ("batch" is
\* the exception: when an insert fails after earlier batches of it went in, the
\* clusters of those are not in the snapshot before the next restart.)
SnapshotIsActiveClusters == up /\ round = "none" => snapshot = seed_snapshot

\* Once nothing is owed to the database, the active clusters are exactly the
\* clusters of the node's mempool, as long as no call failed, the process ran
\* through, and the node kept still while a round was asking it;
\* EveryTxHasACluster is about when it does not.  The gauges then count every
\* transaction of the mempool in one cluster.
ClustersMatchNode ==
    AtRest /\ still /\ faults = 0 =>
        /\ {db.txids[c] : c \in Active(db)} = {get_mempool_cluster(t) : t \in nodePool}
        /\ build_row.clustered_tx_count = build_row.mempool_tx_count
        /\ build_row.cluster_count = Cardinality(Active(db))

\* ... and it does come to that.  The queue of a round runs dry ("This
\* terminates", cluster.rs:158), and the assertions that its answers make do
\* not queue rounds for ever.
ComesToRest == <>[]AtRest

\* An upsert leaves no transaction behind: "members of the old cluster(s) that
\* the node no longer groups here ... need a cluster of their own"
\* (cluster.rs:561-562).  One whose replace_chunks fails does: mark_merged has
\* unlinked members of the group in hand, which are covered already, although
\* "close_many may already have unlinked txs; re-queue them" (cluster.rs:602).
UnlinkedAreRequeued ==
    [][\A t \in TxId :
          /\ jobs # <<>> /\ Head(jobs).op = "ask" /\ faults' = faults
          /\ db.link[t] # NoCluster /\ db'.link[t] = NoCluster
          => Head(jobs').op = "ask"
             /\ t \in Head(jobs').pending \cup Head(jobs).covered]_vars

\* "every unconfirmed tx must end up in a cluster of its own"
\* (cluster.rs:156-157).
EveryTxHasACluster ==
    AtRest => \A t \in nodePool : \E c \in Active(db) : t \in db.txids[c]
=============================================================================
