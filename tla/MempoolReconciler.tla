------------------------- MODULE MempoolReconciler -------------------------
(***************************************************************************)
(* The single writer of mempool_deltas: MempoolReconciler::tick            *)
(* (api/src/services/mempool_reconciler.rs) with the transaction it runs   *)
(* (api/src/db/repositories/mempool_ledger.rs), over the ledger and the    *)
(* block gate.  The rest of the system is left open: any caller may assert *)
(* any txids on the ledger, and blocks confirm any transactions, at any    *)
(* time that the gate lets them.                                           *)
(*                                                                         *)
(* Of the table mempool_deltas, `row' keeps the reason of the last row of  *)
(* each txid: what reconstruct_snapshot reads, and what tells whether the  *)
(* next row is a transition.  Of the table transactions, `tx' keeps        *)
(* whether the txid has a row and whether confirmed_at is set.             *)
(***************************************************************************)
EXTENDS MempoolLedger, BlockGate

VARIABLES tick,        \* where the reconciler is in its tick; "down" before bootstrap
          batch,       \* the FlushBatch of that tick
          confirmed,   \* write_deltas: the removed txids found with confirmed_at set
          row, tx

tickVars == <<tick, batch, confirmed>>
dbVars == <<row, tx>>
reconcilerVars == <<ledgerVars, gateVars, tickVars, dbVars>>

Reason == {"add_mempool", "remove_confirmed", "remove_evicted"}
InTransaction == {"classify", "write", "commit"}
Ticking == InTransaction \cup {"drain", "sync"}

\* MempoolDeltaRepository::reconstruct_snapshot
Resident == {t \in TxId : row[t] = "add_mempool"}
ConfirmedAt == {t \in TxId : tx[t] = "confirmed"}

ReconcilerInit ==
    /\ LedgerInit
    /\ GateInit
    /\ tick = "down"
    /\ batch = <<>>
    /\ confirmed = {}
    /\ row = [t \in TxId |-> "none"]
    /\ tx = [t \in TxId |-> "none"]

(***************************************************************************)
(* One tick.  A tick that finds the gate shut or the journal empty changes *)
(* nothing.  The removals are classified by a first statement, the rows    *)
(* are written by later ones and become visible when the transaction       *)
(* commits; is_held is asked before every statement and before the commit. *)
(***************************************************************************)
BeginFlush ==
    /\ tick = "idle"
    /\ journal # <<>>
    /\ LeaseGranted
    /\ tick' = "classify"
    /\ batch' = journal
    /\ UNCHANGED <<ledgerVars, confirmed, dbVars>>

Classify ==
    /\ tick = "classify"
    /\ IsOpen
    /\ confirmed' = distinct_txids(batch, "Remove") \cap ConfirmedAt
    /\ tick' = "write"
    /\ UNCHANGED <<ledgerVars, gateVars, batch, dbVars>>

\* Slip: the adds are inserted outside the transaction.
WriteRowsAtOnce ==
    /\ tick = "write"
    /\ IsOpen
    /\ row' = [t \in TxId |-> IF t \in distinct_txids(batch, "Add")
                              THEN "add_mempool" ELSE row[t]]
    /\ tick' = "commit"
    /\ UNCHANGED <<ledgerVars, gateVars, batch, confirmed, tx>>

WriteRows ==
    /\ tick = "write"
    /\ IsOpen
    /\ tick' = "commit"
    /\ UNCHANGED <<ledgerVars, gateVars, batch, confirmed, dbVars>>

reason(e) ==
    IF e.direction = "Add" THEN "add_mempool"
    ELSE IF e.txid \in confirmed THEN "remove_confirmed" ELSE "remove_evicted"

\* The transaction's writes: one row per entry, in order, and a hollow
\* transactions row for every added txid that has none.
write_batch ==
    /\ row' = [t \in TxId |-> IF Mentions(batch, t)
                              THEN reason(batch[LastIndex(batch, t)])
                              ELSE row[t]]
    /\ tx' = [t \in TxId |-> IF tx[t] = "none" /\ t \in distinct_txids(batch, "Add")
                             THEN "hollow" ELSE tx[t]]

Commits ==
    /\ tick = "commit"
    /\ write_batch
    /\ tick' = "drain"
    /\ confirmed' = {}
    /\ UNCHANGED <<ledgerVars, gateVars, batch>>

\* Slip: a tick that gives up keeps its lease.
AbandonKeepsLease ==
    /\ tick' = "idle"
    /\ batch' = <<>>
    /\ confirmed' = {}
    /\ UNCHANGED <<ledgerVars, gateVars, dbVars>>

\* write_batch returns None (a block arrived) or an error: the journal still
\* has the batch, which comes back on the next tick.
Abandon ==
    /\ LeaseDrops
    /\ tick' = "idle"
    /\ batch' = <<>>
    /\ confirmed' = {}
    /\ UNCHANGED <<ledgerVars, dbVars>>

Preempted == tick \in {"classify", "write"} /\ IsHeld /\ Abandon
WriteFails == tick \in InTransaction /\ Abandon

\* The connection breaks during COMMIT: the rows are in, but write_batch
\* returns an error and the journal keeps the batch.
CommitAckLost ==
    /\ tick = "commit"
    /\ write_batch
    /\ LeaseDrops
    /\ tick' = "idle"
    /\ batch' = <<>>
    /\ confirmed' = {}
    /\ UNCHANGED ledgerVars

DrainJournal ==
    /\ tick = "drain"
    /\ commit(Len(batch))
    /\ tick' = "sync"
    /\ batch' = <<>>
    /\ UNCHANGED <<gateVars, confirmed, dbVars>>

\* sync_clusters_after_flush is over and the lease is dropped.
EndTick ==
    /\ tick = "sync"
    /\ Abandon

(***************************************************************************)
(* The process.  A crash loses all that is in memory.  Bootstrap seeds the *)
(* ledger with what the database believes before anything else is told.    *)
(***************************************************************************)
Crash ==
    /\ live' = {} /\ journal' = <<>> /\ degraded' = FALSE
    /\ held_since' = Open /\ in_flight' = FALSE /\ holder' = "none"
    /\ expired' = FALSE
    /\ tick' = "down" /\ batch' = <<>> /\ confirmed' = {}
    /\ UNCHANGED dbVars

\* Bootstrap's submission of the node's mempool is then one more LedgerCall.
Seed ==
    /\ tick = "down"
    /\ seed(Resident)
    /\ tick' = "idle"
    /\ UNCHANGED <<gateVars, batch, confirmed, dbVars>>

(***************************************************************************)
(* The open environment.                                                   *)
(***************************************************************************)
LedgerCall ==
    /\ tick # "down"
    /\ \E txids \in SUBSET TxId : \/ submit_authoritative(txids)
                                  \/ assert_present(txids)
                                  \/ assert_absent(txids)
    /\ UNCHANGED <<gateVars, tickVars, dbVars>>

\* BlockRepository::insert_with_transactions, by the block inside the gate.
BlockConfirms ==
    /\ holder = "inside"
    /\ \E txids \in SUBSET TxId :
          tx' = [t \in TxId |-> IF t \in txids THEN "confirmed" ELSE tx[t]]
    /\ UNCHANGED <<ledgerVars, gateVars, tickVars, row>>

\* Bootstrap and the cluster writes store a row for any txid they meet.
RowsUpserted ==
    /\ \E txids \in SUBSET TxId :
          tx' = [t \in TxId |-> IF t \in txids /\ tx[t] = "none" THEN "hollow" ELSE tx[t]]
    /\ UNCHANGED <<ledgerVars, gateVars, tickVars, row>>

GateMoves ==
    /\ CeilingFires \/ AcquireShuts \/ AcquireReturns \/ GuardDrops \/ Elapse
    /\ UNCHANGED <<ledgerVars, tickVars, dbVars>>

ReconcilerNext ==
    \/ BeginFlush \/ Classify \/ WriteRows \/ Commits \/ Preempted \/ WriteFails
    \/ DrainJournal \/ EndTick
    \/ Crash \/ Seed
    \/ LedgerCall \/ BlockConfirms \/ RowsUpserted \/ GateMoves

ReconcilerSpec == ReconcilerInit /\ [][ReconcilerNext]_reconcilerVars

\* reconcile_against has no caller in the repository; this is the one it is
\* written for, between two ticks.
Repair ==
    /\ tick = "idle"
    /\ reconcile_against(Resident)
    /\ UNCHANGED <<gateVars, tickVars, dbVars>>

\* The reconciler over a connection that can break during COMMIT, with such a
\* caller.
RepairedNext == ReconcilerNext \/ CommitAckLost \/ Repair
RepairedSpec == ReconcilerInit /\ [][RepairedNext]_reconcilerVars

(***************************************************************************)
(* Properties.                                                             *)
(***************************************************************************)

\* Every variable has its type, and the lease is held exactly while a tick
\* that found work is running.
ReconcilerTypeOK ==
    /\ LedgerTypeOK
    /\ GateTypeOK
    /\ tick \in {"down", "idle"} \cup Ticking
    /\ batch \in Seq(JournalEntry)
    /\ confirmed \subseteq TxId
    /\ row \in [TxId -> Reason \cup {"none"}]
    /\ tx \in [TxId -> {"none", "hollow", "confirmed"}]
    /\ in_flight <=> tick \in Ticking

\* The entries the database does not hold yet: between the commit of the
\* transaction and that of the journal, the batch is in both.
Written == IF tick = "drain" THEN Len(batch) ELSE 0
Unwritten == SubSeq(journal, Written + 1, Len(journal))

\* The promise of ResidencyLog, as kept by the ledger and the database.
Log == INSTANCE ResidencyLog WITH
    running <- tick # "down",
    resident <- live,
    owed <- Unwritten,
    copy <- Resident,
    lossy <- degraded

\* Reconciler and ledger implement ResidencyLog: whatever interleaves with a
\* tick, the two steps of a flush (the rows' COMMIT, then the journal's) show
\* as one step, and no transition is skipped, reordered or, as long as COMMIT
\* is acknowledged, written twice ("Consumes the batch so it cannot be
\* committed twice", mempool.rs:60; "generators only ever append to the back",
\* mempool.rs:64).
ImplementsResidencyLog == Log!RepairedLogSpec

\* "The first N is the same prefix here as it was at begin_flush"
\* (mempool.rs:63-66): what the drain drops is what the transaction wrote,
\* whatever the other tasks queued meanwhile.
BatchIsPrefix ==
    tick \in InTransaction \cup {"drain"} =>
        /\ batch # <<>>
        /\ Len(batch) <= Len(journal)
        /\ \A i \in DOMAIN batch : batch[i] = journal[i]

\* No row of mempool_deltas repeats the direction of the row before it for its
\* txid ("x must be added exactly once even though both sources saw it",
\* mempool.rs:363): the unwritten entries of a txid start from what the
\* database believes and alternate, whoever queued them, and across failed
\* writes, preempted ticks and restarts.
EveryRowIsATransition ==
    tick # "down" /\ ~degraded => Alternates(journal, Written, Resident)

\* Nothing is forgotten: once the journal has drained, the residency the
\* database would reconstruct is the ledger's live set.
DatabaseCatchesUp ==
    tick # "down" /\ ~degraded => LeadsTo(journal, Written, Resident, live)

\* What the gate is for: a tick commits its removals under the labels that
\* transactions.confirmed_at calls for at that moment, unless the ceiling has
\* let a tick and a block overlap.
LabelsAreCurrent ==
    tick \in {"write", "commit"} /\ ~expired =>
        confirmed = distinct_txids(batch, "Remove") \cap ConfirmedAt
=============================================================================
