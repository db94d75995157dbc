--------------------------- MODULE MempoolStream ---------------------------
(***************************************************************************)
(* The mempool.delta stream: a subscriber gets the ledger's live set and   *)
(* then the net effect of every batch the reconciler flushes               *)
(* (services/mempool.rs get_snapshot_then_delta_stream).  The snapshot is  *)
(* of `live', which runs ahead of the batches by the entries still in the  *)
(* journal.                                                                *)
(*                                                                         *)
(* One subscriber that keeps up with the bus; ClusterStream has the slow   *)
(* ones.  A tick is its three steps that a subscriber can tell apart; one  *)
(* that fails changes nothing here.                                        *)
(***************************************************************************)
EXTENDS MempoolLedger

CONSTANT MaxCalls   \* bound on the calls that change the ledger

ASSUME MempoolStreamAssumption == MaxCalls \in Nat

VARIABLES calls,                   \* a bound
          tick, batch,             \* "idle", "flush" or "publish"; FlushBatch
          sent,                    \* the events handed to the bus
          client, cursor,          \* "none", "subscribed" or "following"; place on the bus
          view,                    \* the set that the client folds the events into
          settled                  \* txids without entry in the journal when it was read

tickVars == <<tick, batch, sent>>
clientVars == <<client, cursor, view, settled>>
vars == <<ledgerVars, calls, tickVars, clientVars>>

MempoolStreamInit ==
    /\ LedgerInit
    /\ calls = 0
    /\ tick = "idle" /\ batch = <<>> /\ sent = <<>>
    /\ client = "none" /\ cursor = 0 /\ view = {} /\ settled = {}

LedgerCall ==
    /\ calls < MaxCalls
    /\ calls' = calls + 1
    /\ \E txids \in SUBSET TxId : \/ submit_authoritative(txids)
                                  \/ assert_present(txids)
                                  \/ assert_absent(txids)
    /\ UNCHANGED <<tickVars, clientVars>>

begin_flush ==
    /\ tick = "idle" /\ journal # <<>>
    /\ batch' = journal
    /\ tick' = "flush"
    /\ UNCHANGED <<ledgerVars, calls, sent, clientVars>>

\* The batch is written, and leaves the journal.
DrainJournal ==
    /\ tick = "flush"
    /\ commit(Len(batch))
    /\ tick' = "publish"
    /\ UNCHANGED <<calls, batch, sent, clientVars>>

Publish ==
    /\ tick = "publish"
    /\ sent' = Append(sent, residency_delta(batch))
    /\ tick' = "idle" /\ batch' = <<>>
    /\ UNCHANGED <<ledgerVars, calls, clientVars>>

Subscribe ==
    /\ client = "none"
    /\ client' = "subscribed"
    /\ cursor' = Len(sent)
    /\ UNCHANGED <<ledgerVars, calls, tickVars, view, settled>>

clone_live_snapshot == live

TakeSnapshot ==
    /\ client = "subscribed"
    /\ client' = "following"
    /\ view' = clone_live_snapshot
    /\ settled' = {t \in TxId : ~Mentions(journal, t)}
    /\ UNCHANGED <<ledgerVars, calls, tickVars, cursor>>

Receive ==
    /\ client = "following" /\ cursor < Len(sent)
    /\ view' = (view \cup sent[cursor + 1].added) \ sent[cursor + 1].removed
    /\ cursor' = cursor + 1
    /\ UNCHANGED <<ledgerVars, calls, tickVars, client, settled>>

MempoolStreamNext ==
    \/ LedgerCall \/ begin_flush \/ DrainJournal \/ Publish
    \/ Subscribe \/ TakeSnapshot \/ Receive

MempoolStreamSpec == MempoolStreamInit /\ [][MempoolStreamNext]_vars

(***************************************************************************)
(* Properties.                                                             *)
(***************************************************************************)
UpToDate ==
    /\ client = "following" /\ cursor = Len(sent)
    /\ tick = "idle" /\ journal = <<>> /\ ~degraded

\* "Subscribe first to avoid data gaps" (services/mempool.rs:32): a transaction
\* that was not on its way to the database when the snapshot was read is folded
\* right for ever after, through batches that remove and re-add it and through
\* events that repeat the snapshot.  One that was may be kept for ever: when its
\* Remove joins the Add in the same batch, the batch's event has neither.
SettledTxsAreFolded ==
    UpToDate => \A t \in settled : t \in view <=> t \in live
=============================================================================
