-------------------------- MODULE MempoolPipeline --------------------------
(***************************************************************************)
(* How a transaction's stay in the node's mempool becomes rows of          *)
(* mempool_deltas: the node, the getrawmempool watcher (observer), the     *)
(* block service, the cluster lookups that assert what they hear on the    *)
(* ledger, bootstrap and crashes, around the ledger, the gate and the      *)
(* reconciler of MempoolReconciler.                                        *)
(*                                                                         *)
(* Every answer of the node is read at one step and used at a later one.   *)
(***************************************************************************)
EXTENDS MempoolReconciler, FiniteSetsExt

CONSTANTS MaxChurn,    \* bound on the changes of the node's mempool and chain
          MaxFaults,   \* bound on crashes, hanging blocks and failed bootstraps
          Mishaps      \* what a run lets happen beside the ordinary; see below

Mishap == {"boot_resync",   \* a block synced at boot leaves a cluster partly mined
           "boot_unseeded", \* bootstrap cannot read the database or the node
           "hang",          \* a block waits for ever, for the node or the database
           "lost_ack",      \* a COMMIT takes effect but reports an error
           "lost_event"}    \* a block notification never arrives

ASSUME PipelineAssumption ==
    /\ MaxChurn \in Nat
    /\ MaxFaults \in Nat
    /\ Mishaps \subseteq Mishap

VARIABLES nodePool, chain,          \* the node: its mempool and the txids of each block
          churn, faults,            \* bounds
          phase,                    \* of the process; see Phase
          fetched,                  \* bootstrap: the node's mempool, once fetched
          polled,                   \* watcher: the response it has not submitted yet
          wake,                     \* block service: an event is in its stream
          blockPc, height, tip,     \* block service: where it is
          stored,                   \* table blocks: the heights it has
          asked,                    \* the answer each cluster lookup has not asserted yet
          clustered                 \* tables clusters: the members of active clusters

Phase == {"blocks", "seed", "submit", "up", "unseeded"}
Up == phase \in {"up", "unseeded"}

nodeVars == <<nodePool, chain, churn>>
bootVars == <<phase, fetched, faults>>
askVars == <<asked, clustered>>
blockVars == <<blockPc, height, tip, stored>>
pipelineVars == <<nodeVars, bootVars, polled, wake, blockVars, askVars>>
vars == <<reconcilerVars, pipelineVars>>

Askers == {"tick", "block"}
Nothing == [a \in Askers |-> <<>>]
\* A crash, a block that hangs or a bootstrap that fails.
Fault == faults < MaxFaults /\ faults' = faults + 1

Mined == UNION {chain[h] : h \in DOMAIN chain}

PipelineInit ==
    /\ ReconcilerInit
    /\ nodePool = {} /\ chain = <<{}>> /\ churn = 0 /\ faults = 0
    /\ phase = "blocks" /\ fetched = {}
    /\ polled = <<>> /\ wake = FALSE
    /\ blockPc = "look" /\ height = 0 /\ tip = 0
    /\ stored = {}
    /\ asked = Nothing /\ clustered = {}

(***************************************************************************)
(* The node (external).  A notification reaches the block service only     *)
(* once bootstrap has subscribed to it.                                    *)
(***************************************************************************)
NodeChanges ==
    /\ churn < MaxChurn
    /\ churn' = churn + 1
    /\ \/ /\ \E t \in TxId \ (nodePool \cup Mined) : nodePool' = nodePool \cup {t}
          /\ UNCHANGED <<chain, wake>>
       \/ /\ \E t \in nodePool : nodePool' = nodePool \ {t}
          /\ UNCHANGED <<chain, wake>>
       \/ \E block \in SUBSET nodePool :
          /\ nodePool' = nodePool \ block
          /\ chain' = Append(chain, block)
          /\ \/ wake' = (wake \/ Up)
             \/ "lost_event" \in Mishaps /\ UNCHANGED wake
    /\ UNCHANGED <<reconcilerVars, bootVars, polled, blockVars, askVars>>

\* The answers of the node, as the retrievers hand them on.
get_mempool_txids == nodePool
get_raw_mempool_verbose == nodePool
get_tip_height == Len(chain)
get_block(h) == chain[h]

(***************************************************************************)
(* The mempool watcher: polls the node, then submits the response.         *)
(***************************************************************************)
Poll ==
    /\ Up /\ polled = <<>>
    /\ polled' = <<get_mempool_txids>>
    /\ UNCHANGED <<reconcilerVars, nodeVars, bootVars, wake, blockVars, askVars>>

Submit ==
    /\ polled # <<>>
    /\ submit_authoritative(polled[1])
    /\ polled' = <<>>
    /\ UNCHANGED <<gateVars, tickVars, dbVars, nodeVars, bootVars, wake, blockVars, askVars>>

(***************************************************************************)
(* The reconciler's tick; it ends once its cluster lookups are answered.   *)
(***************************************************************************)
LookupsAnswered == asked["tick"] = <<>>
OfTick(step) == Up /\ step /\ UNCHANGED pipelineVars

Tick ==
    /\ Up
    /\ \/ BeginFlush \/ Classify \/ WriteRows \/ Commits \/ Preempted \/ WriteFails
       \/ DrainJournal
       \/ LookupsAnswered /\ EndTick
       \/ "lost_ack" \in Mishaps /\ CommitAckLost
    /\ UNCHANGED pipelineVars

(***************************************************************************)
(* Cluster lookups: handle_candidates_covering asks the node for the       *)
(* cluster of a txid, asserts the answer and stores the cluster.  A tick   *)
(* asks for txids it has written, a block for what it left of the clusters *)
(* it mined from; how transactions form clusters is left open.             *)
(***************************************************************************)
LeftByBlock ==
    IF clustered \cap chain[height] = {} THEN {} ELSE clustered \ chain[height]

Asking(a) == IF a = "tick" THEN tick = "sync"
             ELSE /\ blockPc = "confirm"
                  /\ Up \/ "boot_resync" \in Mishaps

Ask(a) ==
    /\ Asking(a)
    /\ asked[a] = <<>>
    /\ \E t \in TxId, group \in SUBSET nodePool :
          /\ IF a = "tick" THEN tx[t] # "none" ELSE t \in LeftByBlock
          /\ IF t \in nodePool THEN t \in group ELSE group = {}
          /\ asked' = [asked EXCEPT ![a] = <<t, group>>]
    /\ UNCHANGED <<reconcilerVars, nodeVars, bootVars, polled, wake, blockVars,
                   clustered>>

AssertAnswer(a) ==
    /\ asked[a] # <<>>
    /\ IF asked[a][2] = {}
       THEN assert_absent({asked[a][1]}) /\ clustered' = clustered \ {asked[a][1]}
       ELSE assert_present(asked[a][2]) /\ clustered' = clustered \cup asked[a][2]
    /\ asked' = [asked EXCEPT ![a] = <<>>]
    /\ UNCHANGED <<gateVars, tickVars, dbVars, nodeVars, bootVars, polled, wake, blockVars>>

(***************************************************************************)
(* The block service.  An error of catch_up leads back to "look".          *)
(***************************************************************************)
BlockEvent ==
    /\ Up /\ blockPc = "listen" /\ wake
    /\ wake' = FALSE
    /\ blockPc' = "look"
    /\ UNCHANGED <<reconcilerVars, nodeVars, bootVars, polled, height, tip, stored, askVars>>

\* BlockRepository::latest_height, 0 for none, and missing_heights.
latest_height == IF stored = {} THEN 0 ELSE Max(stored)
missing_heights ==
    IF stored = {} THEN 0 ELSE Max(stored) - Min(stored) + 1 - Cardinality(stored)

\* Slip: start at the node's tip, as for an empty table.
LookAtTipOnly ==
    /\ blockPc = "look"
    /\ tip' = Len(chain)
    /\ height' = Len(chain)
    /\ blockPc' = IF Len(chain) \in stored THEN "listen" ELSE "apply"
    /\ UNCHANGED <<reconcilerVars, nodeVars, bootVars, polled, wake, stored, askVars>>

\* Slip: stop one height short of the tip.
LookStopsShort ==
    LET next == IF latest_height = 0 THEN get_tip_height ELSE latest_height + 1
    IN  /\ blockPc = "look"
        /\ tip' = get_tip_height
        /\ height' = next
        /\ blockPc' = IF next >= tip' THEN "listen" ELSE "apply"
        /\ UNCHANGED <<reconcilerVars, nodeVars, bootVars, polled, wake, stored, askVars>>

\* The top of catch_up's loop: an empty table starts at the tip.
LookForBlocks ==
    LET next == IF latest_height = 0 THEN get_tip_height ELSE latest_height + 1
    IN  /\ blockPc = "look"
        /\ tip' = get_tip_height
        /\ height' = next
        /\ blockPc' = IF next > tip' THEN "listen" ELSE "apply"
        /\ UNCHANGED <<reconcilerVars, nodeVars, bootVars, polled, wake, stored, askVars>>

ShutGate ==
    /\ blockPc = "apply"
    /\ AcquireShuts
    /\ blockPc' = "acquire"
    /\ UNCHANGED <<ledgerVars, tickVars, dbVars, nodeVars, bootVars, polled, wake,
                   height, tip, stored, askVars>>

EnterGate ==
    /\ blockPc = "acquire"
    /\ AcquireReturns
    /\ blockPc' = "insert"
    /\ UNCHANGED <<ledgerVars, tickVars, dbVars, nodeVars, bootVars, polled, wake,
                   height, tip, stored, askVars>>

insert_or_confirm_many(txids) == [t \in TxId |-> IF t \in txids THEN "confirmed" ELSE tx[t]]

\* BlockRepository::insert_with_transactions, one transaction.
insert_with_transactions ==
    /\ stored' = stored \cup {height}
    /\ tx' = insert_or_confirm_many(get_block(height))

InsertBlock ==
    /\ blockPc = "insert"
    /\ insert_with_transactions
    /\ blockPc' = "absent"
    /\ UNCHANGED <<ledgerVars, gateVars, tickVars, row, nodeVars, bootVars, polled, wake,
                   height, tip, askVars>>

\* get_block or the transaction fails; the guard is dropped and catch_up
\* starts over.
ApplyFails ==
    /\ blockPc = "insert"
    /\ GuardDrops
    /\ blockPc' = "look"
    /\ \/ UNCHANGED <<stored, tx>>
       \/ "lost_ack" \in Mishaps /\ insert_with_transactions
    /\ UNCHANGED <<ledgerVars, tickVars, row, nodeVars, bootVars, polled, wake,
                   height, tip, askVars>>

AssertMined ==
    /\ blockPc = "absent"
    /\ assert_absent(chain[height])
    /\ blockPc' = "confirm"
    /\ UNCHANGED <<gateVars, tickVars, dbVars, nodeVars, bootVars, polled, wake,
                   height, tip, stored, askVars>>

\* confirm_mined is over; on to the next height up to the tip read before.
BlockApplied ==
    /\ blockPc = "confirm"
    /\ asked["block"] = <<>>
    /\ GuardDrops
    /\ IF height < tip THEN height' = height + 1 /\ blockPc' = "apply"
                       ELSE blockPc' = "look" /\ UNCHANGED height
    /\ clustered' = clustered \ chain[height]
    /\ UNCHANGED <<ledgerVars, tickVars, dbVars, nodeVars, bootVars, polled, wake,
                   tip, stored, asked>>

\* "a holder that never drops (a hung RPC, say)" (block_gate.rs:7-8).
BlockHangs ==
    /\ "hang" \in Mishaps
    /\ Up /\ blockPc \in {"insert", "confirm"} /\ asked["block"] = <<>>
    /\ Fault
    /\ blockPc' = "hung"
    /\ UNCHANGED <<reconcilerVars, nodeVars, phase, fetched, polled, wake, height, tip, stored,
                   askVars>>

BlockStep ==
    \/ LookForBlocks \/ ShutGate \/ EnterGate \/ InsertBlock
    \/ AssertMined \/ BlockApplied

GateTime ==
    /\ CeilingFires \/ Elapse
    /\ UNCHANGED <<ledgerVars, tickVars, dbVars, pipelineVars>>

(***************************************************************************)
(* Bootstrap: sync_missing_blocks runs first, then the mempool is fetched  *)
(* and its rows upserted, then the ledger is seeded and told.              *)
(***************************************************************************)
BootFetch ==
    /\ phase = "blocks" /\ blockPc = "listen"
    /\ phase' = "seed"
    /\ fetched' = get_raw_mempool_verbose
    /\ \/ tx' = [t \in TxId |-> IF t \in fetched' /\ tx[t] = "none" THEN "hollow" ELSE tx[t]]
       \/ UNCHANGED tx   \* the upsert failed, which is only logged
    /\ UNCHANGED <<ledgerVars, gateVars, tickVars, row, nodeVars, faults, polled, wake,
                   blockVars, askVars>>

\* Slip: seed the ledger with the node's mempool instead of the database's.
BootSeedsFetched ==
    /\ phase = "seed"
    /\ seed(fetched)
    /\ tick' = "idle"
    /\ phase' = "submit"
    /\ UNCHANGED <<gateVars, batch, confirmed, dbVars, nodeVars, fetched, faults, polled,
                   wake, blockVars, askVars>>

\* seed replaces `live' and leaves the journal as it is.
BootSeed ==
    /\ phase = "seed"
    /\ Seed
    /\ phase' = "submit"
    /\ UNCHANGED <<nodeVars, fetched, faults, polled, wake, blockVars, askVars>>

BootSubmit ==
    /\ phase = "submit"
    /\ submit_authoritative(fetched)
    /\ phase' = "up" /\ fetched' = {}
    /\ UNCHANGED <<gateVars, tickVars, dbVars, nodeVars, faults, polled, wake,
                   blockVars, askVars>>

BootUnseeded ==
    /\ "boot_unseeded" \in Mishaps
    /\ phase = "blocks" /\ blockPc = "listen"
    /\ Fault
    /\ phase' = "unseeded" /\ tick' = "idle"
    /\ UNCHANGED <<ledgerVars, gateVars, batch, confirmed, dbVars, nodeVars, fetched,
                   polled, wake, blockVars, askVars>>

ProcessCrash ==
    /\ Fault
    /\ Crash
    /\ phase' = "blocks" /\ fetched' = {}
    /\ polled' = <<>> /\ wake' = FALSE /\ asked' = Nothing
    /\ blockPc' = "look" /\ height' = 0 /\ tip' = 0
    /\ UNCHANGED <<nodeVars, stored, clustered>>

PipelineNext ==
    \/ NodeChanges \/ Poll \/ Submit \/ Tick
    \/ \E a \in Askers : Ask(a) \/ AssertAnswer(a)
    \/ BlockEvent \/ BlockStep \/ ApplyFails \/ BlockHangs \/ GateTime
    \/ BootFetch \/ BootSeed \/ BootSubmit \/ BootUnseeded \/ ProcessCrash

PipelineSpec == PipelineInit /\ [][PipelineNext]_vars

(***************************************************************************)
(* Fairness.  A statement that is retried for ever succeeds in the end,    *)
(* the cluster lookups of a tick come to an end, and the tasks are         *)
(* scheduled.  A block makes progress unless it hangs; between its         *)
(* attempts catch_up sleeps up to 10s with the gate open, which a tick,    *)
(* due every second, does not miss each time.                              *)
(***************************************************************************)
FairPipeline ==
    /\ PipelineSpec
    /\ WF_vars(Poll \/ Submit)
    /\ WF_vars(Tick)
    /\ SF_vars(OfTick(BeginFlush)) /\ SF_vars(OfTick(Classify))
    /\ SF_vars(OfTick(WriteRows)) /\ SF_vars(OfTick(Commits))
    /\ SF_vars(OfTick(LookupsAnswered /\ EndTick))
    /\ \A a \in Askers : WF_vars(AssertAnswer(a))
    /\ WF_vars(BlockEvent \/ BlockStep)
    /\ SF_vars(InsertBlock) /\ SF_vars(BlockApplied)
    /\ WF_vars(GateTime)
    /\ WF_vars(BootFetch \/ BootSeed \/ BootSubmit)

(***************************************************************************)
(* Properties.  That the whole pipeline implements the open reconciler is  *)
(* the property ReconcilerSpec itself: its theorems then hold here.        *)
(***************************************************************************)

\* "Applies every height between our highest block and the node's tip, in
\* order" (block.rs:97): whatever fails, is lost or crashes in between, the
\* table never has a gap (missing_heights is 0) and what it has is confirmed.
NoMissingHeights ==
    /\ missing_heights = 0
    /\ \A h \in stored : get_block(h) \subseteq ConfirmedAt

\* Once the node keeps still, the ledger becomes the node's mempool and so does
\* the residency that the database would reconstruct, and they stay so, even
\* when a block hangs inside the gate for ever (block_gate.rs:7-10).  Two cases
\* are left out for the database.  After an overflow of the journal
\* "reconcile_against will eventually catch up" (mempool.rs:33-34), but no code
\* calls it.  After a bootstrap that could not read the database or the node,
\* the ledger starts empty and what left meanwhile keeps its Add row for ever.
Converges ==
    <>[](/\ live = nodePool
         /\ degraded \/ phase = "unseeded" \/ Resident = nodePool)

\* "keep going until we've caught up to the live tip" (block.rs:100-101): once
\* a notification is in the stream, the blocks up to the node's tip get stored,
\* whatever attempts fail and even when the process crashes meanwhile, unless
\* one hangs; the block service and the reconciler never wait for each other
\* for ever.
EventsAreServed == wake ~> (Len(chain) \in stored \/ blockPc = "hung")
=============================================================================
