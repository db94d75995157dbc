----------------------------- MODULE TxBackfill -----------------------------
(***************************************************************************)
(* services/tx_backfill.rs: rows of `transactions' that were inserted      *)
(* without parents, weight (stage Raw) or fee (stage Entry) are completed  *)
(* from the node, by way of a bounded queue, a few fetches at a time, with *)
(* retries; and its producers, the bootstrap (services/bootstrap.rs) and   *)
(* the reconciler's tick.                                                  *)
(*                                                                         *)
(* The journal is reduced to the adds that await their flush.  Malformed   *)
(* txids, which nothing puts on the queue, are left out.                   *)
(***************************************************************************)
EXTENDS Naturals, Sequences, FiniteSets, Bags

CONSTANTS TxId,
          QueueCapacity,              \* tx_backfill_queue_capacity
          MAX_CONCURRENT_BACKFILLS,
          MAX_ATTEMPTS,
          AttemptsMax,                \* where the u8 of the attempts saturates
          MaxMoves,                   \* bound on what the node does
          MaxTransient, MaxDbErrors   \* bounds on fetches and writes that fail

ASSUME TxBackfillAssumption ==
    /\ {QueueCapacity, MAX_CONCURRENT_BACKFILLS, MAX_ATTEMPTS} \subseteq Nat \ {0}
    /\ AttemptsMax \in Nat /\ AttemptsMax >= MAX_ATTEMPTS
    /\ {MaxMoves, MaxTransient, MaxDbErrors} \subseteq Nat

VARIABLES pool, mined,             \* the node's mempool; mined and not yet applied
          ledger, pending,         \* resident in our ledger; adds not yet flushed
          rows, raws, fees,        \* stored; with parents and weight; with a fee
          sending,                 \* requests a producer is about to send
          queue, closed,           \* the channel
          loop, taken,             \* where `consume' is; the request it has received
          tasks,                   \* bag of the spawned `process' calls
          stopped, notified,       \* shutdown has begun; Notify holds a permit
          lost,                    \* txids of requests dropped, failed to store, or not found
          moves, transients, dbErrors

nodeVars == <<pool, mined, moves>>
rowVars == <<rows, raws, fees>>
channelVars == <<queue, closed>>
loopVars == <<loop, taken>>
faultVars == <<transients, dbErrors>>
vars == <<nodeVars, ledger, pending, rowVars, sending, channelVars, loopVars, tasks,
          stopped, notified, lost, faultVars>>

Stage == {"Raw", "Entry"}
BackfillRequest == [txid : TxId, attempts : 0 .. AttemptsMax, stage : Stage]
\* A call of `process': fetching, writing what it fetched, or waiting to retry.
Task == [txid : TxId, attempts : 0 .. AttemptsMax, stage : Stage,
         at : {"fetch", "write", "backoff"}]

Request(t, attempts, stage) == [txid |-> t, attempts |-> attempts, stage |-> stage]
TaskOf(req, at) ==
    [txid |-> req.txid, attempts |-> req.attempts, stage |-> req.stage, at |-> at]
RequestOf(k) == Request(k.txid, k.attempts, k.stage)
NoRequest == Request("none", 0, "Raw")

\* StoredTxFill::backfill_stage: the first stage that a row still needs.
backfill_stage(fill) ==
    IF ~fill.raw THEN "Raw" ELSE IF ~fill.fee THEN "Entry" ELSE "none"

find_fills_by_txids(txids) ==
    [t \in txids \cap rows |-> [raw |-> t \in raws, fee |-> t \in fees]]

\* A request for every row that lacks something.
Incomplete(fills) ==
    {Request(t, 0, backfill_stage(fills[t])) :
        t \in {u \in DOMAIN fills : backfill_stage(fills[u]) # "none"}}

\* A request is sent, or dropped when the queue is full or closed.
send(req) ==
    /\ IF ~closed /\ Len(queue) < QueueCapacity
       THEN queue' = Append(queue, req) /\ lost' = lost
       ELSE queue' = queue /\ lost' = lost \cup {req.txid}
    /\ UNCHANGED closed

(***************************************************************************)
(* Bootstrap: what the database has of the live mempool is topped up with  *)
(* the fees of the verbose listing, the transactions it already believed   *)
(* resident are queued where incomplete, and the rest await their flush.   *)
(* Either statement may fail, and is then only logged.                     *)
(***************************************************************************)
BackfillInit ==
    /\ pool \in SUBSET TxId /\ mined = {} /\ moves = 0
    /\ ledger = pool
    /\ \E kept \in SUBSET pool :
          /\ pending = pool \ kept
          /\ raws \in SUBSET kept
          /\ \/ rows = pool /\ fees = pool
             \/ rows = kept /\ fees \in SUBSET kept
          /\ LET incomplete == Incomplete(find_fills_by_txids(kept))
             IN  \/ sending = incomplete /\ lost = {}
                 \/ sending = {} /\ lost = {r.txid : r \in incomplete}
    /\ queue = <<>> /\ closed = FALSE
    /\ loop = "starting" /\ taken = NoRequest
    /\ tasks = EmptyBag
    /\ stopped = FALSE /\ notified = FALSE
    /\ transients = 0 /\ dbErrors = 0

\* main: the consumer is spawned when the bootstrap has returned.
Start ==
    /\ loop = "starting" /\ sending = {}
    /\ loop' = "select"
    /\ UNCHANGED <<nodeVars, ledger, pending, rowVars, sending, channelVars, taken, tasks,
                   stopped, notified, lost, faultVars>>

(***************************************************************************)
(* The node, the ledger that follows it, and the blocks.                   *)
(***************************************************************************)
Admit(t) == t \notin pool \cup mined /\ pool' = pool \cup {t} /\ UNCHANGED mined
Evict(t) == t \in pool /\ pool' = pool \ {t} /\ UNCHANGED mined
Mine(t) == t \in pool /\ pool' = pool \ {t} /\ mined' = mined \cup {t}

NodeMoves ==
    /\ moves < MaxMoves
    /\ moves' = moves + 1
    /\ \E t \in TxId : Admit(t) \/ Evict(t) \/ Mine(t)
    /\ UNCHANGED <<ledger, pending, rowVars, sending, channelVars, loopVars, tasks,
                   stopped, notified, lost, faultVars>>

submit_authoritative ==
    /\ loop # "starting" /\ ledger # pool
    /\ ledger' = pool
    /\ pending' = pending \cup (pool \ ledger)
    /\ UNCHANGED <<nodeVars, rowVars, sending, channelVars, loopVars, tasks,
                   stopped, notified, lost, faultVars>>

\* The block path writes complete rows.
apply_block ==
    /\ loop # "starting" /\ ~(mined \subseteq raws \cap fees)
    /\ rows' = rows \cup mined /\ raws' = raws \cup mined /\ fees' = fees \cup mined
    /\ ledger' = ledger \ mined
    /\ UNCHANGED <<nodeVars, pending, sending, channelVars, loopVars, tasks,
                   stopped, notified, lost, faultVars>>

\* MempoolReconciler::tick: hollow rows for the new ones, which need every
\* stage, and a request for every old one that lacks something.  A flush that fails or is gated changes
\* nothing and is tried again.
tick ==
    /\ loop # "starting" /\ sending = {} /\ pending # {}
    /\ rows' = rows \cup pending
    /\ sending' = {Request(t, 0, "Raw") : t \in pending \ rows}
                      \cup Incomplete(find_fills_by_txids(pending))
    /\ pending' = {}
    /\ UNCHANGED <<nodeVars, ledger, raws, fees, channelVars, loopVars, tasks,
                   stopped, notified, lost, faultVars>>

enqueue ==
    /\ \E req \in sending : sending' = sending \ {req} /\ send(req)
    /\ UNCHANGED <<nodeVars, ledger, pending, rowVars, loopVars, tasks,
                   stopped, notified, faultVars>>

(***************************************************************************)
(* TxBackfillConsumer::consume.                                            *)
(***************************************************************************)
\* Slip: the queue stays open when shutdown is notified.
CloseForgotten ==
    /\ loop = "select" /\ notified
    /\ notified' = FALSE
    /\ UNCHANGED <<nodeVars, ledger, pending, rowVars, sending, channelVars, loopVars, tasks,
                   stopped, lost, faultVars>>

Close ==
    /\ loop = "select" /\ notified
    /\ closed' = TRUE /\ notified' = FALSE
    /\ UNCHANGED <<nodeVars, ledger, pending, rowVars, sending, queue, loopVars, tasks,
                   stopped, lost, faultVars>>

recv ==
    /\ loop = "select"
    /\ \/ /\ queue # <<>>
          /\ taken' = Head(queue) /\ queue' = Tail(queue)
          /\ loop' = "acquire"
       \/ /\ closed /\ queue = <<>>
          /\ loop' = "join"
          /\ UNCHANGED <<taken, queue>>
    /\ UNCHANGED <<nodeVars, ledger, pending, rowVars, sending, closed, tasks,
                   stopped, notified, lost, faultVars>>

HasPermit(busy) == busy < MAX_CONCURRENT_BACKFILLS

\* Tasks hold their permit until the stages are over, not while they back off.
Busy == Cardinality({copy \in BagToSet(tasks) \X (1 .. BagCardinality(tasks)) :
                        copy[1].at # "backoff" /\ copy[2] <= tasks[copy[1]]})

spawn ==
    /\ loop = "acquire" /\ HasPermit(Busy)
    /\ tasks' = tasks (+) SetToBag({TaskOf(taken, "fetch")})
    /\ loop' = "select" /\ taken' = NoRequest
    /\ UNCHANGED <<nodeVars, ledger, pending, rowVars, sending, channelVars,
                   stopped, notified, lost, faultVars>>

join ==
    /\ loop = "join" /\ tasks = EmptyBag
    /\ loop' = "done"
    /\ UNCHANGED <<nodeVars, ledger, pending, rowVars, sending, channelVars, taken, tasks,
                   stopped, notified, lost, faultVars>>

(***************************************************************************)
(* TxBackfillConsumer::process.                                            *)
(***************************************************************************)
Ends(k) == tasks' = tasks (-) SetToBag({k})
Becomes(k, l) == tasks' = (tasks (-) SetToBag({k})) (+) SetToBag({l})

\* Slip: the attempts are capped for a resident tx too.
AlwaysCapped(attempts_made, in_mempool) == attempts_made < MAX_ATTEMPTS

should_retry(attempts_made, in_mempool) == in_mempool \/ attempts_made < MAX_ATTEMPTS

saturating_add(n) == IF n = AttemptsMax THEN n ELSE n + 1

\* The node (external) has the tx, says in its words that it does not, or the
\* call fails.
Answers(t, message) ==
    {IF t \in pool THEN "tx" ELSE message}
        \cup (IF transients < MaxTransient THEN {"failure"} ELSE {})

not_found_as_missing(answer, message) ==
    IF answer = message THEN "TxNotFoundInMempool" ELSE answer

get_raw_transaction(t) ==
    {not_found_as_missing(answer, "No such mempool transaction") :
        answer \in Answers(t, "No such mempool transaction")}

get_mempool_entry(t) ==
    {not_found_as_missing(answer, "Transaction not in mempool") :
        answer \in Answers(t, "Transaction not in mempool")}

\* A stage begins with its call to the node.  One that does not have the tx ends
\* the request; any other error is retried.
fetch(k) ==
    /\ k.at = "fetch"
    /\ \E answer \in IF k.stage = "Raw" THEN get_raw_transaction(k.txid)
                                       ELSE get_mempool_entry(k.txid) :
       \/ /\ answer = "tx"
          /\ Becomes(k, TaskOf(k, "write"))
          /\ UNCHANGED <<lost, transients>>
       \/ /\ answer = "TxNotFoundInMempool"
          /\ Ends(k)
          /\ lost' = lost \cup {k.txid}
          /\ UNCHANGED transients
       \/ /\ answer = "failure"
          /\ transients' = transients + 1
          /\ LET made == saturating_add(k.attempts)
             IN  IF should_retry(made, k.txid \in ledger)
                 THEN Becomes(k, TaskOf(Request(k.txid, made, k.stage), "backoff"))
                 ELSE Ends(k)
          /\ UNCHANGED lost
    /\ UNCHANGED <<nodeVars, ledger, pending, rowVars, sending, channelVars, loopVars,
                   stopped, notified, dbErrors>>

\* Slip: a raw stage that could not be stored is followed by the entry stage.
RawErrorGoesOn(k) ==
    /\ k.at = "write"
    /\ \/ /\ k.stage = "Raw"
          /\ raws' = (IF dbErrors < MaxDbErrors THEN raws ELSE raws \cup {k.txid})
          /\ Becomes(k, TaskOf(Request(k.txid, k.attempts, "Entry"), "fetch"))
          /\ UNCHANGED fees
       \/ /\ k.stage = "Entry"
          /\ fees' = fees \cup {k.txid}
          /\ Ends(k)
          /\ UNCHANGED raws
    /\ UNCHANGED <<nodeVars, ledger, pending, rows, sending, channelVars, loopVars,
                   stopped, notified, lost, faultVars>>

\* The statements fill a row that still lacks what they bring, and say what it
\* lacks then; "none" also when there was nothing to fill.
backfill_raw(t) ==
    [raws |-> raws \cup ({t} \cap rows),
     stage |-> IF t \in rows \ raws THEN backfill_stage([raw |-> TRUE, fee |-> t \in fees])
               ELSE "none"]

backfill_fee(t) == fees \cup ({t} \cap rows)

\* A raw stage that has filled its row is followed by the entry stage if the
\* fee is missing.  A failed statement ends the request.
write(k) ==
    /\ k.at = "write"
    /\ \/ /\ k.stage = "Raw"
          /\ raws' = backfill_raw(k.txid).raws
          /\ IF backfill_raw(k.txid).stage = "Entry"
             THEN Becomes(k, TaskOf(Request(k.txid, k.attempts, "Entry"), "fetch"))
             ELSE Ends(k)
          /\ UNCHANGED <<fees, lost, dbErrors>>
       \/ /\ k.stage = "Entry"
          /\ fees' = backfill_fee(k.txid)
          /\ Ends(k)
          /\ UNCHANGED <<raws, lost, dbErrors>>
       \/ /\ dbErrors < MaxDbErrors
          /\ dbErrors' = dbErrors + 1
          /\ Ends(k)
          /\ lost' = lost \cup {k.txid}
          /\ UNCHANGED <<raws, fees>>
    /\ UNCHANGED <<nodeVars, ledger, pending, rows, sending, channelVars, loopVars,
                   stopped, notified, transients>>

\* The backoff runs out and the request is queued again, or the queue is
\* closed and the retry is abandoned.
requeue(k) ==
    /\ k.at = "backoff"
    /\ Ends(k)
    /\ \/ send(RequestOf(k))
       \/ closed /\ lost' = lost \cup {k.txid} /\ UNCHANGED channelVars
    /\ UNCHANGED <<nodeVars, ledger, pending, rowVars, sending, loopVars,
                   stopped, notified, faultVars>>

process == \E k \in BagToSet(tasks) : fetch(k) \/ write(k) \/ requeue(k)

\* drain_tx_backfill_consumer
drain_tx_backfill_consumer ==
    /\ ~stopped
    /\ stopped' = TRUE /\ notified' = TRUE
    /\ UNCHANGED <<nodeVars, ledger, pending, rowVars, sending, channelVars, loopVars, tasks,
                   lost, faultVars>>

BackfillNext ==
    \/ Start \/ NodeMoves \/ submit_authoritative \/ apply_block \/ tick \/ enqueue
    \/ Close \/ recv \/ spawn \/ join \/ process
    \/ drain_tx_backfill_consumer

BackfillSpec == BackfillInit /\ [][BackfillNext]_vars

\* The program's own steps are taken: its tasks are polled, its timers fire
\* and its requests to the node have timeouts.  Tokio's select picks among
\* the ready branches at random, so a notification is not passed over for ever.
FairBackfill ==
    /\ BackfillSpec
    /\ WF_vars(Start) /\ WF_vars(submit_authoritative) /\ WF_vars(apply_block)
    /\ WF_vars(tick) /\ WF_vars(enqueue)
    /\ SF_vars(Close) /\ WF_vars(recv) /\ WF_vars(spawn) /\ WF_vars(join)
    /\ WF_vars(process)

(***************************************************************************)
(* Properties.                                                             *)
(***************************************************************************)
Requests == sending \cup {queue[i] : i \in DOMAIN queue}
                    \cup (IF loop = "acquire" THEN {taken} ELSE {})
                    \cup {RequestOf(k) : k \in BagToSet(tasks)}

\* A request asks for the fee only where parents and weight are stored, across
\* retries, duplicates of it and blocks; so completing its stage completes the
\* row (run_stages, StoredTxFill::backfill_stage).
EntryFollowsRaw == \A req \in Requests : req.stage = "Entry" => req.txid \in raws

\* A transaction that stays in the node's mempool gets its row completed, unless
\* a request of it was dropped, could not be stored, or hit a moment when the
\* node did not have it.  Failed fetches alone, however many, do not prevent it.
\* ("only a terminal answer from the node, or the tx leaving the ledger, ends
\* the retries", tx_backfill.rs:330-331, overlooks the first two.)
StayersAreCompleted ==
    \A t \in TxId : <>[](t \in pool) =>
        <>(t \in raws \cap fees \/ t \in lost \/ stopped)

\* Shutdown: the consumer finishes its backlog, abandons the backoffs and ends.
DrainEnds == stopped ~> (loop = "done")
=============================================================================
