-------------------------- MODULE TxBackfillProofs --------------------------
(***************************************************************************)
(* The backfill never asks for a fee before parents and weight are stored, *)
(* for any transactions, any queue capacity and any number of failures.    *)
(***************************************************************************)
EXTENDS TxBackfill, TLAPS

(***************************************************************************)
(* The inductive invariant: wherever a request is (about to be sent, on    *)
(* the queue, received or in a task), an Entry stage has its raw data      *)
(* stored.  It needs the types of what requests are made from, and that    *)
(* the node's transactions are what every set is drawn from.               *)
(***************************************************************************)
TxSets == pool \cup mined \cup ledger \cup pending \cup rows \subseteq TxId

RequestsTyped ==
    /\ sending \subseteq BackfillRequest
    /\ queue \in Seq(BackfillRequest)
    /\ loop = "acquire" => taken \in BackfillRequest
    /\ BagToSet(tasks) \subseteq Task

Good(req, filled) == req.stage = "Entry" => req.txid \in filled

RequestsGood ==
    /\ \A req \in sending : Good(req, raws)
    /\ \A i \in DOMAIN queue : Good(queue[i], raws)
    /\ loop = "acquire" => Good(taken, raws)
    /\ \A k \in BagToSet(tasks) : Good(k, raws)

Inv == TxSets /\ RequestsTyped /\ RequestsGood

\* A task keeps what its request asks for.
LEMMA TaskRequest ==
    ASSUME NEW k \in Task
    PROVE  /\ RequestOf(k).stage = k.stage /\ RequestOf(k).txid = k.txid
           /\ RequestOf(k) \in BackfillRequest
BY DEF Task, RequestOf, Request, BackfillRequest

\* What is asked for a row is what it lacks: Entry only once it has the rest.
LEMMA IncompleteGood ==
    ASSUME NEW txids \in SUBSET TxId
    PROVE  \A req \in Incomplete(find_fills_by_txids(txids)) :
              req \in BackfillRequest /\ Good(req, raws)
<1> DEFINE fills == find_fills_by_txids(txids)
<1>1. ASSUME NEW t \in DOMAIN fills, backfill_stage(fills[t]) # "none"
      PROVE  LET req == Request(t, 0, backfill_stage(fills[t]))
             IN  req \in BackfillRequest /\ Good(req, raws)
  <2>1. t \in txids /\ fills[t].raw = (t \in raws)
    BY DEF find_fills_by_txids
  <2>2. backfill_stage(fills[t]) \in Stage
    BY <1>1 DEF backfill_stage, Stage
  <2>3. backfill_stage(fills[t]) = "Entry" => t \in raws
    BY <2>1 DEF backfill_stage
  <2>4. 0 \in 0 .. AttemptsMax
    BY TxBackfillAssumption
  <2> QED
    BY <2>1, <2>2, <2>3, <2>4 DEF Request, BackfillRequest, Good
<1> QED
  BY <1>1 DEF Incomplete

\* Removing and adding an element of a bag, seen as a set.
LEMMA BagSteps ==
    ASSUME NEW B, NEW k, NEW l
    PROVE  /\ BagToSet(B (-) SetToBag({k})) \subseteq BagToSet(B)
           /\ BagToSet(B (+) SetToBag({l})) = BagToSet(B) \cup {l}
           /\ BagToSet((B (-) SetToBag({k})) (+) SetToBag({l})) \subseteq BagToSet(B) \cup {l}
BY DEF BagToSet, SetToBag, (-), (+)

\* A request that is sent joins the queue or is dropped.
LEMMA SendKeeps ==
    ASSUME Inv, NEW req \in BackfillRequest, Good(req, raws), send(req)
    PROVE  /\ queue' \in Seq(BackfillRequest)
           /\ \A i \in DOMAIN queue' : Good(queue'[i], raws)
<1>1. CASE queue' = queue
  BY <1>1 DEF Inv, RequestsTyped, RequestsGood
<1>2. CASE queue' = Append(queue, req)
  <2>1. queue \in Seq(BackfillRequest)
    BY DEF Inv, RequestsTyped
  <2>2. /\ queue' \in Seq(BackfillRequest) /\ Len(queue') = Len(queue) + 1
        /\ queue'[Len(queue) + 1] = req
        /\ \A i \in 1 .. Len(queue) : queue'[i] = queue[i]
    BY <1>2, <2>1
  <2>3. DOMAIN queue' = 1 .. Len(queue) + 1 /\ DOMAIN queue = 1 .. Len(queue) /\ Len(queue) \in Nat
    BY <2>1, <2>2
  <2>4. \A i \in DOMAIN queue : Good(queue[i], raws)
    BY DEF Inv, RequestsGood
  <2> QED
    BY <2>2, <2>3, <2>4
<1> QED
  BY <1>1, <1>2 DEF send

\* It holds when the bootstrap is over.
LEMMA InitInv == BackfillInit => Inv
<1> SUFFICES ASSUME BackfillInit PROVE Inv
  OBVIOUS
<1>1. PICK kept \in SUBSET pool :
         /\ pending = pool \ kept /\ raws \in SUBSET kept
         /\ rows = pool \/ rows = kept
         /\ sending = Incomplete(find_fills_by_txids(kept)) \/ sending = {}
  BY DEF BackfillInit
<1>2. TxSets
  BY <1>1 DEF BackfillInit, TxSets
<1>3. /\ sending \subseteq BackfillRequest
      /\ \A req \in sending : Good(req, raws)
  BY <1>1, IncompleteGood DEF BackfillInit
<1>4. queue = <<>> /\ loop # "acquire" /\ BagToSet(tasks) = {}
  BY DEF BackfillInit, BagToSet, EmptyBag, SetToBag
<1> QED
  BY <1>2, <1>3, <1>4 DEF Inv, RequestsTyped, RequestsGood

\* The actions of bootstrap, the node, the ledger and the producers.
LEMMA ProducersKeep ==
    ASSUME Inv, Start \/ NodeMoves \/ submit_authoritative \/ apply_block \/ tick \/ enqueue
    PROVE  Inv'
<1>1. CASE Start \/ NodeMoves \/ submit_authoritative
  <2>1. /\ UNCHANGED <<sending, queue, taken, tasks, raws, rows>>
        /\ loop' # "acquire" \/ loop' = loop
    BY <1>1 DEF Start, NodeMoves, submit_authoritative, rowVars, channelVars, loopVars
  <2>2. TxSets'
    BY <1>1 DEF Start, NodeMoves, submit_authoritative, rowVars, nodeVars, Inv, TxSets,
                Admit, Evict, Mine
  <2> QED
    BY <2>1, <2>2 DEF Inv, RequestsTyped, RequestsGood
<1>2. CASE apply_block
  <2>1. /\ UNCHANGED <<sending, queue, loop, taken, tasks>> /\ raws \subseteq raws'
    BY <1>2 DEF apply_block, channelVars, loopVars
  <2>2. TxSets'
    BY <1>2 DEF apply_block, nodeVars, Inv, TxSets
  <2> QED
    BY <2>1, <2>2 DEF Inv, RequestsTyped, RequestsGood, Good
<1>3. CASE tick
  <2>1. /\ UNCHANGED <<queue, loop, taken, tasks, raws>>
        /\ sending' = {Request(t, 0, "Raw") : t \in pending \ rows}
                        \cup Incomplete(find_fills_by_txids(pending))
    BY <1>3 DEF tick, channelVars, loopVars
  <2>2. TxSets'
    BY <1>3 DEF tick, nodeVars, Inv, TxSets
  <2>3. pending \in SUBSET TxId
    BY DEF Inv, TxSets
  <2>4. ASSUME NEW t \in pending
        PROVE  LET req == Request(t, 0, "Raw") IN req \in BackfillRequest /\ Good(req, raws)
    <3>1. 0 \in 0 .. AttemptsMax
      BY TxBackfillAssumption
    <3> QED
      BY <2>3, <3>1 DEF Request, BackfillRequest, Good, Stage
  <2>5. sending' \subseteq BackfillRequest /\ \A req \in sending' : Good(req, raws)
    BY <2>1, <2>3, <2>4, IncompleteGood
  <2> QED
    BY <2>1, <2>2, <2>5 DEF Inv, RequestsTyped, RequestsGood
<1>4. CASE enqueue
  <2>1. /\ UNCHANGED <<loop, taken, tasks, raws>>
        /\ UNCHANGED <<pool, mined, ledger, pending, rows>>
    BY <1>4 DEF enqueue, nodeVars, rowVars, loopVars
  <2>2. PICK req \in sending : sending' = sending \ {req} /\ send(req)
    BY <1>4 DEF enqueue
  <2>3. req \in BackfillRequest /\ Good(req, raws)
    BY DEF Inv, RequestsTyped, RequestsGood
  <2>4. /\ queue' \in Seq(BackfillRequest)
        /\ \A i \in DOMAIN queue' : Good(queue'[i], raws)
    BY <2>2, <2>3, SendKeeps
  <2> QED
    BY <2>1, <2>2, <2>4 DEF Inv, TxSets, RequestsTyped, RequestsGood
<1> QED
  BY <1>1, <1>2, <1>3, <1>4

\* The loop of the consumer.
LEMMA ConsumerKeeps ==
    ASSUME Inv, Close \/ recv \/ spawn \/ join \/ drain_tx_backfill_consumer
    PROVE  Inv'
<1>1. CASE Close \/ join \/ drain_tx_backfill_consumer
  <2>1. /\ UNCHANGED <<sending, queue, taken, tasks, raws>>
        /\ UNCHANGED <<pool, mined, ledger, pending, rows>>
        /\ loop' # "acquire" \/ loop' = loop
    BY <1>1 DEF Close, join, drain_tx_backfill_consumer, nodeVars, rowVars, loopVars,
                channelVars
  <2> QED
    BY <2>1 DEF Inv, TxSets, RequestsTyped, RequestsGood
<1>2. CASE recv
  <2>1. /\ UNCHANGED <<sending, tasks, raws>>
        /\ UNCHANGED <<pool, mined, ledger, pending, rows>>
    BY <1>2 DEF recv, nodeVars, rowVars
  <2>2. CASE queue # <<>> /\ taken' = Head(queue) /\ queue' = Tail(queue)
    <3>1. queue \in Seq(BackfillRequest)
      BY DEF Inv, RequestsTyped
    <3>2. /\ taken' = queue[1] /\ 1 \in DOMAIN queue /\ queue[1] \in BackfillRequest
          /\ queue' \in Seq(BackfillRequest)
          /\ \A i \in DOMAIN queue' : i + 1 \in DOMAIN queue /\ queue'[i] = queue[i + 1]
      BY <2>2, <3>1
    <3>3. Good(taken', raws) /\ \A i \in DOMAIN queue' : Good(queue'[i], raws)
      BY <3>2 DEF Inv, RequestsGood
    <3> QED
      BY <2>1, <3>2, <3>3 DEF Inv, TxSets, RequestsTyped, RequestsGood
  <2>3. CASE loop' = "join" /\ UNCHANGED <<taken, queue>>
    BY <2>1, <2>3 DEF Inv, TxSets, RequestsTyped, RequestsGood
  <2> QED
    BY <1>2, <2>2, <2>3 DEF recv
<1>3. CASE spawn
  <2>1. /\ UNCHANGED <<sending, queue, raws>> /\ loop' = "select"
        /\ UNCHANGED <<pool, mined, ledger, pending, rows>>
        /\ tasks' = tasks (+) SetToBag({TaskOf(taken, "fetch")})
    BY <1>3 DEF spawn, nodeVars, rowVars, channelVars
  <2>2. taken \in BackfillRequest /\ Good(taken, raws)
    BY <1>3 DEF spawn, Inv, RequestsTyped, RequestsGood
  <2>3. TaskOf(taken, "fetch") \in Task /\ Good(TaskOf(taken, "fetch"), raws)
    BY <2>2 DEF TaskOf, Task, BackfillRequest, Good
  <2>4. BagToSet(tasks') = BagToSet(tasks) \cup {TaskOf(taken, "fetch")}
    BY <2>1, BagSteps
  <2> QED
    BY <2>1, <2>3, <2>4 DEF Inv, TxSets, RequestsTyped, RequestsGood
<1> QED
  BY <1>1, <1>2, <1>3

\* A task that ends or goes on with a good request keeps the others.
LEMMA TaskMoves ==
    ASSUME Inv, NEW k, NEW filled, raws \subseteq filled,
           \/ Ends(k)
           \/ \E l \in Task : Good(l, filled) /\ Becomes(k, l)
    PROVE  BagToSet(tasks') \subseteq Task /\ \A l \in BagToSet(tasks') : Good(l, filled)
<1>1. BagToSet(tasks) \subseteq Task /\ \A l \in BagToSet(tasks) : Good(l, filled)
  BY DEF Inv, RequestsTyped, RequestsGood, Good
<1>2. CASE Ends(k)
  BY <1>1, <1>2, BagSteps DEF Ends
<1>3. CASE \E l \in Task : Good(l, filled) /\ Becomes(k, l)
  <2>1. PICK l \in Task : Good(l, filled) /\ Becomes(k, l)
    BY <1>3
  <2>2. BagToSet(tasks') \subseteq BagToSet(tasks) \cup {l}
    BY <2>1, BagSteps DEF Becomes
  <2> QED
    BY <1>1, <2>1, <2>2
<1> QED
  BY <1>2, <1>3

\* The calls of `process'.
LEMMA ProcessKeeps ==
    ASSUME Inv, process
    PROVE  Inv'
<1>1. PICK k \in BagToSet(tasks) : fetch(k) \/ write(k) \/ requeue(k)
  BY DEF process
<1>2. k \in Task /\ Good(k, raws)
  BY DEF Inv, RequestsTyped, RequestsGood
<1>3. CASE fetch(k)
  <2>1. /\ UNCHANGED <<sending, queue, loop, taken, raws>>
        /\ UNCHANGED <<pool, mined, ledger, pending, rows>>
    BY <1>3 DEF fetch, nodeVars, rowVars, channelVars, loopVars
  <2>2. \/ Ends(k) \/ Becomes(k, TaskOf(k, "write"))
        \/ Becomes(k, TaskOf(Request(k.txid, saturating_add(k.attempts), k.stage), "backoff"))
    BY <1>3 DEF fetch
  <2>3. TaskOf(k, "write") \in Task /\ Good(TaskOf(k, "write"), raws)
    BY <1>2 DEF TaskOf, Task, Good
  <2>4. saturating_add(k.attempts) \in 0 .. AttemptsMax
    BY <1>2, TxBackfillAssumption DEF saturating_add, Task
  <2>5. LET l == TaskOf(Request(k.txid, saturating_add(k.attempts), k.stage), "backoff")
        IN  l \in Task /\ Good(l, raws)
    BY <1>2, <2>4 DEF TaskOf, Request, Task, Good
  <2>6. BagToSet(tasks') \subseteq Task /\ \A l \in BagToSet(tasks') : Good(l, raws)
    BY <2>2, <2>3, <2>5, TaskMoves
  <2> QED
    BY <2>1, <2>6 DEF Inv, TxSets, RequestsTyped, RequestsGood
<1>4. CASE write(k)
  <2>1. /\ UNCHANGED <<sending, queue, loop, taken>>
        /\ UNCHANGED <<pool, mined, ledger, pending, rows>>
    BY <1>4 DEF write, nodeVars, channelVars, loopVars
  <2>2. raws \subseteq raws'
    BY <1>4 DEF write, backfill_raw
  <2>3. \/ Ends(k)
        \/ /\ Becomes(k, TaskOf(Request(k.txid, k.attempts, "Entry"), "fetch"))
           /\ raws' = backfill_raw(k.txid).raws /\ backfill_raw(k.txid).stage = "Entry"
    BY <1>4 DEF write
  <2>4. ASSUME raws' = backfill_raw(k.txid).raws, backfill_raw(k.txid).stage = "Entry"
        PROVE  k.txid \in raws'
    BY <2>4 DEF backfill_raw
  <2>5. LET l == TaskOf(Request(k.txid, k.attempts, "Entry"), "fetch")
        IN  l \in Task /\ l.txid = k.txid
    BY <1>2 DEF TaskOf, Request, Task, Stage
  <2>6. BagToSet(tasks') \subseteq Task /\ \A l \in BagToSet(tasks') : Good(l, raws')
    BY <2>2, <2>3, <2>4, <2>5, TaskMoves DEF Good
  <2> QED
    BY <2>1, <2>2, <2>6 DEF Inv, TxSets, RequestsTyped, RequestsGood, Good
<1>5. CASE requeue(k)
  <2>1. /\ UNCHANGED <<sending, loop, taken, raws>>
        /\ UNCHANGED <<pool, mined, ledger, pending, rows>> /\ Ends(k)
    BY <1>5 DEF requeue, nodeVars, rowVars, loopVars
  <2>2. BagToSet(tasks') \subseteq Task /\ \A l \in BagToSet(tasks') : Good(l, raws)
    BY <2>1, TaskMoves
  <2>3. RequestOf(k) \in BackfillRequest /\ Good(RequestOf(k), raws)
    BY <1>2, TaskRequest DEF Good
  <2>4. CASE send(RequestOf(k))
    <3>1. /\ queue' \in Seq(BackfillRequest)
          /\ \A i \in DOMAIN queue' : Good(queue'[i], raws)
      BY <2>3, <2>4, SendKeeps
    <3> QED
      BY <2>1, <2>2, <3>1 DEF Inv, TxSets, RequestsTyped, RequestsGood
  <2>5. CASE UNCHANGED channelVars
    BY <2>1, <2>2, <2>5 DEF channelVars, Inv, TxSets, RequestsTyped, RequestsGood
  <2> QED
    BY <1>5, <2>4, <2>5 DEF requeue
<1> QED
  BY <1>1, <1>3, <1>4, <1>5

\* Every request that asks for a fee only is about a row with parents and weight,
\* across retries, duplicates, blocks and failures (run_stages,
\* StoredTxFill::backfill_stage).
THEOREM EntryComesSecond == BackfillSpec => []EntryFollowsRaw
<1>1. Inv /\ [BackfillNext]_vars => Inv'
  <2> SUFFICES ASSUME Inv, [BackfillNext]_vars PROVE Inv'
    OBVIOUS
  <2>1. CASE UNCHANGED vars
    <3>1. /\ UNCHANGED <<sending, queue, loop, taken, tasks, raws>>
          /\ UNCHANGED <<pool, mined, ledger, pending, rows>>
      BY <2>1 DEF vars, nodeVars, rowVars, channelVars, loopVars
    <3> QED
      BY <3>1 DEF Inv, TxSets, RequestsTyped, RequestsGood
  <2> QED
    BY <2>1, ProducersKeep, ConsumerKeeps, ProcessKeeps DEF BackfillNext
<1>2. Inv => EntryFollowsRaw
  <2> SUFFICES ASSUME Inv, NEW req \in Requests, req.stage = "Entry"
               PROVE  req.txid \in raws
    BY DEF EntryFollowsRaw
  <2>1. CASE \E k \in BagToSet(tasks) : req = RequestOf(k)
    BY <2>1, TaskRequest DEF Inv, RequestsTyped, RequestsGood, Good
  <2>2. CASE req \in sending \/ (\E i \in DOMAIN queue : req = queue[i])
                \/ (loop = "acquire" /\ req = taken)
    BY <2>2 DEF Inv, RequestsGood, Good
  <2> QED
    BY <2>1, <2>2 DEF Requests
<1> QED
  BY <1>1, <1>2, InitInv, PTL DEF BackfillSpec
=============================================================================
