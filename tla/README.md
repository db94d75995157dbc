# Verification of cluster-mempool-observer

TLA+ modules, TLC runs and TLAPS proofs about the `api`, `observer` and `shared`
crates of this repository (and, where it closes a loop, the `web` client).
`PROJECT.json` gives, for every definition, the lines it models.

## 1. The system

A Bitcoin Core node is watched by polling and by ZMQ; what enters and leaves its
mempool is written to Postgres as history; browsers follow it over a websocket.

| Part | Source | State | Operations | Talks to |
| --- | --- | --- | --- | --- |
| Mempool ledger | `shared/src/snapshot/mempool.rs` | `live`, `journal`, `degraded` under one lock | seed, submit_authoritative, assert_present, assert_absent, begin_flush, commit, reconcile_against | written by the watcher, the cluster lookups, the block service, bootstrap; drained by the reconciler |
| Block gate | `api/src/infra/block_gate.rs` | `held_since`, `in_flight` | acquire, guard drop, try_begin_flush, is_held | block service against reconciler |
| Mempool reconciler | `api/src/services/mempool_reconciler.rs`, `db/repositories/mempool_ledger.rs` | the batch of a tick; tables `mempool_deltas`, `transactions` | tick: lease, classify, write, commit, drain, enqueue backfills, publish, sync clusters | ledger, gate, database, backfill queue, pubsub, cluster service |
| Mempool watcher | `observer/src/watchers/mempool_delta.rs` | the response in hand | poll_once | node, ledger |
| Block service | `api/src/services/block.rs`, `db/repositories/block.rs` | table `blocks`; position in catch_up | catch_up, apply_block, stop_applying | node, gate, database, ledger, cluster service |
| Bootstrap | `api/src/services/bootstrap.rs` | the phase of start-up | sync blocks, fetch, seed, submit, spawn tasks | everything |
| Cluster service | `api/src/services/cluster.rs`, `db/repositories/cluster*.rs` | tables `clusters`, `chunks`, link `transactions.cluster_id` | sync_clusters, handle_candidates, handle_confirmed, handle_evicted, upsert, confirm_mined | node, ledger, database, cluster delta |
| Cluster delta | `api/src/services/cluster_delta.rs`, `shared/src/snapshot/cluster.rs` | active clusters in memory | seed, publish, chunked snapshot | pubsub |
| Streams | `api/src/services/mempool.rs`, `controllers/websocket/`, `shared/src/pubsub.rs` | broadcast channels, subscriptions, outbound queues | subscribe, snapshot then deltas, lag | browsers |
| Web client | `web/src/ws/`, `web/src/hooks/` | the client's copy of the clusters | applyDelta, resubscribe | websocket |
| Backfill | `api/src/services/tx_backfill.rs` | bounded queue, in-flight set, attempts | enqueue, process, retry, close | node, table `transactions` |
| Samples | `api/src/services/{counter,gauge}_sample.rs`, `resolution.rs` and their repositories | end of the last window; tables of counter and gauge samples | sample a window, read a series | table `mempool_deltas`, cluster snapshot |
| Node health | `api/src/services/{node_health,node_status,system_event}.rs`, `infra/{node_wait,readiness}.rs`, `observer/src/watchers/node_status.rs` | reachability, phase, report; table `system_events` | wait_until_ready, observe, check_version, record | node, pubsub |
| Lifecycle | `api/src/infra/lifecycle.rs`, `main.rs` | start-up and shutdown; `apply_lock`; tasks being drained | start, stop_applying, drain | all tasks |
| Observer | `observer/src/{runner,publisher}.rs`, `watchers/` | last diagram; the ZMQ socket | poll, publish on change, relay blocks, reconnect | node, pubsub |
| RPC clients | `observer/src/clients/`, `retrievers/` | pool of connections | checkout, checkin, call | node |
| Read side | `api/src/controllers`, `services/{home,transaction}.rs` | none | queries | database |

What makes it hard: every answer of the node is used after an await; four tasks
write the ledger; the ledger is drained by a transaction that can be preempted,
fail, or succeed without saying so; the process can stop anywhere; a
notification can be lost; queues are bounded and drop.

What correctness means, per part:

- ledger and reconciler: every row is a real transition (no duplicates), nothing
  is forgotten, and a removal has the label that `confirmed_at` calls for;
- gate: no tick runs beside a block, except past the ceiling; neither starves
  the other;
- block service: every height in order, none skipped, whatever fails;
- bootstrap: what it queues is the difference between database and node;
- whole pipeline: database and ledger converge to the node's mempool;
- clusters: every unconfirmed transaction is in exactly one active cluster, the
  one the node reports; a confirmed cluster keeps its members;
- streams: a client that folds what it receives ends up with the server's state;
- backfill: a queued transaction is filled or given up, never forgotten;
- samples: windows neither overlap nor leave gaps, and a stored count is final;
- node health: an outage in the log has both ends, and the log ends with what is
  true now;
- lifecycle: a block lands whole or not at all, and the process does exit;
- observer: the last value that changed is the one that everybody has; a watcher
  comes back after every failure;
- websocket: the two ends agree on what is subscribed, and nothing outlives its
  connection.

## 2. The modules

**`MempoolLedger`**: the ledger. Each public method holds the lock for its whole
body, so it is one action. A `HashSet` is iterated in any order, so a set of
txids is pushed in any order. Timestamps of entries are left out.

**`BlockGate`**: the gate. `held_since` counts the time the gate has been shut,
saturating at `MaxHold`; `holder` says whether the (only) guard does not exist,
waits for the tick in flight, or is inside. `expired` is a history variable: the
ceiling has reopened the gate since a block last entered with it shut.

**`MempoolReconciler`**: a tick, step by step (lease, classify, write, commit,
drain, cluster sync) over the ledger and the gate, in an environment that is left
open: any caller asserts any txids, blocks confirm any transactions while they are
inside the gate. Of `mempool_deltas` the last row of each txid is kept, of
`transactions` whether the row exists and whether it is confirmed.
`ReconcilerSpec` is the reconciler as the code has it; `RepairedSpec` adds two
things the repository allows for but does not schedule: a COMMIT whose
acknowledgement is lost, and a caller of `reconcile_against`.

**`MempoolPipeline`**: the real environment: the node, the watcher, the lookups
that assert what the node answers, the block service, bootstrap and crashes. The
answer of the node is read in one step and used in another. The constant
`Mishaps` says which rare failures a run allows.

**`MempoolReconcilerProofs`**: the theorems about the reconciler.

**`ResidencyLog`**: what ledger and reconciler promise together, in five variables
and without gate, tick or transaction: a set in memory, a stored copy of it, and the
transitions that the copy is still owed, each once and in order.
**`MempoolReconcilerRefinement`** maps the reconciler to it (`live` is the set, the
last rows are the copy, and the journal, less the batch once that is written, is what
is owed) and proves that the reconciler implements it.

**`ClusterStore`**: the cluster tables, each database transaction an operator from
one state of the tables to the next: insert, replace_chunks (a new version),
close_many, confirm_many, trim_and_confirm_many. Chunks are abstracted to the
txids they hold, per cluster for its current version and for whatever is flagged
live.

**`ClusterSync`**: the cluster service over those tables. A round (of a tick or of
a block) is a list of jobs; asking the node, taking its answer, upserting,
inserting singletons and publishing are separate steps, between which the node
changes and is polled. Every call can fail where the code handles failure, and
the process can crash. `handle_evicted` goes by the ledger's live set, and `stats` and
`build_row` are what the gauges count. The ledger is summarised to the txids with an unflushed
entry. The history variable `still` says that the node never changed during a
round. Ids stop at the bound `MaxClusters` (`RoomFor`), which the runs never reach.
**`ClusterStoreProofs`**, **`ClusterSyncLemmas`**, **`ClusterSyncRounds`** and
**`ClusterSyncProofs`** have the theorems about both.

**`ClusterStream`**: from a round's changes to a browser's list: the change
service's diff, the broadcast ring with its lag, the subscription task (subscribe,
then snapshot in chunks, then events), the bounded outbound queue, a socket that
breaks, and the browser's reducer.

**`MempoolStream`**: the mempool stream's subscriber on top of `MempoolLedger`: it
gets the live set, then the net effect of each flushed batch (`residency_delta`).

**`TxBackfill`**: the backfill queue and its consumer: requests by stage, a bounded
queue that drops, permits, retries with backoff and a saturating attempt counter,
the ledger's say in retrying, the writes of the two stages, and shutdown.

**`Samples`**: the counter and the gauge sampler against a clock whose unit is their
interval, with journal entries that carry the time they were seen at and become rows
when the gate allows it. The read side picks a resolution and merges samples.

**`DeltaReaders`**: the two readers of what the reconciler flushes (`MempoolStream`
and `Samples`), each with its own view of the writer.

**`NodeHealth`**: the start-up wait, the node-status watcher, the consumer of its
events, the transition between reachable and unreachable, the rows in
`system_events`, the phase that opens the data routes and the report of `/health`.

**`Lifecycle`**: the start-up task and the shutdown sequence: the block in flight and
its lock, then the drains of backfill and reconciler, each with its timeout.

**`RpcPool`** and **`Observer`**: the connections to the node, the calls on them, the
feerate watcher over those calls, and the block watcher with its ZMQ socket;
**`ObserverProofs`** has their theorems.

**`WsConnection`**: one websocket, both ends: the registry of the browser's
provider, its resubscription after a reconnect, the server's loop with a task per
subject, the bounded queue between them, frames that do not parse, and `chain.tip`
with what it carries.

**`Operations`** puts the last four next to each other.

How they compose: `MempoolReconciler` uses the variables of `MempoolLedger` and
`BlockGate`; `MempoolPipeline` and `MempoolStream` build on the same ledger and
`Samples` on the same gate; `ClusterSync` uses `ClusterStore`; `Observer` extends
`RpcPool`. Where modules share no state (`Operations`, `DeltaReaders`), a selector
variable says which of them a behaviour follows: their product would add orders of
independent steps and nothing else. Across modules the interface is abstracted: in
`MempoolPipeline` a cluster lookup may name any txid the code could ask for and the
answer any group the node could give, which contains what `ClusterSync` does.

The definitions marked *Slip* are alternatives of the definition below them, each
a plausible mistake in that piece of code. They take part in no specification;
substituting one for its original makes the property it is listed with fail.

## 3. The runs

| Run | Bounds | Shows |
| --- | --- | --- |
| `reconciler` | 2 txids, journal of 2, ceiling 1; `RepairedSpec` | types; no tick beside a block; nothing forgotten and labels current; all of it implements `ResidencyLog` |
| `pipeline` | 2 txids, journal of 3, 3 changes of the node, 1 fault, lost notifications | the pipeline implements `ReconcilerSpec`; no duplicate transition |
| `pipeline_faults` | 1 txid, journal of 2, 2 changes, 1 fault; hanging blocks, lost acknowledgements, unreadable bootstrap | no missing heights; ledger and database converge; notifications are served |
| `clusters` | 3 txids, one spending two; 3 changes of the node, 2 failed calls or crashes | consistent tables and snapshot; clusters with departed members are owed a visit; exact clusters after undisturbed rounds; nobody left behind by an upsert |
| `clusters_rest` | the same with 2 changes and 1 failure, half stored batches included | rounds, and the rounds they cause, come to an end |
| `stream` | 2 clusters, 2 contents, 3 rounds, 1 broken socket, ring of 2, outbound queue of 1 | no data gaps for a subscriber that keeps up; the list settles |
| `readers` | 2 txids, 5 calls; clock to 6, 1 entry and 2 blocks, ceiling 2, margin 3, ladder 1, 2, 4, 1 failed or slow query or restart | a subscriber's fold is right for txids without unflushed entry at the snapshot; windows tile the time; no row lands in a counted window; merged series add up |
| `backfill` | 2 rows, queue of 1, 1 permit, cap of 1 attempt, counter up to 2, 1 move of the node, 2 transient errors, 1 database error | bounds; a fee is asked for only after the raw stage; stayers are completed; shutdown drains |
| `operations` | 2 versions, 2 moves of the node, 2 lives, 1 failed call; 2 blocks; 2 callers, 2 diagrams, 3 changes or glitches; 2 subjects, 2 mounts, queue of 1, 1 broken socket, 1 bad frame, 1 block | outages alternate and the log follows the watcher; blocks land whole and shutdown ends; connections are exclusive and the pool is the peak; diagram and blocks reach the bus in order and the watchers recover; both ends of a websocket agree, no task outlives its connection, all is heard |
| `boot_resync`, `cluster_orphan`, `late_rows` | | violated, see section 5 |

Why the bounds are enough. Two txids let one transaction be mined while another
of its cluster stays, and let the order of pushes matter. A journal of two entries
overflows while a batch is in flight and holds two transitions of one txid; a
ceiling of one step lets the gate be shut, expired and shut again. Three changes
let a transaction enter, leave and enter, or enter and be mined with one more
block; the node moves sets of transactions in one change, so three of them also
merge a cluster and split it again. One crash and one failing call are enough
to interrupt every operation at every point: a crash forgets everything but the
tables. A ring of two and a queue of one make every sender wait and every reader
lag. In `backfill` the cap and the counter's maximum are small so that both are
passed. In `readers` six intervals hold a window of every kind (first, regular,
empty, after a restart), a gate shut for its whole ceiling, and a bucket of each
width; one entry is enough, since a row is late or counted by itself. In `operations`
two moves take the node down and up again, two lives let the rows of one be read by
the next, and two mounts on two subjects make the registry's counts go from zero to
two and back while the socket breaks.

`readers`, `late_rows`, `stream`, `backfill` and `operations` do not check for deadlock: their systems
stop when the bounded changes are over (and, for the backfill, at shutdown).

Fairness. The watcher, the tick, the cluster lookups, the subscription tasks, the
consumer and bootstrap are scheduled again and again (tokio's runtime,
`interval.tick()`), and so is the browser's handler: weak fairness. A database
statement that is retried for ever succeeds in the end: strong fairness on the
steps of a tick and on the insertion of a block. A block makes progress unless it
hangs, which is an action of its own (`BlockHangs`), since `MAX_HOLD` exists for
it. Between two attempts `catch_up` sleeps with the gate open for up to ten seconds
and a tick is due every second, hence strong fairness of `BeginFlush`. The tokio
mutex is fair: `acquire` gets it before the next tick. The consumer's `select!`
polls the shutdown each time round, hence strong fairness of `Close`. In
`FairOperations` the tasks are scheduled, timeouts fire, a call returns or fails, and
the browser reads its socket, opens another when it breaks, and runs its effects;
nothing is assumed of the block in flight or of the tasks that shutdown waits for.
In `clusters_rest` the watcher polls and the service takes its steps.

## 4. What is proved

For every finite set of transactions, every journal capacity and every ceiling
(`MempoolReconcilerProofs`):

- `TypeCorrect`: types, and `in_flight` exactly while a tick runs;
- `GateExcludes`: `NoFlushDuringBlock`;
- `LabelsCorrect`: `LabelsAreCurrent`, from `NoFlushDuringBlock`'s inductive form:
  while a tick is in a transaction and the ceiling has not fired, no block is
  inside, so `confirmed_at` does not move;
- `DrainsWhatItWrote`: `BatchIsPrefix`, what a tick drains is what it has written;
- `CatchesUp`: `DatabaseCatchesUp`, over lost acknowledgements and repairs too;
- `NoDuplicateTransitions`: `EveryRowIsATransition`, where commits are
  acknowledged.

The last two are about sequences read as transitions from a base set:
`Alternates(es, n, base)` and `LeadsTo(es, n, base, final)` speak of the entries
after the first `n`, which makes them inductive: queueing entries that are a step
from `final` keeps both (`PushAlternates`, `PushLeadsTo`), writing a prefix moves
the base (`WriteAlternates`, `WriteLeadsTo`), draining renumbers
(`DrainKeepsAccount`). The inductive invariant adds `BatchIsPrefix` (the batch
still is the front of the journal) and that a process that is down has an empty
journal.

`MempoolReconcilerRefinement` proves, for the same constants, that the reconciler
implements the abstract log: `ReconcilerImplementsLog` for the code as it is, and
`RepairedImplementsLog` with lost acknowledgements and repairs
(`ImplementsResidencyLog`, which the run `reconciler` checks too). The proof has a
case per action that says which abstract step it is: a call on the ledger is `Changes`, the commit
`StoresFront`, a crash `Forgets`, the seed `Recovers`, the rest stutter. The
invariants proved before are what the mapping needs: the batch is the front of the
journal, so that dropping it from what is owed is the same at the commit and at the
drain.

That the pipeline implements `ReconcilerSpec` is model-checked, so the theorems carry
over to it on the instances of that run. Liveness, under fairness, is beyond the
prover and stays with TLC, as does everything about the modules that are not named in
this section.

`ObserverProofs` proves the safety of `RpcPool` and `Observer` for any finite set of
callers and any number of failures. The pool's invariant (`PoolInv`) adds an account
to what is claimed: every connection that was opened is idle or used by exactly one
caller; a call that finds the stack empty therefore raises the peak. The observer
only calls the pool, so it inherits both (`CallsAreAccounted`).
`DiagramFollows` needs that the tracker's and the snapshot's points are the same, and
`BlocksInOrder` that what is announced, what is in the socket and the next block of
the node are in order.

About the clusters, for any finite set of transactions, any graph on them, any
`MaxClusters`, and any calls that fail:

- `LiveFlagIsRight`: `LiveChunksAreCurrent`;
- `LinksAreRight`: `LinksMatchClusters`;
- `ClientsSeeTheTables`: `SnapshotIsActiveClusters`, where no insert fails between two
  of its batches.

`ClusterStoreProofs` says what each database transaction needs in order to keep the
tables `Consistent`: an insert, that no active cluster has any of the new members
(`InsertKeeps`); a new version, that no other active cluster has (`ReplaceKeeps`); a
trim, that it keeps a part (`TrimKeeps`). The code checks none of this where it writes:
the service has to see to it across the steps of a round. Hence the invariant `Inv`
speaks of the queue too. The singletons that a round has collected stay unclaimed until
they are inserted, because an upsert takes the members of its group out of them; the
clusters that an upsert merges are all that have any of its group, because they are
looked up when the answer is taken and only one round writes; a block job holds
txids that are mined. For the snapshot, each step is shown to record all that it does
(`Recorded`): what will have been published at the end of the round is, after every
step, what the tables hold. `ClustersMatchNode` and `StaleClustersAreOwed`, which
compare with the node, are model-checked only.

## 5. Where code and words disagree

Three runs end in a counterexample to what a comment, doc or test says:

- `boot_resync`: blocks applied by bootstrap before the ledger is seeded queue Adds
  for transactions that the database holds already; they are written again
  (`bootstrap.rs:132-136` promises exactly the difference).
- `cluster_orphan`: the node changes between two answers of one round and a
  transaction ends in no cluster (`cluster.rs:156-157`).
- `late_rows`: `SAFETY_MARGIN` is "Derived so it cannot fall behind that hold"
  (`counter_sample.rs:12-15`), the hold being `MAX_HOLD`. But every `acquire` starts
  the ceiling anew, so two blocks that come before the reconciler's next tick hold the
  flush for longer, and a row lands in a window whose count is stored. With a tick
  between two blocks the margin is enough (`CountsAreFinal` in `readers`).

More disagreements were met while modelling and have no run of their own:

- a crash between the flush of an eviction and the round after it leaves the cluster
  active until a member is mentioned again (`orphan_clusters.rs:206`);
- a cluster that closed while the browser was away stays in its list, which
  `useClusterDeltaSocket.ts:93` calls up to date;
- an Add that awaits its flush is in a new subscriber's snapshot; a Remove in the same
  batch cancels it, so no event mentions it (`services/mempool.rs:32`);
- the burst of rows after a start is kept out of the counts by its window only when it
  falls into the window of the start row (`api/tests/it/counter_sample.rs` says that
  the "cursor still advances so the spike is not swept into the next window");
- a series may have up to two points more than `MAX_POINTS` (`resolution.rs:18`);
- `/health` goes on to report what the start-up wait saw of the node
  (`readiness.rs:22`);
- when the read of the tip fails, a new subscriber to `chain.tip` has nothing until the
  next block.

Other limits of the code are exceptions that the properties name: a lost COMMIT
acknowledgement duplicates the rows of a batch; nothing calls `reconcile_against`
after an overflow (`Converges`); a bootstrap that cannot read leaves Add rows of
transactions that are gone (`Converges`); a failing `replace_chunks` after a merge
leaves members without cluster (`UnlinkedAreRequeued`); a failing batch hides those
before it from the snapshot (`SnapshotIsActiveClusters`); a full backfill queue
drops retries (`StayersAreCompleted`); a lagging subscriber is not told
(`NoDataGaps`).

## 6. What is not modelled

- Fees, weights, feerates and the inner order of chunks: carried along, never
  decided on by what is modelled. The hollow rows of unknown members go with them.
- Reorganisations of the chain: `catch_up` only looks above the highest stored block,
  and no code handles a replaced one, so there is no handler to translate.
- The 15-day horizon of the residency query: the models keep the last row of every
  transaction whatever its age.
- A tick's and a block's round writing the cluster tables together past the
  gate's ceiling: `ClusterSync` runs one round at a time.
- A start at which the active clusters cannot be read for the snapshot: the error is
  only logged, and the snapshot is empty until clusters change. The rows about
  bootstrap and stops in `system_events`: no decision goes by them.
- How long poll intervals and backoffs are: the scheduler decides when a step happens.
  The server's ping: a failed one is one more way for a socket to break.
- HTTP, JSON and ZMQ decoding, SQL text, the read side's other queries, metrics,
  logging, configuration, deployment and the test kit: no state of their own; they
  appear as the answers and failures of the calls.
- The web client's charts, tables, layout and search parameters: pure functions of one
  response, and drawing. Nothing of them feeds back into the parts above.

## 7. Plan

1. Proofs: `EntryFollowsRaw` for the backfill, the step simulation of
   `ReconcilerSpec` by the pipeline.
2. Two rounds at a time in `ClusterSync`, past the ceiling.
3. Web client: request races in `useHttpGet` and `useTransactionCache`; its pure
   functions (`downtimeWindows`, `splitSegments`, the layers of the transaction graph)
   against reference definitions.
