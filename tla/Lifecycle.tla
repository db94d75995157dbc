----------------------------- MODULE Lifecycle -----------------------------
(***************************************************************************)
(* The process from its start to its exit (api/src/main.rs): the start-up  *)
(* task waits for the node, bootstraps (services/bootstrap.rs) and spawns  *)
(* the services, while the shutdown future (infra/lifecycle.rs) waits for  *)
(* a signal, which may come at any time, and then stops the blocks and     *)
(* drains two tasks, each within a timeout.                                *)
(*                                                                         *)
(* A block is applied under apply_lock, a fair lock: who waits for it gets *)
(* it before who asks later.  The permit of a Notify waits for a task that *)
(* has not been spawned yet.                                               *)
(***************************************************************************)
EXTENDS Naturals, FiniteSets

CONSTANT MaxBlocks   \* bound on the blocks

ASSUME LifecycleAssumption == MaxBlocks \in Nat

VARIABLES startup,             \* how far the start-up task is
          missing, mined,      \* blocks that are not applied yet; a bound
          apply_lock,          \* who holds it: "none", "block" or "shutdown"
          stop, drain,         \* how far the shutdown is; its BlockDrain
          task, permit,        \* per task: its state, and the permit of its Notify
          timedOut             \* the tasks whose drain timed out

Task == {"backfill", "reconciler"}
Startup == {"wait", "sync", "bootstrap", "ready", "spawned", "run"}
Stop == {"none", "record", "lock", "waiting", "backfill", "reconciler", "scrape", "exited"}
Running == stop # "exited"

blockVars == <<missing, mined, apply_lock>>
drainVars == <<task, permit, timedOut>>
lifecycleVars == <<startup, blockVars, stop, drain, drainVars>>

LifecycleInit ==
    /\ startup = "wait"
    /\ missing \in 0 .. MaxBlocks /\ mined = 0
    /\ apply_lock = "none"
    /\ stop = "none" /\ drain = "none"
    /\ task = [k \in Task |-> "none"] /\ permit = [k \in Task |-> FALSE]
    /\ timedOut = {}

(***************************************************************************)
(* The start-up task.  The wait is NodeHealth's.                           *)
(***************************************************************************)
Reach(from, to) == startup = from /\ startup' = to

NodeIsReady == Reach("wait", "sync") /\ UNCHANGED task

\* sync_missing_blocks returns once no block is missing; one that waits for
\* the lock keeps it from that.
BlocksSynced == missing = 0 /\ Reach("sync", "bootstrap") /\ UNCHANGED task

\* The mempool is set up, the block persister and the observer are spawned.
Bootstrapped == Reach("bootstrap", "ready") /\ UNCHANGED task

Spawn(from, k, to) == Reach(from, to) /\ task' = [task EXCEPT ![k] = "running"]

StartUp ==
    /\ Running
    /\ \/ NodeIsReady \/ BlocksSynced \/ Bootstrapped
       \/ Spawn("ready", "backfill", "spawned")
       \/ Spawn("spawned", "reconciler", "run")
    /\ UNCHANGED <<blockVars, stop, drain, permit, timedOut>>

(***************************************************************************)
(* Blocks, applied by sync_missing_blocks and later by the persister.      *)
(***************************************************************************)
BlockMined ==
    /\ Running /\ mined < MaxBlocks
    /\ mined' = mined + 1 /\ missing' = missing + 1
    /\ UNCHANGED <<startup, apply_lock, stop, drain, drainVars>>

\* apply_block takes the lock.
BlockStarts ==
    /\ Running /\ missing > 0 /\ apply_lock = "none"
    /\ startup \in {"sync", "ready", "spawned", "run"}
    /\ apply_lock' = "block"
    /\ UNCHANGED <<startup, missing, mined, stop, drain, drainVars>>

\* notify_one, and then the wait for the task.
Drains(k) == stop' = k /\ permit' = [permit EXCEPT ![k] = TRUE]

\* The lock is free again, or goes to the shutdown that waits for it, whose
\* guard is forgotten.
Release == stop # "waiting" /\ apply_lock' = "none" /\ UNCHANGED <<stop, drain, permit>>

HandOver ==
    /\ stop = "waiting"
    /\ apply_lock' = "shutdown" /\ drain' = "Waited"
    /\ Drains("backfill")

\* The block has landed, or has failed and stays missing.
BlockEnds ==
    /\ Running /\ apply_lock = "block"
    /\ missing' \in {missing - 1, missing}
    /\ Release \/ HandOver
    /\ UNCHANGED <<startup, mined, task, timedOut>>

(***************************************************************************)
(* The shutdown future.                                                    *)
(***************************************************************************)
Signal ==
    /\ stop = "none"
    /\ stop' = "record"
    /\ UNCHANGED <<startup, blockVars, drain, drainVars>>

\* The row is written, or its failure is logged.
record_server_stopped ==
    /\ stop = "record"
    /\ stop' = "lock"
    /\ UNCHANGED <<startup, blockVars, drain, drainVars>>

\* Slip: the guard of the idle case is dropped instead of forgotten.
StopDropsGuard ==
    /\ stop = "lock" /\ apply_lock = "none"
    /\ drain' = "Idle"
    /\ Drains("backfill")
    /\ UNCHANGED apply_lock

try_stop_applying ==
    /\ stop = "lock" /\ apply_lock = "none"
    /\ apply_lock' = "shutdown" /\ drain' = "Idle"
    /\ Drains("backfill")

StopWaits ==
    /\ stop = "lock" /\ apply_lock = "block"
    /\ stop' = "waiting"
    /\ UNCHANGED <<apply_lock, drain, permit>>

StopTimesOut ==
    /\ stop = "waiting"
    /\ drain' = "TimedOut"
    /\ Drains("backfill")
    /\ UNCHANGED apply_lock

stop_applying_blocks ==
    /\ try_stop_applying \/ StopWaits \/ StopTimesOut
    /\ UNCHANGED <<startup, missing, mined, task, timedOut>>

\* The task finishes what it is doing, and then looks at its Notify.
TaskStops(k) ==
    /\ Running
    /\ task[k] = "running" /\ permit[k]
    /\ task' = [task EXCEPT ![k] = "done"]
    /\ permit' = [permit EXCEPT ![k] = FALSE]
    /\ UNCHANGED <<startup, blockVars, stop, drain, timedOut>>

AfterDrain(k) ==
    IF k = "backfill" THEN Drains("reconciler")
    ELSE stop' = (IF drain = "Idle" THEN "exited" ELSE "scrape") /\ UNCHANGED permit

\* Slip: the wait for the task has no limit.
DrainForever(k) ==
    /\ stop = k /\ task[k] = "done"
    /\ AfterDrain(k)
    /\ UNCHANGED <<startup, blockVars, drain, task, timedOut>>

\* drain_tx_backfill_consumer and drain_mempool_reconciler: the handle arrives
\* once the task is spawned; the timeout covers that and the task's end.
DrainTask(k) ==
    /\ stop = k
    /\ \/ task[k] = "done" /\ UNCHANGED timedOut
       \/ task[k] # "done" /\ timedOut' = timedOut \cup {k}
    /\ AfterDrain(k)
    /\ UNCHANGED <<startup, blockVars, drain, task>>

Exit ==
    /\ stop = "scrape"
    /\ stop' = "exited"
    /\ UNCHANGED <<startup, blockVars, drain, drainVars>>

Shutdown ==
    \/ record_server_stopped \/ stop_applying_blocks \/ Exit
    \/ \E k \in Task : DrainTask(k)

LifecycleNext ==
    \/ StartUp \/ BlockMined \/ BlockStarts \/ BlockEnds
    \/ Signal \/ Shutdown \/ \E k \in Task : TaskStops(k)

LifecycleSpec == LifecycleInit /\ [][LifecycleNext]_lifecycleVars

(***************************************************************************)
(* Properties.                                                             *)
(***************************************************************************)

\* Every variable has its type.
LifecycleTypeOK ==
    /\ startup \in Startup
    /\ missing \in 0 .. 2 * MaxBlocks
    /\ apply_lock \in {"none", "block", "shutdown"}
    /\ stop \in Stop
    /\ drain \in {"none", "Idle", "Waited", "TimedOut"}
    /\ task \in [Task -> {"none", "running", "done"}]
    /\ permit \in [Task -> BOOLEAN]
    /\ timedOut \subseteq Task

\* stop_applying_blocks "keeps any later one from starting for the rest of the
\* process" (lifecycle.rs:103-104): from the moment shutdown has found no block
\* or has waited for it until the process is gone, no block is half applied,
\* even when bootstrap still has blocks to catch up with.  (After a timeout one
\* is, and later ones may start.)
BlocksLandWhole == drain \in {"Idle", "Waited"} => apply_lock # "block"

\* Shutdown ends, as timeouts fire, whatever the start-up task, a block and the
\* two tasks are doing when the signal arrives: also when the tasks are never
\* spawned because the node does not answer or because the lock they wait behind
\* is taken.  (A shutdown that has begun is not taken back.)
ShutdownEnds == <>[](stop \in {"none", "exited"})
=============================================================================
