----------------------------- MODULE NodeHealth -----------------------------
(***************************************************************************)
(* What the api knows of its node.  While it starts, wait_until_ready      *)
(* (infra/node_wait.rs) polls the node; later NodeStatusWatcher (observer) *)
(* does, and reports changes over the bus to the consumer of               *)
(* services/node_status.rs.  Both tell NodeHealthService, which keeps the  *)
(* last-known reachability and writes rows of system_events                *)
(* (services/node_health.rs, services/system_event.rs).  The wait also     *)
(* fills the report of /health (infra/readiness.rs).                       *)
(*                                                                         *)
(* A call to the node or the database is one step, and between two of them *)
(* the node may change.  At most one call fails although the node is up.   *)
(* Of the bootstrap there is what the two reporters need: it subscribes    *)
(* the consumer and then spawns the observer.  Of the table, the rows      *)
(* about the node and the starts are kept; those about the bootstrap and   *)
(* the stops say nothing of the node, and no decision goes by them.        *)
(***************************************************************************)
EXTENDS Naturals, Sequences

CONSTANTS Version,    \* the node's possible subversions
          MaxMoves,   \* bound on the changes of the node
          MaxLives,   \* bound on the starts of the process
          Faults      \* the calls that may fail although the node is up

Fault == {"rpc",      \* a call to the node
          "read",     \* latest_of_kind, of the latest version row
          "insert"}   \* an insert into system_events; logged and swallowed

ASSUME NodeHealthAssumption == {MaxMoves, MaxLives} \subseteq Nat /\ Faults \subseteq Fault

VARIABLES node, moves, lives, \* the node (external); bounds
          failed,           \* the kind of the call that has failed
          boot,             \* how far the start-up task is
          phase, report,    \* Readiness
          last, job,        \* NodeHealthService: `last', and the call in progress
          watched, channel, \* the watcher's last_reachable; the consumer's stream
          events            \* table system_events

nodeVars == <<node, moves, lives>>
readyVars == <<boot, phase, report>>
jobVars == <<last, job>>
watchVars == <<watched, channel>>
healthVars == <<nodeVars, failed, readyVars, jobVars, watchVars, events>>

Sync == {"ibd", "loading", "loaded"}
Node == [up : BOOLEAN, sync : Sync, version : Version]
Boot == {"bind", "poll", "mempool", "bootstrap", "listen", "observe", "run"}
Phase == {"WaitingForNode", "Bootstrapping", "Ready"}
NoReport == [reachable |-> FALSE, sync |-> "unknown"]
NoVersion == "none"
NoJob == [pc |-> "none", version |-> NoVersion]
Row(kind) == [kind |-> kind, to |-> NoVersion]

Connectivity == {"NodeConnected", "NodeDisconnected"}

Fails(kind) ==
    /\ kind \in Faults /\ failed = {}
    /\ failed' = failed \cup {kind}

\* A call to the node that gets no answer.
NodeFails == Fails("rpc") \/ (~node.up /\ UNCHANGED failed)

HealthInit ==
    /\ node \in Node /\ moves = 0 /\ lives = 1
    /\ failed = {}
    /\ boot = "bind"
    /\ phase = "WaitingForNode" /\ report = NoReport
    /\ last = "Unknown" /\ job = NoJob
    /\ watched = <<>> /\ channel = <<>>
    /\ events = <<>>

NodeChanges ==
    /\ moves < MaxMoves
    /\ moves' = moves + 1
    /\ \/ node.up /\ node' = [node EXCEPT !.up = FALSE]
       \/ ~node.up /\ node' \in {n \in Node : n.up}
       \/ /\ node.up /\ node.sync # "loaded"
          /\ node' = [node EXCEPT !.sync = IF @ = "ibd" THEN "loading" ELSE "loaded"]
    /\ UNCHANGED <<lives, failed, readyVars, jobVars, watchVars, events>>

\* SystemEventRepository::insert
insert(row) ==
    \/ events' = Append(events, row) /\ UNCHANGED failed
    \/ Fails("insert") /\ UNCHANGED events

\* SystemEventService::record: an insert that fails is logged and forgotten.
record(row) == insert(row)

\* Slip: every observation counts as a transition.
TransitionAlways(reachable) ==
    /\ last' = IF reachable THEN "Reachable" ELSE "Unreachable"
    /\ job' = [NoJob EXCEPT !.pc = IF reachable THEN "info" ELSE "disconnected"]

\* observe_reachable and observe_unreachable up to their first await: the
\* transition is taken before the row is written.
observe(reachable) ==
    LET observed == IF reachable THEN "Reachable" ELSE "Unreachable"
    IN  IF last = observed THEN UNCHANGED jobVars
        ELSE /\ last' = observed
             /\ job' = [NoJob EXCEPT !.pc = IF reachable THEN "info" ELSE "disconnected"]

(***************************************************************************)
(* The rest of observe_reachable and observe_unreachable.                  *)
(***************************************************************************)
\* Slip: wait for the answer of a node that has gone.
NetworkInfoWaits ==
    /\ job.pc = "info" /\ node.up
    /\ job' = [pc |-> "connected", version |-> node.version]
    /\ UNCHANGED <<last, events, failed>>

get_network_info ==
    /\ job.pc = "info"
    /\ \/ /\ node.up
          /\ job' = [pc |-> "connected", version |-> node.version]
          /\ UNCHANGED failed
       \/ /\ NodeFails
          /\ job' = [pc |-> "connected", version |-> NoVersion]
    /\ UNCHANGED <<last, events>>

RecordConnected ==
    /\ job.pc = "connected"
    /\ record(Row("NodeConnected"))
    /\ job' = IF job.version = NoVersion THEN NoJob ELSE [job EXCEPT !.pc = "version"]
    /\ UNCHANGED last

\* Row i is the latest of its kind, and SystemEventRepository::latest_of_kind of
\* the version rows.
IsLatest(i, kind) ==
    /\ events[i].kind = kind
    /\ \A j \in i + 1 .. Len(events) : events[j].kind # kind

LatestVersion ==
    IF \E i \in DOMAIN events : IsLatest(i, "NodeVersionChanged")
    THEN events[CHOOSE i \in DOMAIN events : IsLatest(i, "NodeVersionChanged")].to
    ELSE NoVersion

\* Slip: the latest version is taken from memory, which a restart clears.
CheckVersionAnew ==
    /\ job.pc = "version"
    /\ job' = [job EXCEPT !.pc = "changed"]
    /\ UNCHANGED <<last, events, failed>>

\* A latest_of_kind that fails is read as no previous version.
check_version ==
    /\ job.pc = "version"
    /\ \/ /\ job' = IF LatestVersion = job.version THEN NoJob
                    ELSE [job EXCEPT !.pc = "changed"]
          /\ UNCHANGED failed
       \/ Fails("read") /\ job' = [job EXCEPT !.pc = "changed"]
    /\ UNCHANGED <<last, events>>

RecordVersion ==
    /\ job.pc = "changed"
    /\ record([kind |-> "NodeVersionChanged", to |-> job.version])
    /\ job' = NoJob
    /\ UNCHANGED last

RecordDisconnected ==
    /\ job.pc = "disconnected"
    /\ record(Row("NodeDisconnected"))
    /\ job' = NoJob
    /\ UNCHANGED last

HealthJob ==
    /\ \/ get_network_info \/ RecordConnected \/ check_version \/ RecordVersion
       \/ RecordDisconnected
    /\ UNCHANGED <<nodeVars, readyVars, watchVars>>

(***************************************************************************)
(* wait_until_ready: getblockchaininfo, the report and the observation,    *)
(* and for a node that has left initial block download getmempoolinfo.     *)
(***************************************************************************)
\* The report of /health; what the wait has not asked yet is unknown.
record_node(ibd) == report' = [reachable |-> TRUE, sync |-> IF ibd THEN "ibd" ELSE "unknown"]
record_node_error == report' = NoReport
record_mempool_loaded(loaded) ==
    report' = [report EXCEPT !.sync = IF loaded THEN "loaded" ELSE "loading"]

set_phase(p) == phase' = p

PollChain ==
    /\ boot = "poll" /\ job = NoJob
    /\ \/ /\ node.up
          /\ record_node(node.sync = "ibd")
          /\ observe(TRUE)
          /\ boot' = IF node.sync = "ibd" THEN "poll" ELSE "mempool"
          /\ UNCHANGED failed
       \/ /\ NodeFails
          /\ record_node_error
          /\ observe(FALSE)
          /\ UNCHANGED boot
    /\ UNCHANGED <<nodeVars, phase, watchVars, events>>

\* What a node that is up answers: has it loaded mempool.dat?
get_mempool_info == node.sync = "loaded"

PollMempool ==
    /\ boot = "mempool" /\ job = NoJob
    /\ \/ /\ node.up /\ get_mempool_info
          /\ record_mempool_loaded(TRUE)
          /\ boot' = "bootstrap" /\ set_phase("Bootstrapping")
          /\ UNCHANGED failed
       \/ /\ node.up /\ ~get_mempool_info
          /\ record_mempool_loaded(FALSE)
          /\ boot' = "poll" /\ UNCHANGED <<phase, failed>>
       \/ /\ NodeFails
          /\ boot' = "poll" /\ UNCHANGED <<phase, report>>
    /\ UNCHANGED <<nodeVars, jobVars, watchVars, events>>

(***************************************************************************)
(* The rest of the start-up: the server_started row once the listener is   *)
(* bound, and the bootstrap, which subscribes before it spawns.            *)
(***************************************************************************)
Bound ==
    /\ boot = "bind"
    /\ record(Row("ServerStarted"))
    /\ boot' = "poll"
    /\ UNCHANGED <<nodeVars, phase, report, jobVars, watchVars>>

Bootstrap ==
    /\ \/ boot = "bootstrap" /\ boot' = "listen" /\ UNCHANGED phase
       \/ boot = "listen" /\ boot' = "observe" /\ UNCHANGED phase
       \/ boot = "observe" /\ boot' = "run" /\ set_phase("Ready")
    /\ UNCHANGED <<nodeVars, failed, report, jobVars, watchVars, events>>

is_ready == phase = "Ready"

\* Data routes are served, and not refused with the report.
require_ready == is_ready

\* Slip: the consumer subscribes once the observer is running.
SubscribeLate == boot = "run"

Subscribed == boot \in {"observe", "run"}
Observing == boot \in {"observe", "run"}

(***************************************************************************)
(* NodeStatusWatcher::watch publishes what changed since its last poll, to *)
(* whoever has subscribed by then; the consumer takes the events in order. *)
(***************************************************************************)
Watch ==
    /\ Observing
    /\ \E reachable \in BOOLEAN :
          /\ IF reachable THEN node.up /\ UNCHANGED failed ELSE NodeFails
          /\ watched # <<reachable>>
          /\ watched' = <<reachable>>
          /\ channel' = IF Subscribed THEN Append(channel, reachable) ELSE channel
    /\ UNCHANGED <<nodeVars, readyVars, jobVars, events>>

ConsumeStatus ==
    /\ channel # <<>> /\ job = NoJob
    /\ observe(Head(channel))
    /\ channel' = Tail(channel)
    /\ UNCHANGED <<nodeVars, readyVars, watched, failed, events>>

\* The process ends in any way, and is started again: only the table remains.
Restart ==
    /\ lives < MaxLives
    /\ lives' = lives + 1
    /\ boot' = "bind" /\ phase' = "WaitingForNode" /\ report' = NoReport
    /\ last' = "Unknown" /\ job' = NoJob
    /\ watched' = <<>> /\ channel' = <<>>
    /\ UNCHANGED <<node, moves, failed, events>>

HealthNext ==
    \/ NodeChanges \/ PollChain \/ PollMempool \/ Bound \/ Bootstrap
    \/ HealthJob \/ Watch \/ ConsumeStatus \/ Restart

HealthSpec == HealthInit /\ [][HealthNext]_healthVars

\* What the tasks of the process do by themselves.
Polling == PollChain \/ PollMempool \/ Watch
Starting == Bound \/ Bootstrap

(***************************************************************************)
(* Properties.                                                             *)
(***************************************************************************)

\* Every variable has its type; data routes are served exactly once the
\* bootstrap is over, to whatever state the node has come since.
HealthTypeOK ==
    /\ node \in Node
    /\ boot \in Boot /\ phase \in Phase
    /\ last \in {"Unknown", "Reachable", "Unreachable"}
    /\ require_ready <=> boot = "run"

\* Two rows of these kinds with none of them in between.
Adjacent(i, k, kinds) ==
    /\ i < k /\ {events[i].kind, events[k].kind} \subseteq kinds
    /\ \A j \in i + 1 .. k - 1 : events[j].kind \notin kinds

\* An outage in the log has a beginning and an end: within one life of the
\* process connected and disconnected rows alternate, although two tasks
\* report one after the other, each with a memory of its own.  A row that
\* record could not insert (system_event.rs:28) is the exception: it is not
\* written later, because the transition has been taken.
OutagesAlternate ==
    "insert" \notin failed =>
        \A i, k \in DOMAIN events :
            Adjacent(i, k, Connectivity \cup {"ServerStarted"}) /\ events[i].kind \in Connectivity
                => events[i].kind # events[k].kind

\* Once the consumer has caught up, the log ends with what the watcher saw
\* last: no status is lost between the wait, the subscription and the first
\* poll, nor does the wait's memory hide it.
LogFollowsWatcher ==
    /\ watched # <<>> /\ channel = <<>> /\ job = NoJob
    /\ "insert" \notin failed
    => \E i \in DOMAIN events :
          /\ events[i].kind = (IF watched[1] THEN "NodeConnected" ELSE "NodeDisconnected")
          /\ \A j \in i + 1 .. Len(events) : events[j].kind \notin Connectivity

\* "Emits a node_version_changed row when we see a different subversion"
\* (node_health.rs:84): the rows are a history of changes, across outages and
\* restarts, unless the latest one could not be read.
VersionRowsAreChanges ==
    "read" \notin failed =>
        \A i, k \in DOMAIN events :
            Adjacent(i, k, {"NodeVersionChanged"}) => events[i].to # events[k].to

\* The last-known reachability becomes the node's, and stays so: no outage and
\* no recovery goes unnoticed for ever.
HealthSettles == <>[](last = "Reachable" <=> node.up)
=============================================================================
