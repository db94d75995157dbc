------------------------------ MODULE Observer ------------------------------
(***************************************************************************)
(* The observer's watchers that no other module has (observer/runner.rs):  *)
(* the feerate diagram is polled over the connection pool, kept for the    *)
(* api and published when it changes; blocks are announced by ZMQ, over a  *)
(* socket that may lose its peer, garble a message or end.                 *)
(*                                                                         *)
(* The other callers of the pool are the api's tasks.  A node that is gone *)
(* answers no call and accepts no socket.  Blocks are numbered.            *)
(***************************************************************************)
EXTENDS RpcPool

CONSTANTS Diagram,     \* what getmempoolfeeratediagram can answer
          MaxChanges   \* bound on the changes of the node and on glitches

FeerateTask == "feerate"
NoPoints == "empty"
NoReply == {"none", "sent", "failed"}

ASSUME ObserverAssumption ==
    /\ FeerateTask \in Caller
    /\ NoPoints \in Diagram /\ Diagram \cap NoReply = {}
    /\ MaxChanges \in Nat

VARIABLES alive, diagram, height, \* the node (external): up; its diagram; its blocks
          changes,                \* a bound
          reply,                  \* per call: NoReply, or what the node answered
          last_points,            \* FeerateDiagramTracker
          stored_points,          \* FeerateDiagramSnapshot
          published,              \* the points of the events on the bus
          zmq, wire,              \* the block watcher; the messages in its socket
          announced               \* the blocks of the events on the bus

chainVars == <<alive, diagram, height>>
feerateVars == <<last_points, stored_points, published>>
zmqVars == <<zmq, wire, announced>>
observerVars == <<poolVars, chainVars, changes, reply, feerateVars, zmqVars>>

ObserverInit ==
    /\ PoolInit
    /\ alive \in BOOLEAN /\ diagram \in Diagram /\ height = 0
    /\ changes = 0
    /\ reply = [c \in Caller |-> "none"]
    /\ last_points = NoPoints /\ stored_points = NoPoints /\ published = <<>>
    /\ zmq = "connecting" /\ wire = <<>> /\ announced = <<>>

Happens == changes < MaxChanges /\ changes' = changes + 1

\* Something fails by itself, or because the node is gone.
Breaks == Happens \/ (~alive /\ UNCHANGED changes)

(***************************************************************************)
(* The node.  It publishes a block to the sockets that are linked to it.   *)
(***************************************************************************)
NodeStops ==
    /\ alive /\ alive' = FALSE
    /\ zmq' = IF zmq = "linked" THEN "unlinked" ELSE zmq
    /\ UNCHANGED <<diagram, height, wire>>

NodeStarts ==
    /\ ~alive /\ alive' = TRUE
    /\ UNCHANGED <<diagram, height, zmq, wire>>

DiagramChanges ==
    /\ alive /\ diagram' \in Diagram \ {diagram}
    /\ UNCHANGED <<alive, height, zmq, wire>>

BlockFound ==
    /\ alive /\ height' = height + 1
    /\ wire' = IF zmq = "linked" THEN Append(wire, height') ELSE wire
    /\ UNCHANGED <<alive, diagram, zmq>>

ChainMoves ==
    /\ Happens
    /\ NodeStops \/ NodeStarts \/ DiagramChanges \/ BlockFound
    /\ UNCHANGED <<poolVars, reply, feerateVars, announced>>

(***************************************************************************)
(* Calls.                                                                  *)
(***************************************************************************)
Call(c) ==
    /\ checkout(c)
    /\ reply' = [reply EXCEPT ![c] = "sent"]
    /\ UNCHANGED <<chainVars, changes, feerateVars, zmqVars>>

Answer(c) ==
    /\ reply[c] = "sent"
    /\ \/ alive /\ reply' = [reply EXCEPT ![c] = diagram] /\ UNCHANGED changes
       \/ Breaks /\ reply' = [reply EXCEPT ![c] = "failed"]
    /\ UNCHANGED <<poolVars, chainVars, feerateVars, zmqVars>>

\* FeerateDiagramTracker::update and FeerateDiagramSnapshot::store
update(points) == last_points' = points
store(points) == stored_points' = points

\* The events of a subject, in the order in which they are handed to the bus.
publish_event(log, event) == Append(log, event)

\* FeerateDiagramWatcher::record and the event of poll_once: the points are
\* stored whether or not they changed.
record_points(points) ==
    /\ update(points)
    /\ store(points)
    /\ published' = IF points = last_points THEN published ELSE publish_event(published, points)

Return(c) ==
    /\ reply[c] \notin {"none", "sent"}
    /\ checkin(c)
    /\ reply' = [reply EXCEPT ![c] = "none"]
    /\ IF c = FeerateTask /\ reply[c] # "failed" THEN record_points(reply[c])
       ELSE UNCHANGED feerateVars
    /\ UNCHANGED <<chainVars, changes, zmqVars>>

(***************************************************************************)
(* WatcherZMQ::run.  While the socket has lost its peer libzmq retries by  *)
(* itself; when the stream ends, or the handshake does not come, the       *)
(* watcher sleeps and subscribes again, and what was in the socket is gone. *)
(***************************************************************************)
Subscribes ==
    /\ zmq = "connecting"
    /\ \/ alive /\ zmq' = "linked" /\ UNCHANGED changes
       \/ Breaks /\ zmq' = "sleeping"
    /\ UNCHANGED <<wire, announced>>

\* Slip: the watcher gives up after some attempts.
RetriesLimited ==
    /\ zmq = "sleeping" /\ Happens
    /\ zmq' = "connecting"
    /\ UNCHANGED <<wire, announced>>

Retries ==
    /\ zmq = "sleeping" /\ zmq' = "connecting"
    /\ UNCHANGED <<changes, wire, announced>>

PeerLost ==
    /\ zmq = "linked" /\ Happens
    /\ zmq' = "unlinked"
    /\ UNCHANGED <<wire, announced>>

PeerBack ==
    /\ zmq = "unlinked" /\ alive
    /\ zmq' = "linked"
    /\ UNCHANGED <<changes, wire, announced>>

StreamEnds ==
    /\ zmq \in {"linked", "unlinked"} /\ Happens
    /\ zmq' = "sleeping" /\ wire' = <<>>
    /\ UNCHANGED announced

\* A message that is no block hash, or does not decode, gives no event.
handle_message(message) ==
    \/ announced' = publish_event(announced, message) /\ UNCHANGED changes
    \/ Happens /\ UNCHANGED announced

\* Slip: the message is published, and read again after it.
PublishesTwice ==
    /\ wire # <<>>
    /\ announced' = publish_event(announced, Head(wire))
    /\ wire' \in {Tail(wire), wire}
    /\ Len(announced) < 2 * MaxChanges
    /\ UNCHANGED <<changes, zmq>>

handle_one ==
    /\ wire # <<>>
    /\ wire' = Tail(wire)
    /\ handle_message(Head(wire))
    /\ UNCHANGED zmq

Reconnects ==
    /\ Subscribes \/ Retries \/ PeerBack
    /\ UNCHANGED <<poolVars, chainVars, reply, feerateVars>>

SocketMoves ==
    /\ PeerLost \/ StreamEnds \/ handle_one
    /\ UNCHANGED <<poolVars, chainVars, reply, feerateVars>>

ObserverNext ==
    \/ ChainMoves \/ Reconnects \/ SocketMoves
    \/ \E c \in Caller : Call(c) \/ Answer(c) \/ Return(c)

ObserverSpec == ObserverInit /\ [][ObserverNext]_observerVars

\* The watchers poll and retry for ever, and a call ends within its timeout.
Polls == Call(FeerateTask) \/ Answer(FeerateTask) \/ Return(FeerateTask)

(***************************************************************************)
(* Properties.                                                             *)
(***************************************************************************)

\* Every variable has its type; a caller has a connection exactly during a call.
ObserverTypeOK ==
    /\ alive \in BOOLEAN /\ diagram \in Diagram /\ height \in Nat
    /\ \A c \in Caller : (reply[c] # "none" <=> c \in Busy)
                         /\ reply[c] \in Diagram \cup NoReply
    /\ {last_points, stored_points} \subseteq Diagram
    /\ zmq \in {"connecting", "linked", "unlinked", "sleeping"}

\* What the api serves and what subscribers were told last are the same points,
\* although unchanged diagrams are not published and failed polls are skipped.
LastPublished == IF published = <<>> THEN NoPoints ELSE published[Len(published)]
SubscribersHaveTheDiagram == stored_points = LastPublished

\* Blocks are announced once and in the order of the chain, over any number of
\* sockets; the ones that fall between two sockets are not announced at all.
BlocksAnnouncedInOrder ==
    \A i, k \in DOMAIN announced : i < k => announced[i] < announced[k]

\* A node that is up is followed again, after whatever failed: what the api
\* serves and what subscribers were told last become the node's diagram, and
\* the block watcher is linked to it.
ObserverRecovers ==
    <>[]alive =>
        <>[](diagram = stored_points /\ diagram = LastPublished /\ zmq = "linked")
=============================================================================
