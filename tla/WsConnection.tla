---------------------------- MODULE WsConnection ----------------------------
(***************************************************************************)
(* The multiplexed websocket, both ends: the browser's WsProvider          *)
(* (web/src/ws), which keeps one socket and tells the server which         *)
(* subjects its pages use, and the server's connection loop with one task  *)
(* per subscribed subject (controllers/websocket).                         *)
(*                                                                         *)
(* A socket that breaks is replaced by the browser at once; the server     *)
(* finds out later, and what its tasks do until then has no effect.        *)
(* chain.tip is modelled with what it carries (home.rs; a handler keeps    *)
(* the last height); the other subjects send when they like, their         *)
(* contents are in ClusterStream and MempoolStream.  A task that is        *)
(* aborted is at an await.  Every reader keeps up with the bus.            *)
(***************************************************************************)
EXTENDS Integers, Sequences, FiniteSets

CONSTANTS OtherSubject,      \* the subjects beside chain.tip
          OutboundCapacity,  \* OUTBOUND_CHANNEL_CAPACITY
          MaxMounts,         \* bound on the components that mount
          MaxBreaks,         \* bound on how often the socket breaks
          MaxBad,            \* bound on the frames that do not parse
          MaxTip             \* bound on the blocks

ASSUME WsAssumption ==
    /\ OutboundCapacity \in Nat \ {0}
    /\ {MaxMounts, MaxBreaks, MaxBad, MaxTip} \subseteq Nat
    /\ IsFiniteSet(OtherSubject) /\ "chain.tip" \notin OtherSubject

VARIABLES handlers,          \* registryRef: per subject, how many handlers
          ready, fresh,      \* the socket in use is open; its effect has yet to run
          view,              \* the height that the chain.tip handler has, or NoTip
          mounts, bad,       \* bounds
          socket,            \* the number of the socket in use
          inbound,           \* the frames on their way to the server
          outbound,          \* the queue of the connection's tasks
          parked,            \* the loop waits for room in that queue itself
          serving,           \* per subject, how far its task is
          loops, left,       \* broken sockets whose loop goes on; the tasks of broken sockets
          place, hand,       \* the chain.tip task: its place on the bus, its first frame
          unread,            \* the first frame was left out: the read failed
          tip, told          \* table blocks; the NewBlockInfo messages on the bus

Subject == OtherSubject \cup {"chain.tip"}
NoTip == -1
NoTasks == [s \in Subject |-> "none"]

browserVars == <<handlers, ready, fresh, view, mounts, bad, socket>>
brokenVars == <<loops, left>>
taskVars == <<serving, place, hand, unread>>
wsVars == <<browserVars, brokenVars, inbound, outbound, parked, taskVars, tip, told>>

WsInit ==
    /\ handlers = [s \in Subject |-> 0]
    /\ ready = FALSE /\ fresh = FALSE
    /\ view = NoTip /\ mounts = 0 /\ bad = 0
    /\ socket = 1
    /\ inbound = <<>> /\ outbound = <<>> /\ parked = FALSE
    /\ serving = NoTasks
    /\ loops = {} /\ left = {}
    /\ place = 0 /\ hand = NoTip
    /\ unread = FALSE
    /\ tip = 0 /\ told = 0

\* apply_block stores a block and later publishes it.
BlockStored ==
    /\ tip < MaxTip /\ told = tip
    /\ tip' = tip + 1
    /\ UNCHANGED <<browserVars, brokenVars, inbound, outbound, taskVars, parked, told>>

BlockTold ==
    /\ told < tip
    /\ told' = told + 1
    /\ UNCHANGED <<browserVars, brokenVars, inbound, outbound, taskVars, parked, tip>>

(***************************************************************************)
(* WsProvider.                                                             *)
(***************************************************************************)
Used == {s \in Subject : handlers[s] > 0}
ClientFrame(action, s) == [action |-> action, subject |-> s]

sendJsonMessage(frames) ==
    inbound' = IF ready THEN inbound \o frames ELSE inbound

\* subscribe: a component mounts.  One component uses chain.tip.
subscribe(s) ==
    /\ mounts < MaxMounts /\ mounts' = mounts + 1
    /\ s = "chain.tip" => handlers[s] = 0
    /\ handlers' = [handlers EXCEPT ![s] = @ + 1]
    /\ view' = IF s = "chain.tip" THEN NoTip ELSE view
    /\ sendJsonMessage(IF handlers[s] = 0 THEN <<ClientFrame("subscribe", s)>> ELSE <<>>)
    /\ UNCHANGED <<ready, fresh, bad, socket, brokenVars, outbound, taskVars, parked, tip, told>>

\* ... and unmounts.
unsubscribe(s) ==
    /\ handlers[s] > 0
    /\ handlers' = [handlers EXCEPT ![s] = @ - 1]
    /\ sendJsonMessage(IF handlers[s] = 1 THEN <<ClientFrame("unsubscribe", s)>> ELSE <<>>)
    /\ UNCHANGED <<ready, fresh, view, mounts, bad, socket, brokenVars, outbound, taskVars, parked, tip, told>>

SocketOpens ==
    /\ ~ready
    /\ ready' = TRUE /\ fresh' = TRUE
    /\ UNCHANGED <<handlers, view, mounts, bad, socket, brokenVars, inbound, outbound, taskVars, parked, tip, told>>

\* The subjects of the registry, one after the other.
Registry == {order \in [1 .. Cardinality(Used) -> Used] :
                \A s \in Used : \E i \in DOMAIN order : order[i] = s}

\* The effect on readyState, after the render that showed it; a component that
\* mounts before has sent a frame already.
Resubscribes ==
    /\ ready /\ fresh
    /\ fresh' = FALSE
    /\ \E order \in Registry :
          sendJsonMessage([i \in DOMAIN order |-> ClientFrame("subscribe", order[i])])
    /\ UNCHANGED <<handlers, ready, view, mounts, bad, socket, brokenVars, outbound, taskVars, parked, tip, told>>

Served == {s \in Subject : serving[s] # "none"}

\* The socket breaks; what is on it is lost, and the next one is under way.
SocketBreaks ==
    /\ ready /\ socket <= MaxBreaks
    /\ ready' = FALSE /\ fresh' = FALSE
    /\ socket' = socket + 1
    /\ loops' = loops \cup {socket}
    /\ left' = left \cup ({socket} \X Served)
    /\ inbound' = <<>> /\ outbound' = <<>> /\ parked' = FALSE
    /\ serving' = NoTasks /\ hand' = NoTip /\ unread' = FALSE
    /\ UNCHANGED <<handlers, view, mounts, bad, place, tip, told>>

\* A text that is no ClientFrame, from any program that speaks to the route.
BadFrame ==
    /\ ready /\ bad < MaxBad
    /\ bad' = bad + 1
    /\ sendJsonMessage(<<ClientFrame("bad", "chain.tip")>>)
    /\ UNCHANGED <<handlers, ready, fresh, view, mounts, socket, brokenVars, outbound, taskVars, parked, tip, told>>

\* onMessage
onMessage(frame) ==
    view' = IF frame.subject = "chain.tip" /\ handlers["chain.tip"] > 0
            THEN frame.value ELSE view

(***************************************************************************)
(* The server's end of the socket.                                         *)
(***************************************************************************)
ServerEvent(s, value) == [subject |-> s, value |-> value]

\* Slip: the queue takes one frame too many.
RoomForOneMore == Len(outbound) <= OutboundCapacity

HasRoom == Len(outbound) < OutboundCapacity
queue(frame) == HasRoom /\ outbound' = Append(outbound, frame)

\* handle_connection: a frame of the queue goes out.
LoopSends ==
    /\ ready /\ ~parked /\ outbound # <<>>
    /\ outbound' = Tail(outbound)
    /\ onMessage(Head(outbound))
    /\ UNCHANGED <<handlers, ready, fresh, mounts, bad, socket, brokenVars, inbound, taskVars, parked, tip, told>>

\* Slip: the loop waits for room, which only it can make.
ErrorWaits ==
    IF HasRoom THEN queue(ServerEvent("error", 0)) /\ UNCHANGED parked
               ELSE parked' = TRUE /\ UNCHANGED outbound

\* send_event: an error frame is dropped when the queue is full.
send_event ==
    /\ IF HasRoom THEN queue(ServerEvent("error", 0)) ELSE UNCHANGED outbound
    /\ UNCHANGED parked

\* Slip: a subscribe frame that comes twice ends the subscription.
SpawnsToggle(s) ==
    serving' = [serving EXCEPT ![s] = IF @ = "none" THEN "spawned" ELSE "none"]

\* A subscribe frame: nothing if the subject has its task, else it is spawned.
Spawns(s) == serving' = [serving EXCEPT ![s] = IF @ = "none" THEN "spawned" ELSE @]

\* An unsubscribe frame: the task, if there is one, is aborted.
Aborts(s) ==
    /\ serving' = [serving EXCEPT ![s] = "none"]
    /\ hand' = IF s = "chain.tip" THEN NoTip ELSE hand

handle_client_frame ==
    /\ ready /\ ~parked /\ inbound # <<>>
    /\ inbound' = Tail(inbound)
    /\ LET frame == Head(inbound)
       IN  \/ /\ frame.action = "bad"
              /\ send_event /\ UNCHANGED <<serving, hand>>
           \/ /\ frame.action = "subscribe"
              /\ Spawns(frame.subject) /\ UNCHANGED <<outbound, parked, hand>>
           \/ /\ frame.action = "unsubscribe"
              /\ Aborts(frame.subject) /\ UNCHANGED <<outbound, parked>>
    /\ UNCHANGED <<browserVars, brokenVars, place, unread, tip, told>>


\* A read, a send or a ping of a broken socket fails: its loop ends and aborts
\* its tasks.
LoopEnds(k) ==
    /\ k \in loops
    /\ loops' = loops \ {k}
    /\ left' = left \ ({k} \X Subject)
    /\ UNCHANGED <<browserVars, inbound, outbound, taskVars, parked, tip, told>>

(***************************************************************************)
(* The subscription tasks.                                                 *)
(***************************************************************************)

\* build: join the bus ...
Joins(s) ==
    /\ serving[s] = "spawned"
    /\ serving' = [serving EXCEPT ![s] = IF s = "chain.tip" THEN "joined" ELSE "relay"]
    /\ place' = IF s = "chain.tip" THEN told ELSE place
    /\ UNCHANGED <<browserVars, brokenVars, inbound, outbound, hand, unread, parked, tip, told>>

\* Slip: the tip is read first, the bus joined after that.
ReadThenJoin ==
    /\ serving["chain.tip"] = "joined"
    /\ serving' = [serving EXCEPT !["chain.tip"] = "relay"]
    /\ place' = told
    /\ hand' = IF place = 0 THEN NoTip ELSE place
    /\ UNCHANGED <<browserVars, brokenVars, inbound, outbound, unread, parked, tip, told>>

latest == IF tip = 0 THEN NoTip ELSE tip   \* BlockRepository::latest

\* ... then read the tip; there may be none, and the read may fail.
get_current_chain_tip ==
    /\ serving["chain.tip"] = "joined"
    /\ serving' = [serving EXCEPT !["chain.tip"] = "relay"]
    /\ \/ hand' = latest /\ unread' = FALSE
       \/ hand' = NoTip /\ unread' = TRUE
    /\ UNCHANGED <<browserVars, brokenVars, inbound, outbound, place, parked, tip, told>>

\* The first frame, then the bus.  The task parks in send while there is no room.
SendsTip ==
    /\ serving["chain.tip"] = "relay"
    /\ \/ /\ hand # NoTip
          /\ queue(ServerEvent("chain.tip", hand))
          /\ hand' = NoTip
          /\ UNCHANGED <<place, unread>>
       \/ /\ hand = NoTip /\ place < told
          /\ queue(ServerEvent("chain.tip", place + 1))
          /\ place' = place + 1 /\ unread' = FALSE
          /\ UNCHANGED hand
    /\ UNCHANGED <<browserVars, brokenVars, inbound, serving, parked, tip, told>>

SendsOther(s) ==
    /\ serving[s] = "relay"
    /\ queue(ServerEvent(s, 0))
    /\ UNCHANGED <<browserVars, brokenVars, inbound, taskVars, parked, tip, told>>

TaskSteps == (\E s \in Subject : Joins(s)) \/ get_current_chain_tip \/ SendsTip
BrowserSteps == SocketOpens \/ Resubscribes

WsNext ==
    \/ BlockStored \/ BlockTold
    \/ \E s \in Subject : subscribe(s) \/ unsubscribe(s)
    \/ BrowserSteps \/ SocketBreaks \/ BadFrame
    \/ LoopSends \/ handle_client_frame \/ \E k \in loops : LoopEnds(k)
    \/ TaskSteps \/ \E s \in OtherSubject : SendsOther(s)

WsSpec == WsInit /\ [][WsNext]_wsVars

(***************************************************************************)
(* Properties.                                                             *)
(***************************************************************************)

\* Every variable has its type, and the queue keeps its bound.
WsTypeOK ==
    /\ handlers \in [Subject -> Nat]
    /\ serving \in [Subject -> {"none", "spawned", "joined", "relay"}]
    /\ Len(outbound) <= OutboundCapacity
    /\ ~ready => inbound = <<>> /\ Served = {}
    /\ place <= told /\ view \in {NoTip} \cup 1 .. tip

\* The two ends agree: once the server has heard all, it serves exactly the
\* subjects that pages use, after any order of mounts and unmounts before and
\* after the socket is open, frames sent twice and frames lost with a socket.
Heard == ready /\ ~fresh /\ inbound = <<>>

SubjectsAgree == Heard => Served = Used

\* chain.tip joins the bus before it reads the tip (streams.rs:49-50), so no
\* block falls in between: once all has arrived, the page shows the last block,
\* unless the read had failed and no block came since.
TipIsCurrent ==
    /\ Heard /\ serving["chain.tip"] = "relay" /\ hand = NoTip
    /\ place = told /\ told = tip /\ tip > 0 /\ ~unread
    /\ \A i \in DOMAIN outbound : outbound[i].subject # "chain.tip"
    => view = tip


\* The loop never waits for itself: whatever the queue is like, it goes on to
\* hear what the browser sends.
AllIsHeard == <>[](ready => inbound = <<>> /\ ~fresh)
=============================================================================
