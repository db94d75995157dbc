--------------------------- MODULE ClusterStream ---------------------------
(***************************************************************************)
(* From a change of the clusters to a browser's list of them: the change   *)
(* service diffs each round against its snapshot and publishes one event   *)
(* (services/cluster_delta.rs, shared/src/snapshot/cluster.rs), the bus    *)
(* (shared/src/pubsub.rs) keeps the last events for every subscriber, a    *)
(* subscription task sends the snapshot and then the events through the    *)
(* connection's bounded queue (controllers/websocket), and the browser's   *)
(* reducer applies them (web: WsProvider, useClusterDeltaSocket).          *)
(*                                                                         *)
(* One client is followed; its socket may break, and the browser           *)
(* reconnects.  A cluster's contents are a value, 0 when it has no entry.  *)
(***************************************************************************)
EXTENDS Naturals, Sequences, FiniteSets

CONSTANTS ClusterId,        \* the clusters
          Contents,         \* what a cluster can hold; numbers above 0
          ChannelCapacity,  \* CHANNEL_CAPACITY
          OutboundCapacity, \* OUTBOUND_CHANNEL_CAPACITY
          ChunkSize,        \* SNAPSHOT_CHUNK_SIZE
          MaxRounds,        \* bound on the rounds that publish
          MaxBreaks         \* bound on how often the socket breaks

ASSUME StreamAssumption ==
    /\ Contents \subseteq Nat \ {0}
    /\ {ChannelCapacity, OutboundCapacity, ChunkSize} \subseteq Nat \ {0}
    /\ {MaxRounds, MaxBreaks} \subseteq Nat

VARIABLES snapshot,            \* ClusterSnapshot: the contents of every tracked cluster
          round, rounds,       \* what publish still has to do, and its event; a bound
          sent,                \* every message handed to the bus
          task, cursor,        \* the subscription task and its place on the bus
          lagged,              \* the task has been too slow and has missed messages
          frames, outbound,    \* snapshot frames to send; the connection's queue
          live,                \* the browser's clusters
          breaks               \* a bound

publisherVars == <<snapshot, round, rounds, sent>>
serverVars == <<task, cursor, lagged, frames, outbound>>
vars == <<publisherVars, serverVars, live, breaks>>

NoEntries == [c \in ClusterId |-> 0]
Tracked(s) == {c \in ClusterId : s[c] # 0}

\* ClusterDeltaEvent.
Event(upserted, removed) == [upserted |-> upserted, removed |-> removed]
NoEvent == Event(NoEntries, {})
Idle == [upserted |-> NoEntries, removed |-> {}, event |-> NoEvent, busy |-> FALSE]

StreamInit ==
    /\ snapshot = NoEntries
    /\ round = Idle /\ rounds = 0
    /\ sent = <<>>
    /\ task = "none" /\ cursor = 0 /\ lagged = FALSE
    /\ frames = <<>> /\ outbound = <<>>
    /\ live = NoEntries
    /\ breaks = 0

(***************************************************************************)
(* The bus: a message that is sent is there for whoever has subscribed by  *)
(* then (PubSubService over PubSub).                                       *)
(***************************************************************************)
publish(event) == sent' = Append(sent, event)
subscribe == cursor' = Len(sent)

(***************************************************************************)
(* ClusterDeltaService::publish: the snapshot takes the upserts and then   *)
(* the removals one by one, under its lock, and the event follows.         *)
(***************************************************************************)
BeginPublish ==
    /\ ~round.busy /\ rounds < MaxRounds
    /\ rounds' = rounds + 1
    /\ \E upserted \in [ClusterId -> Contents \cup {0}] :
       \E removed \in SUBSET (ClusterId \ Tracked(upserted)) :
          /\ Tracked(upserted) \cup removed # {}
          /\ round' = [Idle EXCEPT !.upserted = upserted, !.removed = removed, !.busy = TRUE]
    /\ UNCHANGED <<snapshot, sent, serverVars, live, breaks>>

\* ClusterSnapshot::upsert
PublishUpsert ==
    /\ round.busy
    /\ \E c \in Tracked(round.upserted) :
          LET value == round.upserted[c]
          IN  /\ snapshot' = [snapshot EXCEPT ![c] = value]
              /\ round' = [round EXCEPT !.upserted[c] = 0,
                                        !.event.upserted[c] = IF snapshot[c] = value THEN 0
                                                              ELSE value]
    /\ UNCHANGED <<rounds, sent, serverVars, live, breaks>>

\* Slip: the cluster is looked for once it is gone, so nothing is announced.
RemoveUnannounced ==
    /\ round.busy /\ Tracked(round.upserted) = {}
    /\ \E c \in round.removed :
          /\ snapshot' = [snapshot EXCEPT ![c] = 0]
          /\ round' = [round EXCEPT !.removed = @ \ {c}]
    /\ UNCHANGED <<rounds, sent, serverVars, live, breaks>>

\* ClusterSnapshot::remove
PublishRemove ==
    /\ round.busy /\ Tracked(round.upserted) = {}
    /\ \E c \in round.removed :
          /\ snapshot' = [snapshot EXCEPT ![c] = 0]
          /\ round' = [round EXCEPT !.removed = @ \ {c},
                                    !.event.removed = @ \cup ({c} \cap Tracked(snapshot))]
    /\ UNCHANGED <<rounds, sent, serverVars, live, breaks>>

EndPublish ==
    /\ round.busy /\ Tracked(round.upserted) = {} /\ round.removed = {}
    /\ IF round.event = NoEvent THEN UNCHANGED sent ELSE publish(round.event)
    /\ round' = Idle
    /\ UNCHANGED <<snapshot, rounds, serverVars, live, breaks>>

(***************************************************************************)
(* The server's side of a connection.                                      *)
(***************************************************************************)

\* The browser's subscribe frame has arrived: the task joins the bus.
Subscribe ==
    /\ task = "none"
    /\ task' = "subscribed"
    /\ subscribe
    /\ lagged' = FALSE
    /\ UNCHANGED <<publisherVars, frames, outbound, live, breaks>>

\* get_current_chunked: frames of at most ChunkSize clusters, in any order.
Frames(s) ==
    LET n == (Cardinality(Tracked(s)) + ChunkSize - 1) \div ChunkSize
        place == {f \in [Tracked(s) -> 1 .. n] :
                    \A i \in 1 .. n - 1 : Cardinality({c \in Tracked(s) : f[c] = i}) = ChunkSize}
        frame(f, i) == Event([c \in ClusterId |-> IF c \in Tracked(s) /\ f[c] = i
                                                  THEN s[c] ELSE 0], {})
    IN  IF n = 0 THEN {<<NoEvent>>}
        ELSE {[i \in 1 .. n |-> frame(f, i)] : f \in place}

get_current_snapshot ==
    /\ task = "subscribed"
    /\ frames' \in Frames(snapshot)
    /\ task' = "relay"
    /\ UNCHANGED <<publisherVars, cursor, lagged, outbound, live, breaks>>

\* Slip: one frame too few.
RoomForOneLess == Len(outbound) + 1 < OutboundCapacity

\* The task parks while the queue is full.
HasRoom == Len(outbound) < OutboundCapacity

SendFrame ==
    /\ task = "relay" /\ frames # <<>> /\ HasRoom
    /\ outbound' = Append(outbound, Head(frames))
    /\ frames' = Tail(frames)
    /\ UNCHANGED <<publisherVars, task, cursor, lagged, live, breaks>>

\* The bus keeps the last ChannelCapacity messages.
Oldest == IF Len(sent) > ChannelCapacity THEN Len(sent) - ChannelCapacity ELSE 0

\* A receiver that finds its next message gone skips to the oldest kept.
Lag ==
    /\ task = "relay" /\ frames = <<>>
    /\ cursor < Oldest
    /\ cursor' = Oldest
    /\ lagged' = TRUE
    /\ UNCHANGED <<publisherVars, task, frames, outbound, live, breaks>>

RelayEvent ==
    /\ task = "relay" /\ frames = <<>> /\ HasRoom
    /\ Oldest <= cursor /\ cursor < Len(sent)
    /\ outbound' = Append(outbound, sent[cursor + 1])
    /\ cursor' = cursor + 1
    /\ UNCHANGED <<publisherVars, task, lagged, frames, live, breaks>>

(***************************************************************************)
(* The browser.                                                            *)
(***************************************************************************)

applyDelta(event) ==
    live' = [c \in ClusterId |-> IF c \in event.removed THEN 0
                                 ELSE IF event.upserted[c] # 0 THEN event.upserted[c]
                                 ELSE live[c]]

onMessage ==
    /\ outbound # <<>>
    /\ applyDelta(Head(outbound))
    /\ outbound' = Tail(outbound)
    /\ UNCHANGED <<publisherVars, task, cursor, lagged, frames, breaks>>

\* The socket breaks: the server drops the connection's tasks and queue.  The
\* browser keeps its list and subscribes again once it has reconnected.
Break ==
    /\ breaks < MaxBreaks /\ task # "none"
    /\ breaks' = breaks + 1
    /\ task' = "none" /\ frames' = <<>> /\ outbound' = <<>>
    /\ UNCHANGED <<publisherVars, cursor, lagged, live>>

StreamNext ==
    \/ BeginPublish \/ PublishUpsert \/ PublishRemove \/ EndPublish
    \/ Subscribe \/ get_current_snapshot \/ SendFrame \/ Lag \/ RelayEvent
    \/ onMessage \/ Break

\* Every task is scheduled, and the browser reads its socket.
StreamSpec ==
    /\ StreamInit /\ [][StreamNext]_vars
    /\ WF_vars(PublishUpsert) /\ WF_vars(PublishRemove) /\ WF_vars(EndPublish)
    /\ WF_vars(Subscribe) /\ WF_vars(get_current_snapshot) /\ WF_vars(SendFrame)
    /\ WF_vars(Lag) /\ WF_vars(RelayEvent) /\ WF_vars(onMessage)

(***************************************************************************)
(* Properties.                                                             *)
(***************************************************************************)

\* "Subscribe to the change stream first to avoid data gaps" (streams.rs:16):
\* a snapshot that is read while a round is half applied, and the events
\* around it, which the client may receive twice, once or after the fact,
\* still add up: once all of it has arrived, the browser has every cluster of
\* the snapshot as it is there, and no others unless it had reconnected.  Only
\* events that the bus dropped for a slow client can break this.
CaughtUp ==
    task = "relay" /\ frames = <<>> /\ outbound = <<>> /\ cursor = Len(sent) /\ ~round.busy

NoDataGaps ==
    CaughtUp /\ ~lagged =>
        /\ \A c \in Tracked(snapshot) : live[c] = snapshot[c]
        /\ breaks = 0 => live = snapshot

\* ... and all of it does arrive, however small the queues are: the client, its
\* task and the bus never wait for each other for ever.
ListSettles == <>[]CaughtUp
=============================================================================
