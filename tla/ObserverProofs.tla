--------------------------- MODULE ObserverProofs ---------------------------
(***************************************************************************)
(* Proofs, for every finite set of callers, every set of diagrams and any  *)
(* number of failures, of the invariants of RpcPool and of Observer.  The  *)
(* pool comes first, alone; the observer only calls it.                    *)
(***************************************************************************)
EXTENDS Observer, FiniteSetTheorems, SequenceTheorems, TLAPS

(***************************************************************************)
(* The pool.  Connections are numbered, and every one that was opened is   *)
(* either idle or used by exactly one caller: `Account' counts them.       *)
(***************************************************************************)
PoolShape ==
    /\ idle \in Seq(Nat \ {0}) /\ using \in [Caller -> Nat]
    /\ opened \in Nat /\ peak \in Nat
    /\ \A i \in DOMAIN idle : idle[i] <= opened
    /\ \A c \in Caller : using[c] <= opened

Account == opened = Len(idle) + Cardinality(Busy)

PoolInv == PoolShape /\ ConnectionsAreExclusive /\ Account /\ PoolIsPeak

\* The callers in a call are finitely many.
LEMMA BusyFinite ==
    IsFiniteSet(Busy) /\ Cardinality(Busy) \in Nat
BY CallerAssumption, FS_Subset, FS_CardinalityType DEF Busy

\* A call takes the top of the stack or a connection of its own.
LEMMA CheckoutKeeps ==
    ASSUME PoolInv, NEW c \in Caller, checkout(c)
    PROVE  PoolInv'
<1>1. Busy' = Busy \cup {c} /\ c \notin Busy
  <2>1. using' \in [Caller -> Nat]
    BY DEF PoolInv, PoolShape, checkout
  <2>2. using'[c] # 0 /\ \A d \in Caller \ {c} : using'[d] = using[d]
    BY DEF PoolInv, PoolShape, checkout
  <2> QED
    BY <2>1, <2>2 DEF Busy, checkout
<1>2. Cardinality(Busy') = Cardinality(Busy) + 1 /\ Cardinality(Busy) \in Nat
  BY <1>1, BusyFinite, FS_AddElement
<1>3. peak' = IF Cardinality(Busy') > peak THEN Cardinality(Busy') ELSE peak
  BY DEF checkout, Counted
<1>4. CASE idle # <<>>
  <2>1. /\ using' = [using EXCEPT ![c] = idle[Len(idle)]]
        /\ idle' = SubSeq(idle, 1, Len(idle) - 1)
        /\ opened' = opened
    BY <1>4 DEF checkout
  <2>2. Len(idle) \in Nat \ {0} /\ Len(idle) \in DOMAIN idle
    BY <1>4 DEF PoolInv, PoolShape
  <2>3. /\ idle' \in Seq(Nat \ {0}) /\ Len(idle') = Len(idle) - 1
        /\ \A i \in DOMAIN idle' : i \in DOMAIN idle /\ i < Len(idle) /\ idle'[i] = idle[i]
    <3>1. Len(idle) - 1 \in Nat /\ \A i \in 1 .. Len(idle) - 1 : i \in DOMAIN idle
                                                                /\ idle[i] \in Nat \ {0}
      BY <2>2 DEF PoolInv, PoolShape
    <3>2. /\ idle' \in Seq(Nat \ {0}) /\ Len(idle') = Len(idle) - 1
          /\ \A i \in 1 .. Len(idle) - 1 : idle'[i] = idle[i]
      <4> DEFINE n == Len(idle) - 1
      <4>1. n \in Nat /\ \A i \in 1 .. n : idle[i] \in Nat \ {0}
        BY <3>1
      <4>2. idle' = SubSeq(idle, 1, n)
        BY <2>1
      <4> HIDE DEF n
      <4>3. /\ SubSeq(idle, 1, n) \in Seq(Nat \ {0})
            /\ Len(SubSeq(idle, 1, n)) = IF 1 <= n THEN n - 1 + 1 ELSE 0
            /\ \A i \in 1 .. n - 1 + 1 : SubSeq(idle, 1, n)[i] = idle[1 + i - 1]
        BY <4>1, SubSeqProperties
      <4>4. idle' \in Seq(Nat \ {0}) /\ Len(idle') = n /\ \A i \in 1 .. n : idle'[i] = idle[i]
        BY <4>1, <4>2, <4>3
      <4> QED
        BY <4>4 DEF n
    <3>3. DOMAIN idle' = 1 .. Len(idle) - 1
      BY <3>2, LenProperties
    <3> QED
      BY <2>2, <3>1, <3>2, <3>3
  <2>4. opened' = Len(idle') + Cardinality(Busy')
    BY <1>2, <2>1, <2>2, <2>3 DEF PoolInv, PoolShape, Account
  <2>5. peak' = peak /\ peak \in Nat
    BY <1>2, <1>3, <2>1, <2>2, <2>3, <2>4 DEF PoolInv, PoolShape, PoolIsPeak
  <2>6. PoolShape'
    BY <2>1, <2>2, <2>3, <2>5 DEF PoolInv, PoolShape
  <2>7. ConnectionsAreExclusive'
    BY <2>1, <2>2, <2>3, SMTT(30) DEF PoolInv, PoolShape, ConnectionsAreExclusive, Busy, checkout
  <2> QED
    BY <2>1, <2>4, <2>5, <2>6, <2>7 DEF PoolInv, Account, PoolIsPeak
<1>5. CASE idle = <<>>
  <2>1. /\ using' = [using EXCEPT ![c] = opened + 1]
        /\ opened' = opened + 1 /\ idle' = idle
    BY <1>5 DEF checkout
  <2>2. Len(idle) = 0 /\ DOMAIN idle = {}
    BY <1>5
  <2>3. peak' = opened' /\ Cardinality(Busy') = opened'
    BY <1>2, <1>3, <2>1, <2>2 DEF PoolInv, PoolShape, PoolIsPeak, Account
  <2>4. PoolShape'
    BY <2>1, <2>2, <2>3 DEF PoolInv, PoolShape
  <2>5. ConnectionsAreExclusive'
    BY <2>1, <2>2 DEF PoolInv, PoolShape, ConnectionsAreExclusive, Busy, checkout
  <2> QED
    BY <1>2, <2>1, <2>2, <2>3, <2>4, <2>5 DEF PoolInv, PoolShape, Account, PoolIsPeak
<1> QED
  BY <1>4, <1>5

\* The connection goes back on the stack, whatever became of the call.
LEMMA CheckinKeeps ==
    ASSUME PoolInv, NEW c \in Caller, checkin(c)
    PROVE  PoolInv'
<1>1. /\ idle' = Append(idle, using[c]) /\ using' = [using EXCEPT ![c] = 0]
      /\ opened' = opened /\ peak' = peak /\ using[c] \in Nat \ {0}
  BY DEF checkin, PoolInv, PoolShape
<1>2. /\ idle' \in Seq(Nat \ {0}) /\ Len(idle') = Len(idle) + 1
      /\ DOMAIN idle' = DOMAIN idle \cup {Len(idle) + 1}
      /\ idle'[Len(idle) + 1] = using[c]
      /\ \A i \in DOMAIN idle : idle'[i] = idle[i] /\ i < Len(idle) + 1
  BY <1>1 DEF PoolInv, PoolShape
<1>3. Busy' = Busy \ {c} /\ c \in Busy
  BY <1>1 DEF PoolInv, PoolShape, Busy
<1>4. Cardinality(Busy') = Cardinality(Busy) - 1 /\ Cardinality(Busy) \in Nat
  BY <1>3, BusyFinite, FS_RemoveElement
<1>5. Account'
  BY <1>1, <1>2, <1>4 DEF PoolInv, PoolShape, Account
<1>6. PoolShape'
  BY <1>1, <1>2 DEF PoolInv, PoolShape
<1>7. ConnectionsAreExclusive'
  BY <1>1, <1>2, <1>3 DEF PoolInv, PoolShape, ConnectionsAreExclusive, Busy
<1> QED
  BY <1>1, <1>5, <1>6, <1>7 DEF PoolInv, PoolIsPeak

\* No connection is shared, and there are as many as were ever needed at once:
\* the invariant of the pool, whoever calls.
THEOREM PoolCorrect == PoolSpec => []PoolInv
<1>1. PoolInit => PoolInv
  <2> SUFFICES ASSUME PoolInit PROVE PoolInv
    OBVIOUS
  <2>1. Busy = {} /\ Cardinality(Busy) = 0
    BY FS_EmptySet DEF PoolInit, Busy
  <2> QED
    BY <2>1 DEF PoolInit, PoolInv, PoolShape, ConnectionsAreExclusive, Account, PoolIsPeak
<1>2. PoolInv /\ [PoolNext]_poolVars => PoolInv'
  <2>1. PoolInv /\ UNCHANGED poolVars => PoolInv'
    BY DEF PoolInv, PoolShape, ConnectionsAreExclusive, Account, PoolIsPeak, Busy, poolVars
  <2> QED
    BY <2>1, CheckoutKeeps, CheckinKeeps DEF PoolNext
<1> QED
  BY <1>1, <1>2, PTL DEF PoolSpec

(***************************************************************************)
(* The observer.                                                           *)
(***************************************************************************)

\* What the observer does to the pool are calls of it.
LEMMA ObserverUsesPool == ObserverSpec => PoolSpec
<1>1. ObserverInit => PoolInit
  BY DEF ObserverInit
<1>2. [ObserverNext]_observerVars => [PoolNext]_poolVars
  BY DEF ObserverNext, observerVars, ChainMoves, Reconnects, SocketMoves, Call, Answer,
         Return, PoolNext
<1> QED
  BY <1>1, <1>2, PTL DEF ObserverSpec, PoolSpec

\* "Each connection serializes the calls made through it", and the pool "grows
\* to the peak number of concurrent calls and no further": no two calls of the
\* watchers and the api's tasks have the same connection, and none is lost by a
\* call that fails.
THEOREM CallsAreAccounted == ObserverSpec => []ConnectionsAreAccounted
BY ObserverUsesPool, PoolCorrect, PTL DEF PoolInv, ConnectionsAreAccounted

\* The diagrams on their way: the tracker, the snapshot and the bus agree.
DiagramInv ==
    /\ diagram \in Diagram /\ reply \in [Caller -> Diagram \cup NoReply]
    /\ published \in Seq(Diagram) /\ {last_points, stored_points} \subseteq Diagram
    /\ last_points = stored_points
    /\ SubscribersHaveTheDiagram

\* What the api serves is what subscribers were told last: an unchanged diagram
\* need not be published, and a failed poll changes neither.
THEOREM DiagramFollows == ObserverSpec => []SubscribersHaveTheDiagram
<1> USE ObserverAssumption
<1>1. ObserverInit => DiagramInv
  BY DEF ObserverInit, DiagramInv, SubscribersHaveTheDiagram, LastPublished, NoReply,
         NoPoints
<1>2. DiagramInv /\ [ObserverNext]_observerVars => DiagramInv'
  <2> SUFFICES ASSUME DiagramInv, [ObserverNext]_observerVars PROVE DiagramInv'
    OBVIOUS
  <2>1. CASE UNCHANGED <<reply, feerateVars>> /\ diagram' \in Diagram
    BY <2>1 DEF DiagramInv, SubscribersHaveTheDiagram, LastPublished, feerateVars
  <2>2. CASE ChainMoves
    <3>1. diagram' \in Diagram
      BY <2>2 DEF ChainMoves, NodeStops, NodeStarts, DiagramChanges, BlockFound, DiagramInv
    <3> QED
      BY <2>1, <2>2, <3>1 DEF ChainMoves
  <2>3. CASE Reconnects \/ SocketMoves \/ UNCHANGED observerVars
    BY <2>1, <2>3 DEF Reconnects, SocketMoves, DiagramInv, observerVars, chainVars
  <2>4. ASSUME NEW c \in Caller, Call(c) \/ Answer(c) PROVE DiagramInv'
    <3>1. reply' \in [Caller -> Diagram \cup NoReply]
      BY <2>4 DEF Call, Answer, DiagramInv, NoReply
    <3>2. UNCHANGED <<chainVars, feerateVars>>
      BY <2>4 DEF Call, Answer
    <3> QED
      BY <3>1, <3>2 DEF DiagramInv, SubscribersHaveTheDiagram, LastPublished, chainVars, feerateVars
  <2>5. ASSUME NEW c \in Caller, Return(c) PROVE DiagramInv'
    <3>1. reply' \in [Caller -> Diagram \cup NoReply] /\ diagram' = diagram
      BY <2>5 DEF Return, DiagramInv, NoReply, chainVars
    <3>2. CASE UNCHANGED feerateVars
      BY <3>1, <3>2 DEF DiagramInv, SubscribersHaveTheDiagram, LastPublished, feerateVars
    <3>3. CASE record_points(reply[c]) /\ reply[c] # "failed"
      <4>1. reply[c] \in Diagram
        BY <2>5, <3>3 DEF Return, DiagramInv, NoReply
      <4>2. last_points' = reply[c] /\ stored_points' = reply[c]
        BY <3>3 DEF record_points, update, store
      <4>3. CASE reply[c] = last_points
        BY <3>1, <3>3, <4>1, <4>2, <4>3
           DEF record_points, DiagramInv, SubscribersHaveTheDiagram, LastPublished
      <4>4. CASE reply[c] # last_points
        <5>1. published' = Append(published, reply[c])
          BY <3>3, <4>4 DEF record_points, publish_event
        <5>2. /\ published' \in Seq(Diagram) /\ published' # <<>>
              /\ published'[Len(published')] = reply[c]
          BY <4>1, <5>1 DEF DiagramInv
        <5> QED
          BY <3>1, <4>1, <4>2, <5>2 DEF DiagramInv, SubscribersHaveTheDiagram, LastPublished
      <4> QED
        BY <4>3, <4>4
    <3> QED
      BY <2>5, <3>2, <3>3 DEF Return
  <2> QED
    BY <2>2, <2>3, <2>4, <2>5 DEF ObserverNext
<1> QED
  BY <1>1, <1>2, PTL DEF ObserverSpec, DiagramInv

\* The blocks announced, those in the socket and those to come are in order.
Rising(s) == \A i, k \in DOMAIN s : i < k => s[i] < s[k]

BlocksInv ==
    /\ height \in Nat /\ announced \in Seq(Nat) /\ wire \in Seq(Nat)
    /\ BlocksAnnouncedInOrder /\ Rising(wire)
    /\ \A i \in DOMAIN announced : announced[i] <= height
    /\ \A k \in DOMAIN wire : wire[k] <= height
    /\ \A i \in DOMAIN announced : \A k \in DOMAIN wire : announced[i] < wire[k]

\* What an announcement adds.
LEMMA AppendedLast ==
    ASSUME NEW s \in Seq(Nat), NEW x \in Nat, NEW r, r = Append(s, x)
    PROVE  /\ r \in Seq(Nat) /\ Len(r) = Len(s) + 1
           /\ DOMAIN r = DOMAIN s \cup {Len(s) + 1}
           /\ r[Len(s) + 1] = x
           /\ \A i \in DOMAIN s : r[i] = s[i] /\ i \in Nat /\ i < Len(s) + 1
<1>1. r \in Seq(Nat) /\ Len(r) = Len(s) + 1 /\ Len(s) \in Nat
  OBVIOUS
<1>2. DOMAIN r = DOMAIN s \cup {Len(s) + 1}
  BY <1>1
<1>3. r[Len(s) + 1] = x
  BY <1>1
<1>4. \A i \in DOMAIN s : r[i] = s[i] /\ i \in Nat /\ i < Len(s) + 1
  BY <1>1
<1> QED
  BY <1>1, <1>2, <1>3, <1>4

\* A message is taken from the socket, and announced or skipped.
LEMMA MessageKeepsOrder ==
    ASSUME BlocksInv, handle_one, UNCHANGED height
    PROVE  BlocksInv'
<1>1. wire \in Seq(Nat) /\ wire # <<>> /\ wire' = Tail(wire)
  BY DEF BlocksInv, handle_one
<1>2. /\ wire' \in Seq(Nat) /\ 1 \in DOMAIN wire /\ Head(wire) = wire[1] /\ wire[1] \in Nat
      /\ \A k \in DOMAIN wire' : k + 1 \in DOMAIN wire /\ wire'[k] = wire[k + 1] /\ k \in Nat
                                /\ 1 < k + 1
  BY <1>1
<1>3. CASE announced' = announced
  BY <1>1, <1>2, <1>3 DEF BlocksInv, BlocksAnnouncedInOrder, Rising
<1>4. CASE announced' = Append(announced, wire[1])
  <2>1. /\ announced' \in Seq(Nat) /\ Len(announced') = Len(announced) + 1
        /\ DOMAIN announced' = DOMAIN announced \cup {Len(announced) + 1}
        /\ announced'[Len(announced) + 1] = wire[1]
        /\ \A i \in DOMAIN announced : /\ announced'[i] = announced[i]
                                       /\ i \in Nat /\ i < Len(announced) + 1
    BY <1>2, <1>4, AppendedLast DEF BlocksInv
  <2>2. BlocksAnnouncedInOrder'
    <3> SUFFICES ASSUME NEW i \in DOMAIN announced', NEW k \in DOMAIN announced', i < k
                 PROVE  announced'[i] < announced'[k]
      BY DEF BlocksAnnouncedInOrder
    <3>1. CASE k \in DOMAIN announced
      <4>1. i \in DOMAIN announced
        BY <2>1, <3>1
      <4> QED
        BY <2>1, <3>1, <4>1 DEF BlocksInv, BlocksAnnouncedInOrder
    <3>2. CASE k = Len(announced) + 1
      <4>1. i \in DOMAIN announced
        BY <2>1, <3>2
      <4> QED
        BY <1>2, <2>1, <3>2, <4>1 DEF BlocksInv
    <3> QED
      BY <2>1, <3>1, <3>2
  <2>3. \A i \in DOMAIN announced' : announced'[i] <= height
    BY <1>2, <2>1 DEF BlocksInv
  <2>4. Rising(wire') /\ \A k \in DOMAIN wire' : wire'[k] <= height
    <3>1. ASSUME NEW i \in DOMAIN wire', NEW k \in DOMAIN wire', i < k
          PROVE  wire'[i] < wire'[k]
      <4>1. i + 1 \in DOMAIN wire /\ k + 1 \in DOMAIN wire /\ i + 1 < k + 1
        BY <1>2, <3>1
      <4> QED
        BY <1>2, <4>1 DEF BlocksInv, Rising
    <3> QED
      BY <1>2, <3>1 DEF BlocksInv, Rising
  <2>5. \A i \in DOMAIN announced' : \A k \in DOMAIN wire' : announced'[i] < wire'[k]
    BY <1>2, <2>1, ZenonT(30) DEF BlocksInv, Rising
  <2> QED
    BY <1>2, <2>1, <2>2, <2>3, <2>4, <2>5 DEF BlocksInv, Rising
<1> QED
  BY <1>2, <1>3, <1>4 DEF handle_one, handle_message, publish_event

\* Blocks are announced at most once and in the order of the chain, over any
\* number of sockets, lost peers, garbled messages and restarts of the node.
THEOREM BlocksInOrder == ObserverSpec => []BlocksAnnouncedInOrder
<1>1. ObserverInit => BlocksInv
  BY DEF ObserverInit, BlocksInv, BlocksAnnouncedInOrder, Rising
<1>2. BlocksInv /\ [ObserverNext]_observerVars => BlocksInv'
  <2> SUFFICES ASSUME BlocksInv, [ObserverNext]_observerVars PROVE BlocksInv'
    OBVIOUS
  <2>1. CASE UNCHANGED <<height, wire, announced>>
    BY <2>1 DEF BlocksInv, BlocksAnnouncedInOrder, Rising
  <2>2. CASE ChainMoves
    <3>1. CASE BlockFound /\ wire' = Append(wire, height')
      <4>1. height' = height + 1 /\ announced' = announced
        BY <2>2, <3>1 DEF ChainMoves, BlockFound
      <4>2. /\ wire' \in Seq(Nat) /\ DOMAIN wire' = DOMAIN wire \cup {Len(wire) + 1}
            /\ wire'[Len(wire) + 1] = height + 1
            /\ \A k \in DOMAIN wire : wire'[k] = wire[k] /\ k \in Nat /\ k < Len(wire) + 1
        BY <3>1, <4>1 DEF BlocksInv
      <4>3. /\ \A i \in DOMAIN announced : announced[i] \in Nat
            /\ \A i \in DOMAIN wire : wire[i] \in Nat
        BY DEF BlocksInv
      <4> QED
        BY <4>1, <4>2, <4>3, SMTT(30) DEF BlocksInv, BlocksAnnouncedInOrder, Rising
    <3>2. CASE BlockFound /\ wire' = wire
      <4>1. height' = height + 1 /\ announced' = announced
        BY <2>2, <3>2 DEF ChainMoves, BlockFound
      <4>2. /\ \A i \in DOMAIN announced : announced[i] \in Nat
            /\ \A i \in DOMAIN wire : wire[i] \in Nat
        BY DEF BlocksInv
      <4> QED
        BY <3>2, <4>1, <4>2 DEF BlocksInv, BlocksAnnouncedInOrder, Rising
    <3>3. CASE NodeStops \/ NodeStarts \/ DiagramChanges
      BY <2>1, <2>2, <3>3 DEF ChainMoves, NodeStops, NodeStarts, DiagramChanges
    <3> QED
      BY <2>2, <3>1, <3>2, <3>3 DEF ChainMoves, BlockFound
  <2>3. CASE Reconnects
    BY <2>1, <2>3 DEF Reconnects, Subscribes, Retries, PeerBack, chainVars
  <2>4. CASE SocketMoves
    <3>1. CASE StreamEnds
      BY <2>4, <3>1 DEF SocketMoves, StreamEnds, chainVars, BlocksInv, BlocksAnnouncedInOrder,
                        Rising
    <3>2. CASE PeerLost
      BY <2>1, <2>4, <3>2 DEF SocketMoves, PeerLost, chainVars
    <3> QED
      BY <2>4, <3>1, <3>2, MessageKeepsOrder DEF SocketMoves, chainVars
  <2>5. ASSUME NEW c \in Caller, Call(c) \/ Answer(c) \/ Return(c) PROVE BlocksInv'
    BY <2>1, <2>5 DEF Call, Answer, Return, chainVars, zmqVars
  <2>6. CASE UNCHANGED observerVars
    BY <2>1, <2>6 DEF observerVars, chainVars, zmqVars
  <2> QED
    BY <2>2, <2>3, <2>4, <2>5, <2>6 DEF ObserverNext
<1> QED
  BY <1>1, <1>2, PTL DEF ObserverSpec, BlocksInv
=============================================================================
