------------------------- MODULE ClusterSyncLemmas --------------------------
(***************************************************************************)
(* The invariant of the cluster service, the lemmas that its steps share, and *)
(* the steps that leave the tables alone.                                  *)
(***************************************************************************)
EXTENDS ClusterSync, ClusterStoreProofs

(***************************************************************************)
(* Operators of the model.                                                 *)
(***************************************************************************)

\* A non-empty set of ids has a least one, and Min is it.
LEMMA MinIsLeast ==
    ASSUME NEW S \in SUBSET Nat, S # {}
    PROVE  Min(S) \in S /\ \A n \in S : Min(S) <= n
<1>1. PICK m \in S : \A n \in S : ~(<<n, m>> \in OpToRel(<, Nat))
  BY NatLessThanWellFounded, WFMin
<1>2. \A n \in S : ~(n < m)
  BY <1>1 DEF OpToRel
<1>3. \A n \in S : m <= n
  BY <1>2
<1> QED
  BY <1>3 DEF Min

\* A finite set can be put in an order that names each member once.
LEMMA OrderExists ==
    ASSUME NEW S, IsFiniteSet(S)
    PROVE  /\ Cardinality(S) \in Nat
           /\ LET order == CHOOSE f \in Injection(1 .. Cardinality(S), S) : TRUE
              IN  /\ order \in [1 .. Cardinality(S) -> S]
                  /\ \A i, j \in 1 .. Cardinality(S) : order[i] = order[j] => i = j
<1> DEFINE order == CHOOSE f \in Injection(1 .. Cardinality(S), S) : TRUE
<1>1. Cardinality(S) \in Nat /\ ExistsBijection(1 .. Cardinality(S), S)
  BY FS_CardinalityType
<1>2. Injection(1 .. Cardinality(S), S) # {}
  BY <1>1 DEF ExistsBijection, Bijection
<1>3. order \in Injection(1 .. Cardinality(S), S)
  BY <1>2
<1> HIDE DEF order
<1>4. order \in [1 .. Cardinality(S) -> S] /\ IsInjective(order)
  BY <1>3 DEF Injection
<1>5. \A i, j \in 1 .. Cardinality(S) : order[i] = order[j] => i = j
  BY <1>4 DEF IsInjective
<1> QED
  BY <1>1, <1>4, <1>5 DEF order

\* The node's answer is a group of its mempool: the least closed one exists.
LEMMA AnswerIsGroup ==
    ASSUME NEW t \in nodePool
    PROVE  get_mempool_cluster(t) \in SUBSET nodePool
<1> DEFINE closed(S) == t \in S /\ \A u \in S : Related(u) \subseteq S
           least == {u \in nodePool : \A S \in SUBSET nodePool : closed(S) => u \in S}
<1>1. t \in least
  OBVIOUS
<1>2. ASSUME NEW u \in least PROVE Related(u) \subseteq least
  BY <1>2 DEF Related
<1>3. ASSUME NEW part \in SUBSET least, closed(part) PROVE part = least
  BY <1>3
<1>4. \E group \in SUBSET nodePool :
        /\ t \in group
        /\ \A u \in group : Related(u) \subseteq group
        /\ \A part \in SUBSET group :
              t \in part /\ (\A u \in part : Related(u) \subseteq part) => part = group
  <2> HIDE DEF least
  <2>1. least \in SUBSET nodePool
    BY DEF least
  <2> QED
    BY <1>1, <1>2, <1>3, <2>1
<1>5. Component(t) \in SUBSET nodePool
  BY <1>4 DEF Component
<1> QED
  BY <1>5 DEF get_mempool_cluster

\* Fresh ids follow the ones in use, a singleton for each txid.
LEMMA SingletonsAreNew ==
    ASSUME Consistent(db), NEW S \in SUBSET TxId, S # {}, RoomFor(Cardinality(S)),
           Unclaimed(db, S)
    PROVE  LET new == Singletons(S)
           IN  /\ DOMAIN new \subseteq Unused(db)
               /\ \A c \in DOMAIN new : /\ new[c] \subseteq S /\ new[c] # {}
                                        /\ Unclaimed(db, new[c])
               /\ \A c, e \in DOMAIN new : c # e => new[c] \cap new[e] = {}
               /\ \A c \in DOMAIN new, e \in Unused(db) \ DOMAIN new : c < e
<1> DEFINE n == Cardinality(S)
           first == Min(Unused(db))
           order == CHOOSE f \in Injection(1 .. Cardinality(S), S) : TRUE
           new == Singletons(S)
<1>1. IsFiniteSet(S)
  BY StoreAssumption, FS_Subset
<1>2. /\ n \in Nat /\ order \in [1 .. n -> S]
      /\ \A i, j \in 1 .. n : order[i] = order[j] => i = j
  BY <1>1, OrderExists
<1>3. first \in Unused(db) /\ \A c \in Unused(db) : first <= c
  <2>1. Unused(db) \in SUBSET Nat /\ Unused(db) # {}
    BY StoreAssumption DEF RoomFor, Unused, ClusterId
  <2> QED
    BY <2>1, MinIsLeast
<1>4. first \in Nat /\ first >= 1 /\ first + n - 1 <= MaxClusters
  BY <1>3, StoreAssumption DEF RoomFor, Unused, ClusterId
<1>5. new = [c \in first .. first + n - 1 |-> {order[c - first + 1]}]
  BY DEF Singletons
<1> HIDE DEF n, first, order, new
<1>6. DOMAIN new = first .. first + n - 1
  BY <1>5
<1>7. DOMAIN new \subseteq Unused(db)
  BY <1>2, <1>3, <1>4, <1>6, StoreAssumption DEF Consistent, IdsAscend, Unused, ClusterId
<1>8. \A c \in DOMAIN new : c - first + 1 \in 1 .. n /\ new[c] = {order[c - first + 1]}
  BY <1>2, <1>4, <1>5, <1>6
<1>9. \A c \in DOMAIN new : new[c] \subseteq S /\ new[c] # {}
  <2>1. \A i \in 1 .. n : order[i] \in S
    BY <1>2
  <2> QED
    BY <1>8, <2>1
<1>10. \A c \in DOMAIN new : Unclaimed(db, new[c])
  BY <1>9 DEF Unclaimed
<1>11. ASSUME NEW c \in DOMAIN new, NEW e \in DOMAIN new, c # e
       PROVE  new[c] \cap new[e] = {}
  <2>1. c - first + 1 # e - first + 1
    BY <1>2, <1>4, <1>6, <1>11
  <2>2. order[c - first + 1] # order[e - first + 1]
    BY <1>2, <1>8, <2>1
  <2> QED
    BY <1>8, <2>2
<1>12. \A c \in DOMAIN new, e \in Unused(db) \ DOMAIN new : c < e
  BY <1>2, <1>3, <1>4, <1>6, StoreAssumption DEF Unused, ClusterId
<1> QED
  BY <1>7, <1>9, <1>10, <1>11, <1>12 DEF new

(***************************************************************************)
(* The invariant.                                                          *)
(***************************************************************************)
PlainJob == [op : {"confirmed", "evicted", "block"}, txids : SUBSET TxId]
AskJob == [op : {"ask"}, pending : SUBSET TxId, covered : SUBSET TxId, fresh : SUBSET TxId,
           answer : {<<>>} \cup (TxId \X SUBSET TxId)]
AnyJob == PlainJob \cup AskJob

NodeInv ==
    /\ nodePool \in SUBSET TxId
    /\ chain \in Seq(SUBSET TxId)
    /\ stored \in 0 .. Len(chain)

LedgerInv ==
    /\ live \in SUBSET TxId /\ toAdd \in SUBSET TxId /\ toRemove \in SUBSET TxId
    /\ eventual \in SUBSET TxId /\ resident \in SUBSET TxId

\* A block job holds mined txids, and no active cluster has any of the singletons
\* that the job in hand has collected.
BlockIsMined(j) == j.op = "block" => j.txids \subseteq Mined(stored)

JobsInv ==
    /\ jobs \in Seq(AnyJob)
    /\ \A i \in DOMAIN jobs : BlockIsMined(jobs[i])
    /\ \A i \in DOMAIN jobs : jobs[i].op = "ask" =>
          IF i = 1 THEN Unclaimed(db, jobs[i].fresh) ELSE jobs[i].fresh = {}

TablesInv ==
    /\ Consistent(db)
    /\ \A c \in ClusterId : db.status[c] = "confirmed" => db.txids[c] \subseteq Mined(stored)
    /\ \A c \in Active(db) : db.txids[c] # {}

Inv == NodeInv /\ LedgerInv /\ JobsInv /\ TablesInv

(***************************************************************************)
(* The queue.                                                              *)
(***************************************************************************)
LEMMA MinedIs ==
    ASSUME NEW n, NEW t
    PROVE  t \in Mined(n) <=> \E h \in 1 .. n : t \in chain[h]
BY DEF Mined

\* Mined(stored) depends on the chain and on stored alone.
LEMMA MinedSame ==
    ASSUME chain' = chain, stored' = stored
    PROVE  Mined(stored)' = Mined(stored)
BY DEF Mined

\* What the first job is, and what the others are.
LEMMA HeadIsJob ==
    ASSUME JobsInv, jobs # <<>>
    PROVE  /\ Head(jobs) = jobs[1] /\ 1 \in DOMAIN jobs
           /\ Head(jobs) \in AnyJob
           /\ Head(jobs).op = "ask" => Head(jobs) \in AskJob
           /\ Head(jobs).op # "ask" => Head(jobs) \in PlainJob
           /\ Tail(jobs) \in Seq(AnyJob) /\ Len(Tail(jobs)) = Len(jobs) - 1
           /\ \A i \in DOMAIN Tail(jobs) : i + 1 \in DOMAIN jobs /\ Tail(jobs)[i] = jobs[i + 1]
<1>1. jobs \in Seq(AnyJob)
  BY DEF JobsInv
<1>2. Head(jobs) = jobs[1] /\ 1 \in DOMAIN jobs /\ Head(jobs) \in AnyJob
  BY <1>1
<1>3. /\ Tail(jobs) \in Seq(AnyJob) /\ Len(Tail(jobs)) = Len(jobs) - 1
      /\ \A i \in DOMAIN Tail(jobs) : i + 1 \in DOMAIN jobs /\ Tail(jobs)[i] = jobs[i + 1]
  BY <1>1
<1>4. \A j \in AnyJob : (j.op = "ask" => j \in AskJob) /\ (j.op # "ask" => j \in PlainJob)
  BY DEF AnyJob, AskJob, PlainJob
<1> QED
  BY <1>2, <1>3, <1>4

\* A job is replaced by the jobs it leads to.
LEMMA JobsPushed ==
    ASSUME JobsInv, jobs # <<>>, chain' = chain, stored' = stored,
           NEW js \in Seq(AnyJob), jobs' = js \o Tail(jobs),
           \A i \in DOMAIN js : BlockIsMined(js[i]),
           \A i \in DOMAIN js : js[i].op = "ask" =>
              IF i = 1 THEN Unclaimed(db', js[i].fresh) ELSE js[i].fresh = {}
    PROVE  JobsInv'
<1> DEFINE rest == Tail(jobs)
<1>1. /\ rest \in Seq(AnyJob)
      /\ \A i \in DOMAIN rest : i + 1 \in DOMAIN jobs /\ rest[i] = jobs[i + 1]
  BY HeadIsJob
<1>2. \A i \in DOMAIN rest : BlockIsMined(rest[i]) /\ (rest[i].op = "ask" => rest[i].fresh = {})
  BY <1>1 DEF JobsInv
<1> HIDE DEF rest
<1>3. /\ jobs' \in Seq(AnyJob) /\ DOMAIN jobs' = 1 .. Len(js) + Len(rest)
      /\ \A i \in DOMAIN jobs' : \/ i \in DOMAIN js /\ jobs'[i] = js[i]
                                 \/ i - Len(js) \in DOMAIN rest /\ jobs'[i] = rest[i - Len(js)]
  BY <1>1 DEF rest
<1>4. ASSUME NEW i \in DOMAIN jobs'
      PROVE  /\ BlockIsMined(jobs'[i])
             /\ jobs'[i].op = "ask" =>
                  IF i = 1 THEN Unclaimed(db', jobs'[i].fresh) ELSE jobs'[i].fresh = {}
  <2>1. CASE i \in DOMAIN js /\ jobs'[i] = js[i]
    BY <2>1
  <2>2. CASE i - Len(js) \in DOMAIN rest /\ jobs'[i] = rest[i - Len(js)]
    BY <1>2, <2>2 DEF Unclaimed
  <2> QED
    BY <1>3, <2>1, <2>2
<1>5. \A i \in DOMAIN jobs' : BlockIsMined(jobs[i])'
  BY <1>4, MinedSame DEF BlockIsMined
<1>6. \A i \in DOMAIN jobs' : jobs'[i].op = "ask" =>
        IF i = 1 THEN Unclaimed(db, jobs[i].fresh)' ELSE jobs'[i].fresh = {}
  BY <1>4 DEF Unclaimed, Active
<1> QED
  BY <1>3, <1>5, <1>6 DEF JobsInv

\* ... or by none.
LEMMA JobDone ==
    ASSUME JobsInv, jobs # <<>>, chain' = chain, stored' = stored, jobs' = Tail(jobs)
    PROVE  JobsInv'
<1>1. jobs' = <<>> \o Tail(jobs) /\ <<>> \in Seq(AnyJob) /\ DOMAIN <<>> = {}
  BY HeadIsJob
<1> QED
  BY <1>1, JobsPushed

\* ... or by one.
LEMMA JobReplaced ==
    ASSUME JobsInv, jobs # <<>>, chain' = chain, stored' = stored,
           NEW j \in AskJob, jobs' = <<j>> \o Tail(jobs), Unclaimed(db', j.fresh)
    PROVE  JobsInv'
<1>1. <<j>> \in Seq(AnyJob) /\ DOMAIN <<j>> = {1} /\ <<j>>[1] = j
  BY DEF AnyJob
<1>2. BlockIsMined(j)
  BY DEF BlockIsMined, AskJob
<1> QED
  BY <1>1, <1>2, JobsPushed

(***************************************************************************)
(* Steps that leave the tables alone.                                      *)
(***************************************************************************)
LEMMA MoreMined ==
    ASSUME JobsInv, TablesInv, Mined(stored) \subseteq Mined(stored)', db' = db
    PROVE  TablesInv' /\ (jobs' = jobs => JobsInv')
<1>1. TablesInv'
  BY DEF TablesInv, Consistent, Active, LiveIsCurrent, Linked, IdsAscend
<1>2. ASSUME jobs' = jobs PROVE JobsInv'
  BY <1>2 DEF JobsInv, BlockIsMined, Unclaimed, Active
<1> QED
  BY <1>1, <1>2

\* The ledger holds txids only.
LEMMA LedgerStays ==
    ASSUME LedgerInv, resident' = resident, NEW a \in SUBSET TxId, NEW r \in SUBSET TxId,
           LedgerMoves(a, r)
    PROVE  LedgerInv'
BY DEF LedgerInv, LedgerMoves

\* The node adds to its chain, so what was mined stays mined.
LEMMA NodeChangesKeeps == Inv /\ NodeChanges => Inv'
<1> SUFFICES ASSUME Inv, NodeChanges PROVE Inv'
  OBVIOUS
<1> USE DEF Inv
<1>1. /\ nodePool' \in SUBSET TxId
      /\ chain' = chain \/ \E block \in SUBSET TxId : chain' = Append(chain, block)
  BY DEF NodeChanges, NodeInv
<1>2. chain' \in Seq(SUBSET TxId) /\ Len(chain') >= Len(chain)
      /\ \A h \in 1 .. Len(chain) : chain'[h] = chain[h]
  BY <1>1 DEF NodeInv
<1>3. stored' = stored /\ UNCHANGED <<ledgerVars, resident, db, jobs>>
  BY DEF NodeChanges, roundVars
<1>4. NodeInv'
  BY <1>1, <1>2, <1>3 DEF NodeInv
<1>5. Mined(stored)' = Mined(stored)
  <2>1. \A h \in 1 .. stored : chain'[h] = chain[h]
    BY <1>2 DEF NodeInv
  <2> QED
    BY ONLY <1>3, <2>1 DEF Mined
<1> QED
  BY <1>3, <1>4, <1>5, MoreMined DEF LedgerInv, ledgerVars

\* A poll changes the ledger only.
LEMMA PollNodeKeeps == Inv /\ PollNode => Inv'
<1> SUFFICES ASSUME Inv, PollNode PROVE Inv'
  OBVIOUS
<1>1. UNCHANGED <<nodePool, chain, stored, resident, db, jobs>>
  BY DEF PollNode, nodeVars, roundVars
<1>2. LedgerInv'
  BY <1>1, LedgerStays DEF PollNode, Inv, NodeInv, LedgerInv
<1> QED
  BY <1>1, <1>2, MinedSame, MoreMined DEF Inv, NodeInv

\* A round of a tick starts with three jobs and no singletons.
LEMMA SyncKeeps == Inv /\ sync_clusters_after_flush => Inv'
<1> SUFFICES ASSUME Inv, sync_clusters_after_flush PROVE Inv'
  OBVIOUS
<1> USE DEF Inv
<1>1. UNCHANGED <<nodePool, chain, stored, db>> /\ Mined(stored)' = Mined(stored)
  BY MinedSame DEF sync_clusters_after_flush, nodeVars
<1>2. NodeInv' /\ LedgerInv'
  BY <1>1 DEF sync_clusters_after_flush, NodeInv, LedgerInv
<1>3. JobsInv'
  <2> DEFINE a == Job("confirmed", toRemove \cap Mined(stored))
             b == Job("evicted", toRemove \ Mined(stored))
             k == handle_candidates(toAdd)
  <2>1. a \in AnyJob /\ b \in AnyJob /\ k \in AnyJob /\ k.fresh = {}
        /\ a.op = "confirmed" /\ b.op = "evicted" /\ k.op = "ask"
    BY DEF LedgerInv, Job, handle_candidates, Ask, AnyJob, PlainJob, AskJob
  <2>2. jobs' = <<a, b, k>>
    BY DEF sync_clusters_after_flush
  <2> HIDE DEF a, b, k
  <2>3. /\ jobs' \in Seq(AnyJob) /\ DOMAIN jobs' = 1 .. 3
        /\ jobs'[1] = a /\ jobs'[2] = b /\ jobs'[3] = k
    BY <2>1, <2>2
  <2> QED
    BY <2>1, <2>3 DEF JobsInv, BlockIsMined
<1> QED
  BY <1>1, <1>2, <1>3, MoreMined

\* A block's round starts with txids that are mined by then.
LEMMA ApplyBlockKeeps == Inv /\ apply_block => Inv'
<1> SUFFICES ASSUME Inv, apply_block PROVE Inv'
  OBVIOUS
<1> USE DEF Inv
<1> DEFINE block == chain[stored + 1]
<1>1. /\ UNCHANGED <<nodePool, chain, resident, db>> /\ stored' = stored + 1
      /\ jobs' = <<Job("block", block)>> /\ LedgerMoves({}, block)
  BY DEF apply_block, nodeVars, assert_absent
<1>2. NodeInv' /\ block \in SUBSET TxId /\ stored \in Nat
  BY <1>1 DEF apply_block, NodeInv
<1>3. Mined(stored) \subseteq Mined(stored)' /\ block \subseteq Mined(stored)'
  <2>1. \A t : t \in Mined(stored)' <=> \E h \in 1 .. stored + 1 : t \in chain[h]
    BY <1>1 DEF Mined
  <2> QED
    BY <1>2, <2>1, MinedIs
<1>4. JobsInv'
  <2>1. Job("block", block) \in AnyJob /\ Job("block", block).op = "block"
        /\ Job("block", block).txids = block
    BY <1>2 DEF Job, AnyJob, PlainJob
  <2>2. /\ jobs' \in Seq(AnyJob) /\ DOMAIN jobs' = {1}
        /\ jobs'[1] = Job("block", block)
    BY <1>1, <2>1
  <2> QED
    BY <1>3, <2>1, <2>2 DEF JobsInv, BlockIsMined
<1>5. LedgerInv'
  <2>1. {} \in SUBSET TxId
    OBVIOUS
  <2> QED
    BY <1>1, <1>2, <2>1, LedgerStays
<1> QED
  BY <1>1, <1>2, <1>3, <1>4, <1>5, MoreMined

\* These steps keep the tables and keep or empty the queue.
LEMMA RestKeeps == Inv /\ (publish_delta \/ Bootstrap \/ Crash) => Inv'
<1> SUFFICES ASSUME Inv, publish_delta \/ Bootstrap \/ Crash PROVE Inv'
  OBVIOUS
<1> USE DEF Inv
<1>1. UNCHANGED <<nodePool, chain, stored, db, resident>> /\ Mined(stored)' = Mined(stored)
  BY MinedSame DEF publish_delta, Bootstrap, Crash, nodeVars
<1>2. NodeInv' /\ LedgerInv'
  BY <1>1 DEF publish_delta, Bootstrap, Crash, NodeInv, LedgerInv, ledgerVars
<1>3. jobs' = jobs \/ jobs' = <<>>
  BY DEF publish_delta, Bootstrap, Crash, roundVars
<1>4. JobsInv'
  <2>1. CASE jobs' = jobs
    BY <1>1, <2>1, MoreMined
  <2>2. CASE jobs' = <<>>
    BY <2>2 DEF JobsInv
  <2> QED
    BY <1>3, <2>1, <2>2
<1> QED
  BY <1>1, <1>2, <1>4, MoreMined

(***************************************************************************)
(* What the snapshot will be once the round's changes are published, and   *)
(* that a step records all that it does to the tables.                     *)
(***************************************************************************)
Published(ch, s, c) ==
    IF c \in ch.removed THEN {} ELSE IF ch.upserted[c] # {} THEN ch.upserted[c] ELSE s[c]
Holds(d, c) == IF c \in Active(d) THEN d.txids[c] ELSE {}

ChangeSet == [upserted : [ClusterId -> SUBSET TxId], removed : SUBSET ClusterId]

Recorded ==
    changes \in ChangeSet =>
        /\ changes' \in ChangeSet
        /\ \A c \in ClusterId : Published(changes, snapshot, c) = Holds(db, c) =>
              Published(changes', snapshot', c) = Holds(db', c)

\* mark_upserted and mark_removed record a step, if they name every cluster
\* that it changes and call removed only what is not active any more.
LEMMA MarkedRecords ==
    ASSUME TablesInv', snapshot' = snapshot,
           NEW upserted \in SUBSET ClusterId, NEW removed \in SUBSET ClusterId,
           changes' = Marked(changes, db', upserted, removed),
           \A c \in removed : c \notin Active(db'),
           \A c \in ClusterId \ (upserted \cup removed) :
              db'.status[c] = db.status[c] /\ db'.txids[c] = db.txids[c]
    PROVE  Recorded
<1> SUFFICES ASSUME changes \in ChangeSet
             PROVE  /\ changes' \in ChangeSet
                    /\ \A c \in ClusterId : Published(changes, snapshot, c) = Holds(db, c) =>
                          Published(changes', snapshot', c) = Holds(db', c)
  BY DEF Recorded
<1> DEFINE gone == removed \cup (upserted \ Active(db'))
<1>1. db' \in Tables /\ \A c \in Active(db') : db'.txids[c] # {}
  BY DEF TablesInv, Consistent, Active
<1>2. /\ changes'.upserted = [c \in ClusterId |-> IF c \in gone THEN {}
                                                  ELSE IF c \in upserted THEN db'.txids[c]
                                                  ELSE changes.upserted[c]]
      /\ changes'.removed = (changes.removed \ upserted) \cup gone
      /\ changes' = [upserted |-> changes'.upserted, removed |-> changes'.removed]
  BY DEF Marked
<1>3. changes' \in ChangeSet
  <2>1. \A c \in ClusterId : db'.txids[c] \in SUBSET TxId /\ changes.upserted[c] \in SUBSET TxId
    BY <1>1 DEF Tables, ChangeSet
  <2>2. changes'.upserted \in [ClusterId -> SUBSET TxId]
    BY <1>2, <2>1
  <2>3. changes'.removed \in SUBSET ClusterId
    BY <1>2 DEF ChangeSet
  <2> QED
    BY <1>2, <2>2, <2>3 DEF ChangeSet
<1>4. ASSUME NEW c \in ClusterId, Published(changes, snapshot, c) = Holds(db, c)
      PROVE  Published(changes', snapshot', c) = Holds(db', c)
  <2>1. CASE c \in gone
    BY <1>2, <2>1 DEF Published, Holds
  <2>2. CASE c \in upserted /\ c \notin gone
    BY <1>1, <1>2, <2>2 DEF Published, Holds
  <2>3. CASE c \notin upserted /\ c \notin gone
    <3>1. changes'.upserted[c] = changes.upserted[c] /\ (c \in changes'.removed <=> c \in changes.removed)
      BY <1>2, <2>3
    <3>2. Holds(db', c) = Holds(db, c)
      BY <2>3 DEF Holds, Active
    <3> QED
      BY <1>4, <3>1, <3>2 DEF Published
  <2> QED
    BY <2>1, <2>2, <2>3
<1> QED
  BY <1>3, <1>4

\* ... in particular one that only upserts.
LEMMA InsertRecords ==
    ASSUME TablesInv', snapshot' = snapshot, NEW ids \in SUBSET ClusterId,
           changes' = Marked(changes, db', ids, {}),
           \A c \in ClusterId \ ids : db'.status[c] = db.status[c] /\ db'.txids[c] = db.txids[c]
    PROVE  Recorded
<1> DEFINE none == {}
<1>1. none \in SUBSET ClusterId /\ \A c \in none : c \notin Active(db')
  OBVIOUS
<1>2. \A c \in ClusterId \ (ids \cup none) :
        db'.status[c] = db.status[c] /\ db'.txids[c] = db.txids[c]
  OBVIOUS
<1>3. changes' = Marked(changes, db', ids, none)
  OBVIOUS
<1> HIDE DEF none
<1> QED
  BY <1>1, <1>2, <1>3, MarkedRecords

\* A step that leaves the tables alone need not record anything.
LEMMA NothingToRecord ==
    ASSUME UNCHANGED <<db, changes, snapshot>>
    PROVE  Recorded
BY DEF Recorded
=============================================================================
