------------------------- MODULE ClusterSyncRounds --------------------------
(***************************************************************************)
(* The steps of a round keep the invariant and record what they change.    *)
(***************************************************************************)
EXTENDS ClusterSyncLemmas

\* The lookup by the live flag finds the active clusters that have some of the
\* txids, and these are what is loaded.
LEMMA FoundAreActive ==
    ASSUME Consistent(db), NEW txids
    PROVE  LET ids == find_active_ids_by_txids(db, txids)
           IN  /\ ids = {c \in Active(db) : db.txids[c] \cap txids # {}}
               /\ find_by_ids(db, ids) = [c \in ids |-> db.txids[c]]
<1>1. find_active_ids_by_txids(db, txids) = {c \in Active(db) : db.txids[c] \cap txids # {}}
  BY DEF find_active_ids_by_txids, Consistent, LiveIsCurrent, Active
<1>2. find_active_ids_by_txids(db, txids) \ Unused(db) = find_active_ids_by_txids(db, txids)
  BY <1>1 DEF Active, Unused
<1> QED
  BY <1>1, <1>2 DEF find_by_ids, load_clusters

\* handle_confirmed hands confirm_mined_inner mined txids.
LEMMA BlocksAreMined ==
    ASSUME NodeInv, NEW txids \in SUBSET TxId
    PROVE  LET blocks == by_block(find_mined_by_txids(txids))
           IN  /\ \E n \in Nat : DOMAIN blocks = 1 .. n
               /\ blocks = [i \in DOMAIN blocks |-> blocks[i]]
               /\ \A i \in DOMAIN blocks : blocks[i] \subseteq TxId /\ blocks[i] \subseteq Mined(stored)
<1> DEFINE rows == find_mined_by_txids(txids)
           heights == {row[1] : row \in rows}
           blocks == by_block(rows)
           below(h) == Cardinality({k \in heights : k < h})
<1>1. \A row \in rows : row[1] \in 1 .. stored /\ row[2] \in txids /\ row[2] \in chain[row[1]]
  BY DEF find_mined_by_txids
<1>2. Cardinality(heights) \in Nat
  <2>1. heights \in SUBSET (1 .. stored)
    BY <1>1
  <2>2. IsFiniteSet(1 .. stored)
    BY FS_Interval DEF NodeInv
  <2> QED
    BY <2>1, <2>2, FS_Subset, FS_CardinalityType
<1>3. blocks = [i \in 1 .. Cardinality(heights) |->
                  {row[2] : row \in {r \in rows : below(r[1]) = i - 1}}]
  BY DEF by_block
<1>4. \A row \in rows : row[2] \in TxId /\ row[2] \in Mined(stored)
  BY <1>1, MinedIs
<1> HIDE DEF rows, heights, blocks, below
<1>5. \A i \in DOMAIN blocks : blocks[i] \subseteq TxId /\ blocks[i] \subseteq Mined(stored)
  BY <1>3, <1>4
<1> QED
  BY <1>2, <1>3, <1>5 DEF rows, blocks

\* handle_confirmed only queues block jobs.
LEMMA ConfirmedKeeps == Inv /\ handle_confirmed => Inv' /\ Recorded
<1> SUFFICES ASSUME Inv, handle_confirmed PROVE Inv' /\ Recorded
  OBVIOUS
<1> USE DEF Inv
<1> DEFINE ids == find_active_ids_by_txids(db, Head(jobs).txids)
           members == UNION Range(find_by_ids(db, ids))
           blocks == by_block(find_mined_by_txids(members))
           js == [i \in DOMAIN blocks |-> Job("block", blocks[i])]
<1>1. /\ UNCHANGED <<nodePool, chain, stored, resident, db, changes, snapshot>>
      /\ UNCHANGED ledgerVars /\ jobs # <<>>
      /\ jobs' = js \o Tail(jobs) \/ jobs' = Tail(jobs)
  BY DEF handle_confirmed, roundRest, nodeVars
<1>2. members \in SUBSET TxId
  <2>1. find_by_ids(db, ids) = [c \in ids |-> db.txids[c]] /\ ids \subseteq ClusterId
    BY FoundAreActive DEF TablesInv, Active
  <2>2. \A c \in ids : db.txids[c] \in SUBSET TxId
    BY <2>1 DEF TablesInv, Consistent, Tables
  <2> HIDE DEF ids
  <2> QED
    BY <2>1, <2>2 DEF Range
<1>3. /\ \E n \in Nat : DOMAIN blocks = 1 .. n
      /\ \A i \in DOMAIN blocks : blocks[i] \subseteq TxId /\ blocks[i] \subseteq Mined(stored)
  BY <1>2, BlocksAreMined
<1> HIDE DEF blocks
<1>4. /\ js \in Seq(AnyJob)
      /\ \A i \in DOMAIN js : js[i].op = "block" /\ BlockIsMined(js[i])
  <2>1. \A i \in DOMAIN blocks : /\ Job("block", blocks[i]) \in AnyJob
                                 /\ Job("block", blocks[i]).op = "block"
                                 /\ BlockIsMined(Job("block", blocks[i]))
    BY <1>3 DEF Job, AnyJob, PlainJob, BlockIsMined
  <2>2. DOMAIN js = DOMAIN blocks /\ \A i \in DOMAIN js : js[i] = Job("block", blocks[i])
    OBVIOUS
  <2>3. js \in Seq(AnyJob)
    BY <1>3, <2>1
  <2> QED
    BY <2>1, <2>2, <2>3
<1> HIDE DEF js
<1>5. JobsInv'
  <2>1. CASE jobs' = js \o Tail(jobs)
    BY <1>1, <1>4, <2>1, JobsPushed
  <2>2. CASE jobs' = Tail(jobs)
    BY <1>1, <2>2, JobDone
  <2> QED
    BY <1>1, <2>1, <2>2
<1>6. NodeInv' /\ LedgerInv' /\ TablesInv'
  BY <1>1, MinedSame, MoreMined DEF NodeInv, LedgerInv, ledgerVars
<1> QED
  BY <1>1, <1>5, <1>6, NothingToRecord

\* A new queue has no singletons.
LEMMA AskIsJob ==
    ASSUME NEW txids \in SUBSET TxId, NEW covered \in SUBSET TxId
    PROVE  Ask(txids, covered) \in AskJob /\ Ask(txids, covered).fresh = {}
BY DEF Ask, AskJob

\* confirm_mined_inner: what is confirmed or trimmed keeps mined members only.
LEMMA ConfirmMinedKeeps == Inv /\ confirm_mined_inner => Inv' /\ Recorded
<1> SUFFICES ASSUME Inv, confirm_mined_inner PROVE Inv' /\ Recorded
  OBVIOUS
<1> USE DEF Inv
<1> DEFINE block == Head(jobs).txids
           clusters == find_by_ids(db, find_active_ids_by_txids(db, block))
           full == {c \in DOMAIN clusters : MinedWhole(clusters[c], block)}
           trims == [c \in DOMAIN clusters \ full |-> MinedTrim(clusters[c], block)]
           pend(trimming) == UNION {trims[c].pending : c \in trimming}
<1>1. /\ UNCHANGED <<nodePool, chain, stored, resident, snapshot>>
      /\ UNCHANGED ledgerVars /\ jobs # <<>> /\ Head(jobs).op = "block"
  BY DEF confirm_mined_inner, roundRest, nodeVars
<1>2. PICK confirming \in SUBSET full, trimming \in SUBSET DOMAIN trims :
        /\ db' = trim_and_confirm_many(confirm_many(db, confirming),
                                       [c \in trimming |-> trims[c].mined])
        /\ changes' = Marked(changes, db', {}, confirming \cup trimming)
        /\ \/ trimming = {} /\ jobs' = <<>> \o Tail(jobs)
           \/ trimming # {} /\ jobs' = <<handle_candidates(pend(trimming))>> \o Tail(jobs)
  <2>1. PICK failing \in SUBSET (Faults \cap {"lookup", "confirm", "trim"}) :
          LET confirming == IF failing \cap {"lookup", "confirm"} = {} THEN full ELSE {}
              trimming == IF failing \cap {"lookup", "trim"} = {} THEN DOMAIN trims ELSE {}
          IN  /\ db' = trim_and_confirm_many(confirm_many(db, confirming),
                                             [c \in trimming |-> trims[c].mined])
              /\ changes' = Marked(changes, db', {}, confirming \cup trimming)
              /\ jobs' = (IF trimming = {} THEN <<>>
                          ELSE <<handle_candidates(pend(trimming))>>) \o Tail(jobs)
    BY DEF confirm_mined_inner
  <2> HIDE DEF full, trims, pend
  <2> DEFINE some == IF failing \cap {"lookup", "confirm"} = {} THEN full ELSE {}
             part == IF failing \cap {"lookup", "trim"} = {} THEN DOMAIN trims ELSE {}
  <2>2. some \in SUBSET full /\ part \in SUBSET DOMAIN trims
    OBVIOUS
  <2>3. /\ db' = trim_and_confirm_many(confirm_many(db, some), [c \in part |-> trims[c].mined])
        /\ changes' = Marked(changes, db', {}, some \cup part)
        /\ \/ part = {} /\ jobs' = <<>> \o Tail(jobs)
           \/ part # {} /\ jobs' = <<handle_candidates(pend(part))>> \o Tail(jobs)
    BY <2>1
  <2> HIDE DEF some, part
  <2> QED
    BY <2>2, <2>3
<1>3. /\ DOMAIN clusters \subseteq Active(db)
      /\ \A c \in DOMAIN clusters : clusters[c] = db.txids[c]
  <2> DEFINE ids == find_active_ids_by_txids(db, block)
  <2>1. ids \subseteq Active(db) /\ clusters = [c \in ids |-> db.txids[c]]
    BY FoundAreActive DEF TablesInv
  <2> HIDE DEF ids, clusters
  <2> QED
    BY <2>1
<1>4. block \subseteq Mined(stored)
  BY <1>1, HeadIsJob DEF JobsInv, BlockIsMined
<1> HIDE DEF clusters, block
<1>5. /\ \A c \in full : db.txids[c] \subseteq block
      /\ \A c \in DOMAIN trims : /\ trims[c].mined = db.txids[c] \cap block
                                 /\ trims[c].pending = db.txids[c] \ block
      /\ full \subseteq Active(db) /\ DOMAIN trims \subseteq Active(db)
      /\ full \cap DOMAIN trims = {}
  BY <1>3 DEF MinedWhole, MinedTrim
<1> HIDE DEF full, trims
<1> DEFINE d == confirm_many(db, confirming)
           updates == [c \in trimming |-> trims[c].mined]
<1>6. /\ Consistent(d)
      /\ \A c \in ClusterId : d.txids[c] = db.txids[c]
      /\ \A c \in ClusterId : d.status[c] = IF c \in confirming THEN "confirmed" ELSE db.status[c]
  <2>1. confirming \cap Active(db) = confirming
    BY <1>5
  <2> QED
    BY <2>1, ConfirmKeeps DEF TablesInv
<1> HIDE DEF d
<1>7. /\ DOMAIN updates = trimming /\ DOMAIN updates \cap Active(d) = trimming
      /\ trimming \subseteq ClusterId
      /\ \A c \in trimming : updates[c] = db.txids[c] \cap block
  BY <1>5, <1>6 DEF Active
<1>8. \A c \in DOMAIN updates \cap Active(d) : updates[c] \subseteq d.txids[c]
  BY <1>6, <1>7
<1>9. db' = trim_and_confirm_many(d, updates)
  BY <1>2 DEF d
<1> HIDE DEF updates
<1>10. /\ Consistent(db')
       /\ \A c \in ClusterId :
             db'.status[c] = IF c \in trimming THEN "confirmed" ELSE d.status[c]
       /\ \A c \in ClusterId :
             db'.txids[c] = IF c \in trimming THEN updates[c] ELSE d.txids[c]
  BY <1>6, <1>7, <1>8, <1>9, TrimKeeps
<1>11. \A c \in ClusterId :
         /\ db'.status[c] = IF c \in confirming \cup trimming THEN "confirmed" ELSE db.status[c]
         /\ db'.txids[c] = IF c \in trimming THEN db.txids[c] \cap block ELSE db.txids[c]
  BY <1>6, <1>7, <1>10
<1>12. TablesInv'
  <2>1. \A c \in ClusterId : db'.status[c] = "confirmed" => db'.txids[c] \subseteq Mined(stored)
    BY <1>4, <1>5, <1>11 DEF TablesInv
  <2>2. \A c \in Active(db') : db'.txids[c] # {}
    BY <1>11 DEF TablesInv, Active
  <2>3. Consistent(db)'
    BY <1>10 DEF Consistent, LiveIsCurrent, Linked, IdsAscend, Active
  <2>4. Active(db)' = Active(db')
    BY DEF Active
  <2> QED
    BY <1>1, <2>1, <2>2, <2>3, <2>4, MinedSame DEF TablesInv
<1>13. Recorded
  <2>1. confirming \cup trimming \in SUBSET ClusterId /\ {} \in SUBSET ClusterId
    BY <1>5 DEF Active
  <2>2. \A c \in confirming \cup trimming : c \notin Active(db')
    BY <1>11, <2>1 DEF Active
  <2>3. \A c \in ClusterId \ ({} \cup (confirming \cup trimming)) :
          db'.status[c] = db.status[c] /\ db'.txids[c] = db.txids[c]
    BY <1>11
  <2>4. changes' = Marked(changes, db', {}, confirming \cup trimming) /\ snapshot' = snapshot
    BY <1>1, <1>2
  <2> QED
    BY ONLY <1>12, <2>1, <2>2, <2>3, <2>4, MarkedRecords
<1>14. JobsInv'
  <2>1. CASE trimming = {} /\ jobs' = <<>> \o Tail(jobs)
    <3>1. jobs' = Tail(jobs)
      BY <1>1, <2>1, HeadIsJob
    <3> QED
      BY <1>1, <3>1, JobDone
  <2>2. CASE jobs' = <<handle_candidates(pend(trimming))>> \o Tail(jobs)
    <3>1. pend(trimming) \in SUBSET TxId
      <4>1. \A c \in ClusterId : db.txids[c] \in SUBSET TxId
        BY DEF TablesInv, Consistent, Tables
      <4> QED
        BY <1>5, <1>7, <4>1
    <3> HIDE DEF pend
    <3>2. /\ handle_candidates(pend(trimming)) \in AskJob
          /\ handle_candidates(pend(trimming)).fresh = {}
      BY <3>1, AskIsJob DEF handle_candidates
    <3> QED
      BY <1>1, <2>2, <3>2, JobReplaced DEF Unclaimed
  <2> QED
    BY <1>2, <2>1, <2>2
<1>15. NodeInv' /\ LedgerInv'
  BY <1>1 DEF NodeInv, LedgerInv, ledgerVars
<1> QED
  BY <1>12, <1>13, <1>14, <1>15

\* handle_evicted closes active clusters and queues their survivors.
LEMMA EvictedKeeps == Inv /\ handle_evicted => Inv' /\ Recorded
<1> SUFFICES ASSUME Inv, handle_evicted PROVE Inv' /\ Recorded
  OBVIOUS
<1> USE DEF Inv
<1> DEFINE evicted == Head(jobs).txids
           ids == find_active_ids_by_txids(db, evicted)
           remaining(c) == (db.txids[c] \ evicted) \cap live
           emptied == {c \in ids : remaining(c) = {}}
           survivors == UNION {remaining(c) : c \in ids}
           ask == IF survivors = {} THEN <<>> ELSE <<Ask(survivors, evicted)>>
<1>1. /\ UNCHANGED <<nodePool, chain, stored, resident, snapshot>>
      /\ UNCHANGED ledgerVars /\ jobs # <<>> /\ Head(jobs).op = "evicted"
  BY DEF handle_evicted, roundRest, nodeVars
<1>2. \/ /\ db' = close_many(db, emptied, "evicted")
         /\ changes' = Marked(changes, db', {}, emptied)
         /\ jobs' = ask \o Tail(jobs)
      \/ UNCHANGED <<db, changes>> /\ (jobs' = ask \o Tail(jobs) \/ jobs' = Tail(jobs))
  BY DEF handle_evicted
<1>3. evicted \in SUBSET TxId /\ live \in SUBSET TxId
  BY <1>1, HeadIsJob DEF PlainJob, LedgerInv
<1>4. ids \subseteq Active(db) /\ ids \subseteq ClusterId
  BY FoundAreActive DEF TablesInv, Active
<1> HIDE DEF evicted, ids
<1>5. JobsInv'
  <2>1. survivors \in SUBSET TxId
    BY <1>3
  <2> HIDE DEF survivors
  <2>2. CASE jobs' = Tail(jobs)
    BY <1>1, <2>2, JobDone
  <2>3. CASE jobs' = ask \o Tail(jobs) /\ survivors = {}
    <3>1. jobs' = Tail(jobs)
      BY <1>1, <2>3, HeadIsJob
    <3> QED
      BY <2>2, <3>1
  <2>4. CASE jobs' = ask \o Tail(jobs) /\ survivors # {}
    <3>1. jobs' = <<Ask(survivors, evicted)>> \o Tail(jobs)
      BY <2>4
    <3>2. Ask(survivors, evicted) \in AskJob /\ Ask(survivors, evicted).fresh = {}
      BY <1>3, <2>1, AskIsJob
    <3> QED
      BY <1>1, <3>1, <3>2, JobReplaced DEF Unclaimed
  <2> QED
    BY <1>2, <2>2, <2>3, <2>4
<1>6. NodeInv' /\ LedgerInv'
  BY <1>1 DEF NodeInv, LedgerInv, ledgerVars
<1>7. CASE UNCHANGED <<db, changes>>
  BY <1>1, <1>5, <1>6, <1>7, MinedSame, MoreMined, NothingToRecord
<1>8. CASE db' = close_many(db, emptied, "evicted") /\ changes' = Marked(changes, db', {}, emptied)
  <2>1. emptied \subseteq Active(db) /\ emptied \in SUBSET ClusterId /\ {} \in SUBSET ClusterId
    BY <1>4
  <2> HIDE DEF emptied
  <2>2. /\ Consistent(db')
        /\ \A c \in ClusterId :
              /\ db'.status[c] = IF c \in emptied THEN "evicted" ELSE db.status[c]
              /\ db'.txids[c] = db.txids[c]
    <3>1. emptied \cap Active(db) = emptied
      BY <2>1
    <3>2. Consistent(db)
      BY DEF TablesInv
    <3> QED
      BY ONLY <1>8, <3>1, <3>2, CloseKeeps
  <2>3. TablesInv'
    <3>1. \A c \in ClusterId : db'.status[c] = "confirmed" => db'.txids[c] \subseteq Mined(stored)
      BY <2>2 DEF TablesInv
    <3>2. \A c \in Active(db') : db'.txids[c] # {}
      BY <2>2 DEF TablesInv, Active
    <3>3. Consistent(db)' /\ Active(db)' = Active(db')
      BY <2>2 DEF Consistent, LiveIsCurrent, Linked, IdsAscend, Active
    <3> QED
      BY <1>1, <3>1, <3>2, <3>3, MinedSame DEF TablesInv
  <2>4. \A c \in emptied : c \notin Active(db')
    BY <2>1, <2>2 DEF Active
  <2>5. \A c \in ClusterId \ ({} \cup emptied) :
          db'.status[c] = db.status[c] /\ db'.txids[c] = db.txids[c]
    BY <2>2
  <2>6. Recorded
    BY ONLY <1>1, <1>8, <2>1, <2>3, <2>4, <2>5, MarkedRecords
  <2> QED
    BY <1>5, <1>6, <2>3, <2>6
<1> QED
  BY <1>2, <1>7, <1>8

\* The node's answer, whenever it comes, is a group of txids.
LEMMA AskKeeps == Inv /\ AskNode => Inv' /\ Recorded
<1> SUFFICES ASSUME Inv, AskNode PROVE Inv' /\ Recorded
  OBVIOUS
<1> USE DEF Inv
<1>1. /\ UNCHANGED <<nodePool, chain, stored, resident, db, changes, snapshot>>
      /\ UNCHANGED ledgerVars /\ jobs # <<>> /\ Head(jobs).op = "ask"
  BY DEF AskNode, roundRest, nodeVars
<1>2. Head(jobs) \in AskJob /\ Unclaimed(db, Head(jobs).fresh)
  BY <1>1, HeadIsJob DEF JobsInv
<1>3. PICK t \in Head(jobs).pending :
        LET asked == [Head(jobs) EXCEPT !.pending = @ \ {t}]
        IN  \/ jobs' = <<[asked EXCEPT !.answer = <<t, get_mempool_cluster(t)>>]>> \o Tail(jobs)
            \/ jobs' = <<asked>> \o Tail(jobs)
  BY DEF AskNode
<1> DEFINE asked == [Head(jobs) EXCEPT !.pending = @ \ {t}]
           told == [asked EXCEPT !.answer = <<t, get_mempool_cluster(t)>>]
<1>4. asked \in AskJob /\ asked.fresh = Head(jobs).fresh /\ t \in TxId
  BY <1>2 DEF AskJob
<1>5. get_mempool_cluster(t) \in SUBSET TxId
  <2>1. CASE t \in nodePool
    BY <2>1, AnswerIsGroup DEF NodeInv
  <2>2. CASE t \notin nodePool
    BY <2>2 DEF get_mempool_cluster
  <2> QED
    BY <2>1, <2>2
<1>6. told \in AskJob /\ told.fresh = Head(jobs).fresh
  <2> HIDE DEF asked
  <2>1. <<t, get_mempool_cluster(t)>> \in {<<>>} \cup (TxId \X SUBSET TxId)
    BY <1>4, <1>5
  <2> QED
    BY <1>4, <2>1 DEF AskJob
<1> HIDE DEF asked, told
<1>7. JobsInv'
  <2>1. jobs' = <<told>> \o Tail(jobs) \/ jobs' = <<asked>> \o Tail(jobs)
    BY <1>3 DEF asked, told
  <2>2. Unclaimed(db', Head(jobs).fresh)
    BY <1>1, <1>2 DEF Unclaimed, Active
  <2> QED
    BY <1>1, <1>4, <1>6, <2>1, <2>2, JobReplaced
<1> QED
  BY <1>1, <1>7, MinedSame, MoreMined, NothingToRecord DEF NodeInv, LedgerInv, ledgerVars

\* The queue after an answer: its singletons have to be unclaimed in the new tables.
LEMMA AnsweredKeeps ==
    ASSUME JobsInv, jobs # <<>>, chain' = chain, stored' = stored, Head(jobs) \in AskJob,
           NEW covered \in SUBSET TxId, NEW fresh \in SUBSET TxId, NEW detached \in SUBSET TxId,
           jobs' = Answered(covered, fresh, detached), Unclaimed(db', fresh)
    PROVE  JobsInv'
<1> DEFINE j == Head(jobs)
           done == j.covered \cup covered
           next == [j EXCEPT !.answer = <<>>, !.covered = done, !.fresh = fresh,
                             !.pending = (@ \cup detached) \ done]
<1>1. next \in AskJob /\ next.fresh = fresh
  BY DEF AskJob
<1>2. jobs' = <<next>> \o Tail(jobs)
  BY DEF Answered
<1> HIDE DEF next
<1> QED
  BY <1>1, <1>2, JobReplaced

\* A step that only adds one cluster, or a cluster for each of several groups.
LEMMA InsertedKeeps ==
    ASSUME TablesInv, chain' = chain, stored' = stored, NEW new,
           DOMAIN new \subseteq Unused(db),
           \A c \in DOMAIN new : new[c] \subseteq TxId /\ new[c] # {} /\ Unclaimed(db, new[c]),
           \A c, e \in DOMAIN new : c # e => new[c] \cap new[e] = {},
           \A c \in DOMAIN new, e \in Unused(db) \ DOMAIN new : c < e,
           db' = insert_in(db, new)
    PROVE  /\ TablesInv'
           /\ \A c \in ClusterId :
                 /\ db'.status[c] = IF c \in DOMAIN new THEN "active" ELSE db.status[c]
                 /\ db'.txids[c] = IF c \in DOMAIN new THEN new[c] ELSE db.txids[c]
           /\ \A c \in ClusterId \ DOMAIN new :
                 db'.status[c] = db.status[c] /\ db'.txids[c] = db.txids[c]
<1>1. /\ Consistent(db')
      /\ \A c \in ClusterId :
            /\ db'.status[c] = IF c \in DOMAIN new THEN "active" ELSE db.status[c]
            /\ db'.txids[c] = IF c \in DOMAIN new THEN new[c] ELSE db.txids[c]
  <2>1. Consistent(db)
    BY DEF TablesInv
  <2>2. \A c \in DOMAIN new : new[c] \subseteq TxId /\ Unclaimed(db, new[c])
    OBVIOUS
  <2> QED
    BY <2>1, <2>2, InsertKeeps
<1>2. \A c \in ClusterId : db'.status[c] = "confirmed" => db'.txids[c] \subseteq Mined(stored)
  BY <1>1 DEF TablesInv
<1>3. \A c \in Active(db') : db'.txids[c] # {}
  BY <1>1 DEF TablesInv, Active
<1>4. Consistent(db)' /\ Active(db)' = Active(db')
  BY <1>1 DEF Consistent, LiveIsCurrent, Linked, IdsAscend, Active
<1>5. TablesInv'
  BY <1>2, <1>3, <1>4, MinedSame DEF TablesInv
<1> QED
  BY <1>1, <1>5

\* The first branch of upsert: no cluster has any of the group.
LEMMA UpsertInserts ==
    ASSUME JobsInv, TablesInv, jobs # <<>>, chain' = chain, stored' = stored,
           snapshot' = snapshot, Head(jobs) \in AskJob, Unclaimed(db, Head(jobs).fresh),
           NEW group \in SUBSET TxId, group # {}, Unclaimed(db, group), RoomFor(1),
           NEW id, id = Min(Unused(db)),
           db' = insert_in(db, [c \in {id} |-> group]),
           changes' = Marked(changes, db', {id}, {}),
           jobs' = Answered(group, Head(jobs).fresh \ group, {})
    PROVE  TablesInv' /\ JobsInv' /\ Recorded
<1> DEFINE new == [c \in {id} |-> group]
           fresh == Head(jobs).fresh \ group
<1>1. id \in Unused(db) /\ \A c \in Unused(db) : id <= c
  <2>1. Unused(db) \in SUBSET Nat
    BY ONLY StoreAssumption DEF Unused, ClusterId
  <2>2. Unused(db) # {}
    BY DEF RoomFor
  <2> QED
    BY ONLY <2>1, <2>2, id = Min(Unused(db)), MinIsLeast
<1>2. /\ DOMAIN new = {id} /\ new[id] = group /\ DOMAIN new \subseteq Unused(db)
      /\ \A c \in DOMAIN new, e \in Unused(db) \ DOMAIN new : c < e
  <2>1. DOMAIN new = {id} /\ new[id] = group
    OBVIOUS
  <2> HIDE DEF new
  <2>2. \A e \in Unused(db) : e \in Nat
    BY ONLY StoreAssumption DEF Unused, ClusterId
  <2> QED
    BY ONLY <1>1, <2>1, <2>2
<1>3. db' = insert_in(db, new)
  OBVIOUS
<1> HIDE DEF new
<1>4. /\ \A c \in DOMAIN new : new[c] \subseteq TxId /\ new[c] # {} /\ Unclaimed(db, new[c])
      /\ \A c, e \in DOMAIN new : c # e => new[c] \cap new[e] = {}
  BY <1>2
<1>5. /\ TablesInv'
      /\ \A c \in ClusterId :
            /\ db'.status[c] = IF c \in DOMAIN new THEN "active" ELSE db.status[c]
            /\ db'.txids[c] = IF c \in DOMAIN new THEN new[c] ELSE db.txids[c]
      /\ \A c \in ClusterId \ DOMAIN new :
            db'.status[c] = db.status[c] /\ db'.txids[c] = db.txids[c]
  BY <1>2, <1>3, <1>4, InsertedKeeps
<1>6. Unclaimed(db', fresh)
  <2>1. \A c \in Active(db') : c = id \/ c \in Active(db)
    BY ONLY <1>2, <1>5 DEF Active
  <2>2. \A c \in Active(db') : db'.txids[c] = IF c = id THEN group ELSE db.txids[c]
    BY ONLY <1>2, <1>5 DEF Active
  <2> QED
    BY <2>1, <2>2 DEF Unclaimed
<1>7. JobsInv'
  <2>1. fresh \in SUBSET TxId /\ {} \in SUBSET TxId
    BY DEF AskJob
  <2> QED
    BY <1>6, <2>1, AnsweredKeeps
<1>8. Recorded
  <2>1. DOMAIN new \in SUBSET ClusterId
    BY <1>1, <1>2 DEF Unused
  <2>2. changes' = Marked(changes, db', DOMAIN new, {}) /\ snapshot' = snapshot
    BY <1>2
  <2> QED
    BY ONLY <1>5, <2>1, <2>2, InsertRecords
<1> QED
  BY <1>5, <1>7, <1>8

\* The others: the clusters that have some of it become one.
LEMMA UpsertMerges ==
    ASSUME JobsInv, TablesInv, jobs # <<>>, chain' = chain, stored' = stored,
           snapshot' = snapshot, Head(jobs) \in AskJob, Unclaimed(db, Head(jobs).fresh),
           NEW group \in SUBSET TxId, group # {},
           NEW ids, ids = {c \in Active(db) : db.txids[c] \cap group # {}},
           NEW keep \in ids, NEW merged, merged = close_many(db, ids \ {keep}, "merged"),
           \/ /\ db' = replace_chunks(merged, keep, group)
              /\ changes' = Marked(changes, db', {keep}, ids \ {keep})
           \/ /\ db' = merged
              /\ changes' = Marked(changes, db', {}, ids \ {keep}),
           NEW detached \in SUBSET TxId,
           jobs' = Answered(group, Head(jobs).fresh \ group, detached)
    PROVE  TablesInv' /\ JobsInv' /\ Recorded
<1> DEFINE fresh == Head(jobs).fresh \ group
           others == ids \ {keep}
<1>1. /\ keep \in Active(db) /\ keep \in ClusterId /\ ids \subseteq ClusterId
      /\ others \subseteq Active(db) /\ others \in SUBSET ClusterId /\ keep \notin others
  BY DEF Active
<1>2. /\ Consistent(merged)
      /\ \A c \in ClusterId :
            /\ merged.status[c] = IF c \in others THEN "merged" ELSE db.status[c]
            /\ merged.txids[c] = db.txids[c]
  <2>1. others \cap Active(db) = others
    BY <1>1
  <2>2. Consistent(db)
    BY DEF TablesInv
  <2>3. merged = close_many(db, others, "merged")
    OBVIOUS
  <2> HIDE DEF others
  <2> QED
    BY ONLY <2>1, <2>2, <2>3, CloseKeeps
<1>3. Active(merged) = Active(db) \ others
  BY <1>1, <1>2 DEF Active
<1>4. \A c \in Active(merged) \ {keep} : merged.txids[c] \cap group = {}
  BY <1>2, <1>3 DEF Active
<1>5. /\ Consistent(db')
      /\ \A c \in ClusterId :
            /\ db'.status[c] = IF c \in others THEN "merged" ELSE db.status[c]
            /\ c # keep => db'.txids[c] = db.txids[c]
      /\ db'.txids[keep] \in {group, db.txids[keep]}
  <2>1. CASE db' = merged
    BY <1>1, <1>2, <2>1
  <2>2. CASE db' = replace_chunks(merged, keep, group)
    <3>1. /\ Consistent(db')
          /\ \A c \in ClusterId :
                /\ db'.status[c] = merged.status[c]
                /\ db'.txids[c] = IF c = keep /\ keep \in Active(merged) THEN group
                                  ELSE merged.txids[c]
      <4> DEFINE e == replace_chunks(merged, keep, group)
      <4>1. /\ Consistent(e)
            /\ \A c \in ClusterId :
                  /\ e.status[c] = merged.status[c]
                  /\ e.txids[c] = IF c = keep /\ keep \in Active(merged) THEN group
                                  ELSE merged.txids[c]
        <5> HIDE DEF others
        <5>1. keep \in ClusterId /\ Consistent(merged)
          BY <1>1, <1>2
        <5> QED
          BY ONLY <5>1, <1>4, group \in SUBSET TxId, ReplaceKeeps
      <4> QED
        BY <2>2, <4>1
    <3> QED
      BY <1>1, <1>2, <3>1
  <2> QED
    BY <2>1, <2>2
<1> HIDE DEF others
<1>6. TablesInv'
  <2>1. \A c \in ClusterId : db'.status[c] = "confirmed" => db'.txids[c] \subseteq Mined(stored)
    BY <1>1, <1>5 DEF TablesInv, Active
  <2>2. \A c \in Active(db') : db'.txids[c] # {}
    BY <1>1, <1>5 DEF TablesInv, Active
  <2>3. Consistent(db)' /\ Active(db)' = Active(db')
    BY <1>5 DEF Consistent, LiveIsCurrent, Linked, IdsAscend, Active
  <2> QED
    BY <2>1, <2>2, <2>3, MinedSame DEF TablesInv
<1>7. JobsInv'
  <2>1. Unclaimed(db', fresh)
    BY <1>1, <1>5 DEF Unclaimed, Active
  <2>2. fresh \in SUBSET TxId
    BY DEF AskJob
  <2> QED
    BY <2>1, <2>2, AnsweredKeeps
<1>8. Recorded
  <2>1. \A c \in others : c \notin Active(db')
    BY <1>1, <1>5 DEF Active
  <2>2. CASE db' = merged /\ changes' = Marked(changes, db', {}, others)
    <3>1. {} \in SUBSET ClusterId
      OBVIOUS
    <3>2. \A c \in ClusterId \ ({} \cup others) :
            db'.status[c] = db.status[c] /\ db'.txids[c] = db.txids[c]
      BY <1>2, <2>2
    <3> QED
      BY ONLY <1>1, <1>6, <2>1, <2>2, snapshot' = snapshot, <3>1, <3>2, MarkedRecords
  <2>3. CASE changes' = Marked(changes, db', {keep}, others)
    <3>1. {keep} \in SUBSET ClusterId
      BY <1>1
    <3>2. \A c \in ClusterId \ ({keep} \cup others) :
            db'.status[c] = db.status[c] /\ db'.txids[c] = db.txids[c]
      BY <1>5
    <3> QED
      BY ONLY <1>1, <1>6, <2>1, <2>3, snapshot' = snapshot, <3>1, <3>2, MarkedRecords
  <2> QED
    BY <2>2, <2>3 DEF others
<1> QED
  BY <1>6, <1>7, <1>8

\* All branches of upsert, the failing ones included.
LEMMA UpsertKeeps ==
    ASSUME JobsInv, TablesInv, jobs # <<>>, chain' = chain, stored' = stored,
           snapshot' = snapshot, Head(jobs) \in AskJob, Unclaimed(db, Head(jobs).fresh),
           NEW group \in SUBSET TxId, group # {},
           upsert(group, find_active_ids_by_txids(db, group))
    PROVE  TablesInv' /\ JobsInv' /\ Recorded
<1> DEFINE ids == find_active_ids_by_txids(db, group)
           fresh == Head(jobs).fresh \ group
<1>1. ids = {c \in Active(db) : db.txids[c] \cap group # {}}
  BY FoundAreActive DEF TablesInv
<1>2. CASE jobs' = Answered(group, fresh, {}) /\ UNCHANGED <<db, changes>>
  <2>1. fresh \in SUBSET TxId /\ {} \in SUBSET TxId /\ Unclaimed(db', fresh)
    BY <1>2 DEF AskJob, Unclaimed
  <2> QED
    BY <1>2, <2>1, AnsweredKeeps, NothingToRecord, MinedSame, MoreMined
<1>3. CASE /\ ids = {} /\ RoomFor(1)
           /\ db' = insert_in(db, [c \in {Min(Unused(db))} |-> group])
           /\ changes' = Marked(changes, db', {Min(Unused(db))}, {})
           /\ jobs' = Answered(group, fresh, {})
  <2>1. Unclaimed(db, group)
    BY <1>1, <1>3 DEF Unclaimed
  <2> QED
    BY <1>3, <2>1, UpsertInserts
<1>4. CASE \E keep \in ids :
             LET merged == close_many(db, ids \ {keep}, "merged")
                 detached == UNION {db.txids[c] : c \in ids} \ group
             IN  /\ \/ /\ db' = replace_chunks(merged, keep, group)
                       /\ changes' = Marked(changes, db', {keep}, ids \ {keep})
                    \/ /\ db' = merged
                       /\ changes' = Marked(changes, db', {}, ids \ {keep})
                 /\ jobs' = Answered(group, fresh, detached)
  <2>1. UNION {db.txids[c] : c \in ids} \ group \in SUBSET TxId
    <3>1. \A c \in ids : db.txids[c] \in SUBSET TxId
      BY <1>1 DEF TablesInv, Consistent, Tables, Active
    <3> HIDE DEF ids
    <3> QED
      BY <3>1
  <2> DEFINE detached == UNION {db.txids[c] : c \in ids} \ group
             merged(k) == close_many(db, ids \ {k}, "merged")
  <2>2. PICK keep \in ids :
          /\ \/ /\ db' = replace_chunks(merged(keep), keep, group)
                /\ changes' = Marked(changes, db', {keep}, ids \ {keep})
             \/ /\ db' = merged(keep)
                /\ changes' = Marked(changes, db', {}, ids \ {keep})
          /\ jobs' = Answered(group, fresh, detached)
    BY <1>4
  <2>3. detached \in SUBSET TxId
    BY <2>1
  <2> HIDE DEF ids, detached
  <2> QED
    BY <1>1, <2>2, <2>3, UpsertMerges
<1>5. \/ jobs' = Answered(group, fresh, {}) /\ UNCHANGED <<db, changes>>
      \/ /\ ids = {} /\ RoomFor(1)
         /\ db' = insert_in(db, [c \in {Min(Unused(db))} |-> group])
         /\ changes' = Marked(changes, db', {Min(Unused(db))}, {})
         /\ jobs' = Answered(group, fresh, {})
      \/ \E keep \in ids :
             LET merged == close_many(db, ids \ {keep}, "merged")
                 detached == UNION {db.txids[c] : c \in ids} \ group
             IN  /\ \/ /\ db' = replace_chunks(merged, keep, group)
                       /\ changes' = Marked(changes, db', {keep}, ids \ {keep})
                    \/ /\ db' = merged
                       /\ changes' = Marked(changes, db', {}, ids \ {keep})
                 /\ jobs' = Answered(group, fresh, detached)
  BY DEF upsert
<1> QED
  BY <1>2, <1>3, <1>4, <1>5

\* An answer may be out of date when it is taken; the lookup by it is not.
LEMMA TakeAnswerKeeps == Inv /\ TakeAnswer => Inv' /\ Recorded
<1> SUFFICES ASSUME Inv, TakeAnswer PROVE Inv' /\ Recorded
  OBVIOUS
<1> USE DEF Inv
<1> DEFINE t == Head(jobs).answer[1]
           group == Head(jobs).answer[2]
           ids == find_active_ids_by_txids(db, group)
           fresh == Head(jobs).fresh
<1>1. /\ UNCHANGED <<nodePool, chain, stored, resident, snapshot>>
      /\ jobs # <<>> /\ Head(jobs).op = "ask" /\ Head(jobs).answer # <<>>
  BY DEF TakeAnswer, roundRest, nodeVars
<1>2. Head(jobs) \in AskJob /\ Unclaimed(db, fresh)
  BY <1>1, HeadIsJob DEF JobsInv
<1>3. t \in TxId /\ group \in SUBSET TxId /\ fresh \in SUBSET TxId
  <2>1. Head(jobs).answer \in TxId \X SUBSET TxId
    BY <1>1, <1>2 DEF AskJob
  <2> QED
    BY <1>2, <2>1 DEF AskJob
<1>4. \/ /\ group = {} /\ LedgerMoves({}, {t}) /\ jobs' = Answered({t}, fresh, {})
         /\ UNCHANGED <<db, changes>>
      \/ /\ group # {} /\ LedgerMoves(group, {}) /\ jobs' = Answered(group, fresh, {})
         /\ UNCHANGED <<db, changes>>
      \/ /\ group # {} /\ LedgerMoves(group, {}) /\ ids = {}
         /\ jobs' = Answered(group, fresh \cup group, {}) /\ UNCHANGED <<db, changes>>
      \/ group # {} /\ LedgerMoves(group, {}) /\ upsert(group, ids)
  BY DEF TakeAnswer, assert_present, assert_absent
<1>5. ids = {c \in Active(db) : db.txids[c] \cap group # {}}
  BY FoundAreActive DEF TablesInv
<1> HIDE DEF t, group, fresh
<1>6. {} \in SUBSET TxId /\ {t} \in SUBSET TxId
  BY <1>3
<1>7. NodeInv' /\ LedgerInv'
  <2>1. LedgerMoves({}, {t}) \/ LedgerMoves(group, {})
    BY <1>4
  <2>2. LedgerInv'
    BY <1>1, <1>3, <1>6, <2>1, LedgerStays
  <2> QED
    BY <1>1, <2>2 DEF NodeInv
<1>8. CASE UNCHANGED <<db, changes>>
  <2>1. TablesInv' /\ Recorded
    BY <1>1, <1>8, MinedSame, MoreMined, NothingToRecord
  <2>2. Unclaimed(db', fresh)
    BY <1>2, <1>8 DEF Unclaimed, fresh
  <2>3. CASE jobs' = Answered({t}, fresh, {}) \/ jobs' = Answered(group, fresh, {})
    BY <1>1, <1>2, <1>3, <1>6, <1>7, <2>1, <2>2, <2>3, AnsweredKeeps
  <2>4. CASE ids = {} /\ jobs' = Answered(group, fresh \cup group, {})
    <3>1. Unclaimed(db', fresh \cup group) /\ fresh \cup group \in SUBSET TxId
      BY <1>3, <1>5, <1>8, <2>2, <2>4 DEF Unclaimed
    <3> QED
      BY <1>1, <1>2, <1>3, <1>6, <1>7, <2>1, <2>4, <3>1, AnsweredKeeps
  <2>5. CASE group # {} /\ upsert(group, ids)
    BY <1>1, <1>2, <1>3, <1>7, <2>5, UpsertKeeps DEF fresh
  <2> QED
    BY <1>4, <2>3, <2>4, <2>5
<1>9. CASE group # {} /\ upsert(group, ids)
  BY <1>1, <1>2, <1>3, <1>7, <1>9, UpsertKeeps DEF fresh
<1> QED
  BY <1>4, <1>8, <1>9

\* The singletons have stayed unclaimed until they are inserted.
LEMMA SingletonsKeeps == Inv /\ InsertSingletons => Inv' /\ ("batch" \notin Faults => Recorded)
<1> SUFFICES ASSUME Inv, InsertSingletons
             PROVE  Inv' /\ ("batch" \notin Faults => Recorded)
  OBVIOUS
<1> USE DEF Inv
<1> DEFINE fresh == Head(jobs).fresh
<1>1. /\ UNCHANGED <<nodePool, chain, stored, resident, snapshot>>
      /\ UNCHANGED ledgerVars /\ jobs # <<>> /\ Head(jobs).op = "ask" /\ jobs' = Tail(jobs)
  BY DEF InsertSingletons, roundRest, nodeVars
<1>2. fresh \in SUBSET TxId /\ Unclaimed(db, fresh)
  BY <1>1, HeadIsJob DEF JobsInv, AskJob
<1>3. NodeInv' /\ LedgerInv' /\ JobsInv'
  BY <1>1, JobDone DEF NodeInv, LedgerInv, ledgerVars
<1>4. \/ UNCHANGED <<db, changes>>
      \/ \E done \in SUBSET fresh :
            /\ done # {} /\ RoomFor(Cardinality(done))
            /\ db' = insert_in(db, Singletons(done))
            /\ \/ changes' = Marked(changes, db', DOMAIN Singletons(done), {})
               \/ "batch" \in Faults
  BY DEF InsertSingletons
<1> HIDE DEF fresh
<1>5. CASE UNCHANGED <<db, changes>>
  BY <1>1, <1>3, <1>5, MinedSame, MoreMined, NothingToRecord
<1>6. ASSUME NEW done \in SUBSET fresh, done # {}, RoomFor(Cardinality(done)),
             db' = insert_in(db, Singletons(done)),
             \/ changes' = Marked(changes, db', DOMAIN Singletons(done), {})
             \/ "batch" \in Faults
      PROVE  Inv' /\ ("batch" \notin Faults => Recorded)
  <2> DEFINE new == Singletons(done)
  <2>1. done \in SUBSET TxId /\ Unclaimed(db, done)
    BY <1>2 DEF Unclaimed
  <2>2. /\ DOMAIN new \subseteq Unused(db)
        /\ \A c \in DOMAIN new : new[c] \subseteq done /\ new[c] # {} /\ Unclaimed(db, new[c])
        /\ \A c, e \in DOMAIN new : c # e => new[c] \cap new[e] = {}
        /\ \A c \in DOMAIN new, e \in Unused(db) \ DOMAIN new : c < e
    BY <1>6, <2>1, SingletonsAreNew DEF TablesInv
  <2>3. db' = insert_in(db, new)
    BY <1>6
  <2> HIDE DEF new
  <2>4. \A c \in DOMAIN new : new[c] \subseteq TxId
    BY <2>1, <2>2
  <2>5. /\ TablesInv'
        /\ \A c \in ClusterId \ DOMAIN new :
              db'.status[c] = db.status[c] /\ db'.txids[c] = db.txids[c]
    BY <1>1, <2>2, <2>3, <2>4, InsertedKeeps
  <2>6. "batch" \notin Faults => Recorded
    <3> SUFFICES ASSUME "batch" \notin Faults PROVE Recorded
      OBVIOUS
    <3>1. changes' = Marked(changes, db', DOMAIN new, {}) /\ snapshot' = snapshot
      BY <1>1, <1>6 DEF new
    <3>2. DOMAIN new \in SUBSET ClusterId
      BY <2>2 DEF Unused
    <3> QED
      BY ONLY <2>5, <3>1, <3>2, InsertRecords
  <2> QED
    BY <1>3, <2>5, <2>6
<1> QED
  BY <1>4, <1>5, <1>6
=============================================================================
