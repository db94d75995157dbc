-------------------- MODULE MempoolReconcilerRefinement --------------------
(***************************************************************************)
(* Proof, for every set of txids, journal cap and gate ceiling, that the   *)
(* ledger and the reconciler implement ResidencyLog.  A ledger call is a   *)
(* Changes step, the COMMIT of a tick's transaction a StoresFront step, a  *)
(* crash Forgets and the seed at start-up Recovers; everything else, the   *)
(* drain of the journal included, is a step that ResidencyLog does not     *)
(* see.                                                                    *)
(***************************************************************************)
EXTENDS MempoolReconcilerProofs

\* What is left of a journal behind its first n entries.
LEMMA Rest ==
    ASSUME NEW j \in Seq(JournalEntry), NEW n \in 0 .. Len(j)
    PROVE  LET u == SubSeq(j, n + 1, Len(j))
           IN  /\ u \in Seq(JournalEntry)
               /\ Len(u) = Len(j) - n
               /\ \A i \in 1 .. Len(u) : u[i] = j[n + i]
  BY SubSeqProperties

\* Two sequences of entries, one behind the other.
LEMMA Joined ==
    ASSUME NEW a \in Seq(JournalEntry), NEW b \in Seq(JournalEntry)
    PROVE  /\ a \o b \in Seq(JournalEntry)
           /\ Len(a \o b) = Len(a) + Len(b)
           /\ \A i \in 1 .. Len(a) : (a \o b)[i] = a[i]
           /\ \A i \in Len(a) + 1 .. Len(a \o b) : (a \o b)[i] = b[i - Len(a)]
  BY ConcatProperties

\* A transition is an entry that takes its txid from one set to the other.
LEMMA TransitionEntry ==
    ASSUME NEW before \in SUBSET TxId, NEW after \in SUBSET TxId, NEW e \in JournalEntry
    PROVE  e \in Log!Transitions(before, after) <=>
              /\ (e.txid \in after) # (e.txid \in before)
              /\ e.direction = "Add" <=> e.txid \notin before
<1>1. /\ e = [txid |-> e.txid, direction |-> e.direction]
      /\ e.txid \in TxId /\ e.direction \in {"Add", "Remove"}
  BY DEF JournalEntry, Direction
<1>2. e \in [txid : after \ before, direction : {"Add"}] <=>
         e.txid \in after \ before /\ e.direction = "Add"
  BY <1>1
<1>3. e \in [txid : before \ after, direction : {"Remove"}] <=>
         e.txid \in before \ after /\ e.direction = "Remove"
  BY <1>1
<1> QED
  BY <1>1, <1>2, <1>3 DEF Log!Transitions

\* The entries of a step are its transitions, each once.
LEMMA StepTransitions ==
    ASSUME NEW before \in SUBSET TxId, NEW after \in SUBSET TxId, NEW es,
           Step(es, before, after)
    PROVE  /\ \A i \in 1 .. Len(es) : es[i] \in Log!Transitions(before, after)
           /\ \A e \in Log!Transitions(before, after) :
                 \E i \in 1 .. Len(es) : es[i] = e
<1>1. es \in Seq(JournalEntry)
  BY DEF Step
<1>2. ASSUME NEW i \in 1 .. Len(es)
      PROVE  es[i] \in Log!Transitions(before, after)
  <2>1. es[i] \in JournalEntry
    BY <1>1
  <2>2. es[i].txid \in TxId
    BY <1>1, EntryFields
  <2>3. (es[i].txid \in after) # (es[i].txid \in before)
    BY <2>2 DEF Step
  <2>4. es[i].direction = "Add" <=> es[i].txid \notin before
    BY DEF Step
  <2> QED
    BY <2>1, <2>3, <2>4, TransitionEntry
<1>3. ASSUME NEW e \in Log!Transitions(before, after)
      PROVE  \E i \in 1 .. Len(es) : es[i] = e
  <2>1. e \in JournalEntry
    BY DEF Log!Transitions, JournalEntry, Direction
  <2>2. /\ (e.txid \in after) # (e.txid \in before)
        /\ e.direction = "Add" <=> e.txid \notin before
    BY <2>1, TransitionEntry
  <2>3. e.txid \in TxId /\ e.direction \in {"Add", "Remove"}
    BY <2>1 DEF JournalEntry, Direction
  <2>4. PICK i \in 1 .. Len(es) : es[i].txid = e.txid
    BY <2>2, <2>3 DEF Step
  <2>5. es[i].direction = "Add" <=> es[i].txid \notin before
    BY DEF Step
  <2>6. es[i].direction = e.direction
    BY <1>1, <2>2, <2>3, <2>4, <2>5, EntryFields
  <2>7. es[i] = [txid |-> es[i].txid, direction |-> es[i].direction]
    <3>1. es[i] \in JournalEntry
      BY <1>1
    <3> QED
      BY <3>1 DEF JournalEntry
  <2>8. e = [txid |-> e.txid, direction |-> e.direction]
    BY <2>1 DEF JournalEntry
  <2> QED
    BY <2>4, <2>6, <2>7, <2>8
<1> QED
  BY <1>2, <1>3

(***************************************************************************)
(* Queueing.  Of the entries es of a step, a journal j takes the first m;  *)
(* n of its entries are in the database already.                           *)
(***************************************************************************)
QueuedBehind(u, uu, due, all) ==
    LET added == Len(u) + 1 .. Len(uu)
    IN  /\ Len(u) <= Len(uu)
        /\ \A i \in 1 .. Len(u) : uu[i] = u[i]
        /\ \A i \in added : uu[i] \in due
        /\ \A i, k \in added : i # k => uu[i] # uu[k]
        /\ ~all <=> \E e \in due : \A i \in added : uu[i] # e

\* A push that is cut off by the cap queues a front of the transitions that are due.
LEMMA QueuedEntries ==
    ASSUME NEW j \in Seq(JournalEntry), NEW n \in 0 .. Len(j),
           NEW before \in SUBSET TxId, NEW after \in SUBSET TxId,
           NEW es, Step(es, before, after), NEW m \in 0 .. Len(es)
    PROVE  LET jj == j \o SubSeq(es, 1, m)
           IN  QueuedBehind(SubSeq(j, n + 1, Len(j)), SubSeq(jj, n + 1, Len(jj)),
                            Log!Transitions(before, after), m = Len(es))
<1> DEFINE f == SubSeq(es, 1, m)
           jj == j \o f
           u == SubSeq(j, n + 1, Len(j))
           uu == SubSeq(jj, n + 1, Len(jj))
           due == Log!Transitions(before, after)
<1>1. es \in Seq(JournalEntry) /\ Len(es) \in Nat /\ Len(j) \in Nat /\ n \in Nat
  BY DEF Step
<1>2. f \in Seq(JournalEntry) /\ Len(f) = m /\ \A i \in 1 .. m : f[i] = es[i]
  BY <1>1, SubSeqProperties
<1> HIDE DEF f
<1>3. /\ jj \in Seq(JournalEntry) /\ Len(jj) = Len(j) + m
      /\ \A i \in 1 .. Len(j) : jj[i] = j[i]
      /\ \A i \in Len(j) + 1 .. Len(jj) : jj[i] = f[i - Len(j)]
  BY <1>1, <1>2, Joined
<1> HIDE DEF jj
<1>4. Len(u) = Len(j) - n /\ \A i \in 1 .. Len(u) : u[i] = j[n + i]
  BY Rest
<1>5. Len(uu) = Len(jj) - n /\ \A i \in 1 .. Len(uu) : uu[i] = jj[n + i]
  <2>1. n \in 0 .. Len(jj)
    BY <1>1, <1>3
  <2> QED
    BY <1>3, <2>1, Rest
<1> HIDE DEF u, uu, due
<1>6. Len(u) <= Len(uu) /\ \A i \in 1 .. Len(u) : uu[i] = u[i]
  BY <1>1, <1>3, <1>4, <1>5
<1>7. \A i \in Len(u) + 1 .. Len(uu) : i - Len(u) \in 1 .. m /\ uu[i] = es[i - Len(u)]
  <2> SUFFICES ASSUME NEW i \in Len(u) + 1 .. Len(uu)
               PROVE  i - Len(u) \in 1 .. m /\ uu[i] = es[i - Len(u)]
    OBVIOUS
  <2>1. /\ i \in 1 .. Len(uu) /\ n + i \in Len(j) + 1 .. Len(jj)
        /\ (n + i) - Len(j) = i - Len(u) /\ i - Len(u) \in 1 .. m
    BY <1>1, <1>3, <1>4, <1>5
  <2>2. uu[i] = jj[n + i] /\ jj[n + i] = f[(n + i) - Len(j)]
    BY <1>3, <1>5, <2>1
  <2> QED
    BY <1>2, <2>1, <2>2
<1>8. \A k \in 1 .. m : Len(u) + k \in Len(u) + 1 .. Len(uu) /\ uu[Len(u) + k] = es[k]
  <2> SUFFICES ASSUME NEW k \in 1 .. m
               PROVE  Len(u) + k \in Len(u) + 1 .. Len(uu) /\ uu[Len(u) + k] = es[k]
    OBVIOUS
  <2>1. Len(u) + k \in Len(u) + 1 .. Len(uu) /\ (Len(u) + k) - Len(u) = k
    BY <1>1, <1>3, <1>4, <1>5
  <2> QED
    BY <1>7, <2>1
<1>9. /\ \A i \in 1 .. Len(es) : es[i] \in due
      /\ \A e \in due : \E i \in 1 .. Len(es) : es[i] = e
  BY StepTransitions DEF due
<1>10. \A i, k \in 1 .. Len(es) : i # k => es[i] # es[k]
  BY DEF Step
<1>11. \A i \in Len(u) + 1 .. Len(uu) : uu[i] \in due
  BY <1>1, <1>7, <1>9
<1>12. \A i, k \in Len(u) + 1 .. Len(uu) : i # k => uu[i] # uu[k]
  <2> SUFFICES ASSUME NEW i \in Len(u) + 1 .. Len(uu), NEW k \in Len(u) + 1 .. Len(uu),
                      i # k
               PROVE  uu[i] # uu[k]
    OBVIOUS
  <2>1. /\ i - Len(u) \in 1 .. Len(es) /\ k - Len(u) \in 1 .. Len(es)
        /\ i - Len(u) # k - Len(u)
    <3>1. Len(u) \in Nat /\ i \in Nat /\ k \in Nat
      BY <1>1, <1>4
    <3>2. i - Len(u) \in 1 .. Len(es) /\ k - Len(u) \in 1 .. Len(es)
      <4>1. i - Len(u) \in 1 .. m /\ k - Len(u) \in 1 .. m
        BY <1>7
      <4>2. \A x \in 1 .. m : x \in 1 .. Len(es)
        BY <1>1
      <4> QED
        BY ONLY <4>1, <4>2
    <3>3. i - Len(u) # k - Len(u)
      BY <3>1
    <3> QED
      BY <3>2, <3>3
  <2> QED
    BY <1>7, <1>10, <2>1
<1>13. ASSUME m < Len(es)
       PROVE  \E e \in due : \A i \in Len(u) + 1 .. Len(uu) : uu[i] # e
  <2>1. m + 1 \in 1 .. Len(es) /\ \A k \in 1 .. m : k \in 1 .. Len(es) /\ k # m + 1
    BY <1>1, <1>13
  <2>2. es[m + 1] \in due /\ \A k \in 1 .. m : es[k] # es[m + 1]
    BY <1>9, <1>10, <2>1
  <2>3. \A i \in Len(u) + 1 .. Len(uu) : uu[i] # es[m + 1]
    BY <1>7, <2>2
  <2> QED
    BY <2>2, <2>3
<1>14. ASSUME ~(m < Len(es)), NEW e \in due
       PROVE  \E i \in Len(u) + 1 .. Len(uu) : uu[i] = e
  <2>1. m = Len(es)
    BY <1>1, <1>14
  <2>2. PICK k \in 1 .. m : es[k] = e
    BY <1>9, <2>1
  <2> QED
    BY <1>8, <2>2
<1> QED
  <2>1. m = Len(es) <=> ~(m < Len(es))
    BY <1>1
  <2>2. QueuedBehind(u, uu, due, m = Len(es))
    BY <1>6, <1>11, <1>12, <1>13, <1>14, <2>1 DEF QueuedBehind
  <2> QED
    BY <2>2 DEF f, jj, u, uu, due
(***************************************************************************)
(* Storing.  The residency after a batch is the one that ResidencyLog asks *)
(* for, and so is the one the repair starts from.                          *)
(***************************************************************************)
LEMMA FinalOfBatch ==
    ASSUME NEW b \in Seq(JournalEntry), NEW base \in SUBSET TxId,
           NEW base2 \in SUBSET TxId, Rewritten(b, base, base2)
    PROVE  base2 = Log!Final(b, base)
<1>1. ASSUME NEW t \in TxId
      PROVE  t \in base2 <=> t \in Log!Final(b, base)
  <2>0. Len(b) \in Nat /\ DOMAIN b = 1 .. Len(b)
    OBVIOUS
  <2>1. CASE ~Mentions(b, t)
    BY <2>1 DEF Rewritten, Mentions, Log!Final
  <2>2. CASE Mentions(b, t)
    <3> DEFINE l == LastIndex(b, t)
    <3>1. l \in DOMAIN b /\ b[l].txid = t /\ IsLast(b, l)
      BY <2>2, LastIndexExists
    <3>2. t \in base2 <=> b[l].direction = "Add"
      BY <2>2 DEF Rewritten
    <3> HIDE DEF l
    <3>3. b[l] = [txid |-> b[l].txid, direction |-> b[l].direction]
      <4>1. b[l] \in JournalEntry
        BY <3>1
      <4> QED
        BY <4>1 DEF JournalEntry
    <3>4. \A i \in DOMAIN b :
             b[i].txid = t /\ (\A k \in DOMAIN b : k > i => b[k].txid # t) => i = l
      BY <2>0, <3>1 DEF IsLast
    <3>5. t \in Log!Final(b, base) <=>
             \E i \in DOMAIN b : /\ b[i] = [txid |-> t, direction |-> "Add"]
                                 /\ \A k \in DOMAIN b : k > i => b[k].txid # t
      BY <2>2 DEF Mentions, Log!Final
    <3>6. ASSUME b[l].direction = "Add"
          PROVE  t \in Log!Final(b, base)
      BY <3>1, <3>3, <3>5, <3>6 DEF IsLast
    <3>7. ASSUME t \in Log!Final(b, base)
          PROVE  b[l].direction = "Add"
      <4>1. PICK i \in DOMAIN b : /\ b[i] = [txid |-> t, direction |-> "Add"]
                                  /\ \A k \in DOMAIN b : k > i => b[k].txid # t
        BY <3>5, <3>7
      <4>2. b[i].txid = t /\ b[i].direction = "Add"
        BY <4>1
      <4> QED
        BY <3>4, <4>1, <4>2
    <3> QED
      BY <3>2, <3>6, <3>7
  <2> QED
    BY <2>1, <2>2
<1>2. Log!Final(b, base) \subseteq TxId
  BY DEF Log!Final
<1> QED
  BY <1>1, <1>2

\* A prefix is the front of its journal.
LEMMA PrefixIsFront ==
    ASSUME NEW j \in Seq(JournalEntry), NEW b, Prefix(b, j)
    PROVE  SubSeq(j, 1, Len(b)) = b
<1>1. b \in Seq(JournalEntry) /\ Len(b) \in 0 .. Len(j) /\ \A i \in 1 .. Len(b) : b[i] = j[i]
  BY DEF Prefix
<1> DEFINE f == SubSeq(j, 1, Len(b))
<1>2. f \in Seq(JournalEntry) /\ Len(f) = Len(b) /\ \A i \in 1 .. Len(b) : f[i] = j[i]
  BY <1>1, SubSeqProperties
<1> HIDE DEF f
<1>3. f = b
  BY <1>1, <1>2, SeqEqual
<1> QED
  BY <1>3 DEF f
(***************************************************************************)
(* The steps.                                                              *)
(***************************************************************************)
LEMMA CallIsChange ==
    ASSUME ReconcilerTypeOK, BatchIsPrefix, LedgerCall
    PROVE  Log!Changes
<1>1. /\ LedgerTypeOK /\ journal \in Seq(JournalEntry) /\ live \in SUBSET TxId
      /\ Len(journal) \in Nat /\ Len(journal) <= JournalCap /\ degraded \in BOOLEAN
      /\ Written \in 0 .. Len(journal) /\ JournalCap \in Nat
  BY JournalCapAssumption DEF ReconcilerTypeOK, LedgerTypeOK, BatchIsPrefix, Written
<1>2. live' \in SUBSET TxId /\ \E es : Step(es, live, live') /\ push(es)
  BY <1>1, LedgerCallQueues
<1>3. PICK es : Step(es, live, live') /\ push(es)
  BY <1>2
<1>4. Len(es) \in Nat
  BY <1>3 DEF Step
<1>5. PICK m \in 0 .. Len(es) : /\ journal' = journal \o SubSeq(es, 1, m)
                                /\ m < Len(es) <=> ~Fits(es)
  <2> DEFINE m == IF Fits(es) THEN Len(es) ELSE Room
  <2>1. m \in 0 .. Len(es) /\ (m < Len(es) <=> ~Fits(es))
    BY <1>1, <1>4 DEF Fits, Room
  <2>2. journal' = journal \o SubSeq(es, 1, m)
    BY <1>3 DEF push, append
  <2> QED
    BY <2>1, <2>2
<1>6. tick # "down" /\ tick' = tick /\ Written' = Written /\ Resident' = Resident
  BY DEF LedgerCall, Written, Resident, tickVars, dbVars
<1> DEFINE jj == journal \o SubSeq(es, 1, m)
<1>7. /\ Unwritten' = SubSeq(jj, Written + 1, Len(jj))
      /\ Unwritten = SubSeq(journal, Written + 1, Len(journal))
  BY <1>5, <1>6 DEF Unwritten
<1> DEFINE due == Log!Transitions(live, live')
<1>8. QueuedBehind(Unwritten, Unwritten', due, m = Len(es))
  <2>1. QueuedBehind(SubSeq(journal, Written + 1, Len(journal)),
                     SubSeq(jj, Written + 1, Len(jj)), due, m = Len(es))
    BY <1>1, <1>2, <1>3, QueuedEntries
  <2> QED
    BY <1>7, <2>1
<1>9. Log!Queues(due) /\ (Log!Drops(due) <=> ~Fits(es))
  BY <1>4, <1>5, <1>8 DEF QueuedBehind, Log!Queues, Log!Drops, Log!Added
<1>10. degraded' = (degraded \/ Log!Drops(due))
  BY <1>1, <1>3, <1>9 DEF push
<1> QED
  BY <1>2, <1>6, <1>9, <1>10 DEF Log!Changes

\* A repair queues what the database will lack.
LEMMA RepairIsRestatement ==
    ASSUME ReconcilerTypeOK, BatchIsPrefix, Repair
    PROVE  Log!Restates
<1>1. /\ LedgerTypeOK /\ journal \in Seq(JournalEntry) /\ live \in SUBSET TxId
      /\ Len(journal) \in Nat /\ Len(journal) <= JournalCap
      /\ JournalCap \in Nat /\ Resident \in SUBSET TxId
  BY JournalCapAssumption DEF ReconcilerTypeOK, LedgerTypeOK, Resident
<1>2. /\ tick = "idle" /\ tick' = tick /\ Written = 0 /\ Written' = 0
      /\ Resident' = Resident /\ live' = live
  BY DEF Repair, reconcile_against, Written, Resident, tickVars, dbVars
<1> DEFINE eventual == Replay(journal, Resident)
<1>3. eventual \in SUBSET TxId /\ Rewritten(journal, Resident, eventual)
  BY DEF Replay, Rewritten
<1>4. eventual = Log!Final(journal, Resident)
  BY <1>1, <1>3, FinalOfBatch
<1>5. PICK es : Step(es, eventual, live) /\ append(es) /\ degraded' = ~Fits(es)
  BY <1>1, RepairQueues
<1> HIDE DEF eventual
<1>6. Len(es) \in Nat
  BY <1>5 DEF Step
<1>7. PICK m \in 0 .. Len(es) : /\ journal' = journal \o SubSeq(es, 1, m)
                                /\ m < Len(es) <=> ~Fits(es)
  <2> DEFINE m == IF Fits(es) THEN Len(es) ELSE Room
  <2>1. m \in 0 .. Len(es) /\ (m < Len(es) <=> ~Fits(es))
    BY <1>1, <1>6 DEF Fits, Room
  <2>2. journal' = journal \o SubSeq(es, 1, m)
    BY <1>5 DEF append
  <2> QED
    BY <2>1, <2>2
<1> DEFINE jj == journal \o SubSeq(es, 1, m)
<1>8. /\ Unwritten' = SubSeq(jj, 0 + 1, Len(jj))
      /\ Unwritten = SubSeq(journal, 0 + 1, Len(journal))
      /\ Unwritten = journal
  BY <1>1, <1>2, <1>7, SubSeqFull DEF Unwritten
<1> DEFINE due == Log!Transitions(eventual, live)
<1>9. QueuedBehind(Unwritten, Unwritten', due, m = Len(es))
  <2>1. 0 \in 0 .. Len(journal)
    BY <1>1
  <2>2. eventual \in SUBSET TxId
    BY <1>3 DEF eventual
  <2>3. QueuedBehind(SubSeq(journal, 0 + 1, Len(journal)),
                     SubSeq(jj, 0 + 1, Len(jj)), due, m = Len(es))
    BY <1>1, <1>5, <2>1, <2>2, QueuedEntries
  <2> QED
    BY <1>8, <2>3
<1>10. Log!Queues(due) /\ (Log!Drops(due) <=> ~Fits(es))
  BY <1>6, <1>7, <1>9 DEF QueuedBehind, Log!Queues, Log!Drops, Log!Added
<1>11. degraded' = Log!Drops(due)
  <2>1. Log!Drops(due) \in BOOLEAN
    BY DEF Log!Drops
  <2> HIDE DEF due
  <2> QED
    BY <1>5, <1>10, <2>1
<1> QED
  BY <1>2, <1>4, <1>8, <1>10, <1>11 DEF Log!Restates
\* The rows of a batch are the front of what was unwritten.
LEMMA BatchIsFront ==
    ASSUME ReconcilerTypeOK, BatchIsPrefix, tick = "commit", write_batch
    PROVE  /\ Unwritten = journal
           /\ Len(batch) \in 1 .. Len(Unwritten)
           /\ Resident' = Log!Final(SubSeq(Unwritten, 1, Len(batch)), Resident)
<1>1. /\ journal \in Seq(JournalEntry) /\ batch \in Seq(JournalEntry)
      /\ Resident \in SUBSET TxId /\ Resident' \in SUBSET TxId
  BY DEF ReconcilerTypeOK, LedgerTypeOK, Resident
<1>2. Rewritten(batch, Resident, Resident') /\ Prefix(batch, journal)
  BY BatchRewrites DEF InTransaction
<1>3. Unwritten = journal
  BY <1>1, SubSeqFull DEF Unwritten, Written
<1>4. Resident' = Log!Final(batch, Resident)
  BY <1>1, <1>2, FinalOfBatch
<1>5. SubSeq(journal, 1, Len(batch)) = batch
  BY <1>1, <1>2, PrefixIsFront
<1>6. batch # <<>> /\ Len(batch) <= Len(journal)
  BY DEF BatchIsPrefix, InTransaction
<1>7. Len(batch) \in 1 .. Len(journal)
  BY <1>1, <1>6
<1> QED
  BY <1>3, <1>4, <1>5, <1>7

\* Every step of the reconciler is a step of the log or one it does not see.
LEMMA NextRefines ==
    ASSUME ReconcilerTypeOK, BatchIsPrefix, [ReconcilerNext]_reconcilerVars
    PROVE  [Log!LogNext]_(Log!logVars)
<1>0. /\ journal \in Seq(JournalEntry) /\ Len(journal) \in Nat
      /\ Written \in 0 .. Len(journal)
  BY DEF ReconcilerTypeOK, LedgerTypeOK, BatchIsPrefix, Written
<1>1. ASSUME UNCHANGED ledgerVars, row' = row, Written' = Written,
             tick = "down" <=> tick' = "down"
      PROVE  [Log!LogNext]_(Log!logVars)
  BY <1>1 DEF ledgerVars, Resident, Unwritten, Log!logVars
<1>2. CASE BeginFlush \/ Classify \/ WriteRows
  BY <1>1, <1>2 DEF BeginFlush, Classify, WriteRows, Written, dbVars
<1>3. CASE (Abandon /\ tick \in InTransaction) \/ EndTick
  BY <1>1, <1>3 DEF Abandon, EndTick, InTransaction, Written, dbVars
<1>4. CASE Commits
  <2>1. /\ tick = "commit" /\ tick' = "drain" /\ batch' = batch
        /\ live' = live /\ journal' = journal /\ degraded' = degraded
        /\ write_batch
    BY <1>4 DEF Commits, ledgerVars
  <2>2. Unwritten' = SubSeq(Unwritten, Len(batch) + 1, Len(Unwritten))
    BY <2>1, BatchIsFront DEF Unwritten, Written
  <2> QED
    BY <2>1, <2>2, BatchIsFront DEF Log!LogNext, Log!StoresFront
<1>5. CASE DrainJournal
  <2>1. /\ tick = "drain" /\ tick' = "sync" /\ live' = live /\ degraded' = degraded
        /\ Resident' = Resident
        /\ journal' = SubSeq(journal, Len(batch) + 1, Len(journal))
    BY <1>5 DEF DrainJournal, commit, Resident, dbVars
  <2>2. Unwritten = journal'
    BY <2>1 DEF Unwritten, Written
  <2>3. journal' \in Seq(JournalEntry)
    BY <1>0, <2>1, Rest DEF Written
  <2>4. Unwritten' = journal'
    BY <2>1, <2>3, SubSeqFull DEF Unwritten, Written
  <2> QED
    BY <2>1, <2>2, <2>4 DEF Log!logVars
<1>6. CASE Crash
  <2>1. Unwritten' = <<>>
    BY <1>6 DEF Crash, Unwritten, Written
  <2> QED
    BY <1>6, <2>1 DEF Crash, Resident, dbVars, Log!LogNext, Log!Forgets
<1>7. CASE Seed
  <2>1. /\ Unwritten' = Unwritten /\ Resident' = Resident /\ live' = Resident
        /\ degraded' = degraded /\ tick = "down" /\ tick' = "idle"
    BY <1>7 DEF Seed, seed, Unwritten, Written, Resident, dbVars
  <2> QED
    BY <2>1 DEF Log!LogNext, Log!Recovers
<1>8. CASE LedgerCall
  BY <1>8, CallIsChange DEF Log!LogNext
<1>9. CASE BlockConfirms \/ RowsUpserted \/ GateMoves
  BY <1>1, <1>9 DEF BlockConfirms, RowsUpserted, GateMoves, Written, tickVars, dbVars
<1>10. CASE UNCHANGED reconcilerVars
  BY <1>1, <1>10 DEF reconcilerVars, Written, tickVars, dbVars
<1> QED
  BY <1>2, <1>3, <1>4, <1>5, <1>6, <1>7, <1>8, <1>9, <1>10
     DEF ReconcilerNext, Preempted, WriteFails, InTransaction

\* So is a write whose acknowledgement is lost, and a repair.
LEMMA RepairedNextRefines ==
    ASSUME ReconcilerTypeOK, BatchIsPrefix, [RepairedNext]_reconcilerVars
    PROVE  [Log!RepairedLogNext]_(Log!logVars)
<1>1. CASE CommitAckLost
  <2>1. /\ tick = "commit" /\ tick' = "idle" /\ write_batch
        /\ live' = live /\ journal' = journal /\ degraded' = degraded
    BY <1>1 DEF CommitAckLost, ledgerVars
  <2>2. Unwritten' = Unwritten
    BY <2>1 DEF Unwritten, Written
  <2> QED
    BY <2>1, <2>2, BatchIsFront DEF Log!RepairedLogNext, Log!StoresUnheard
<1>2. CASE Repair
  BY <1>2, RepairIsRestatement DEF Log!RepairedLogNext
<1>3. CASE [ReconcilerNext]_reconcilerVars
  BY <1>3, NextRefines DEF Log!RepairedLogNext
<1> QED
  BY <1>1, <1>2, <1>3 DEF RepairedNext

\* The initial states are initial states of the log.
LEMMA InitRefines == ReconcilerInit => Log!LogInit
<1> SUFFICES ASSUME ReconcilerInit PROVE Log!LogInit
  OBVIOUS
<1>1. Unwritten = <<>>
  BY DEF ReconcilerInit, LedgerInit, Unwritten, Written
<1>2. Resident = {}
  BY DEF ReconcilerInit, Resident
<1> QED
  BY <1>1, <1>2 DEF ReconcilerInit, LedgerInit, Log!LogInit

\* The ledger and the reconciler implement the log: each transition of `live'
\* reaches the table once, in order, with the others of its batch, whatever
\* calls, blocks, failed writes and crashes come between, unless the journal
\* overflows, which `degraded' tells.
THEOREM ReconcilerImplementsLog == ReconcilerSpec => Log!LogSpec
<1>1. [ReconcilerNext]_reconcilerVars => [RepairedNext]_reconcilerVars
  BY DEF RepairedNext
<1>2. ReconcilerSpec => RepairedSpec
  BY <1>1, PTL DEF ReconcilerSpec, RepairedSpec
<1> QED
  BY <1>1, <1>2, InitRefines, NextRefines, DrainsWhatItWrote, TypeCorrect, PTL
     DEF ReconcilerSpec, Log!LogSpec

\* The same with a COMMIT whose acknowledgement is lost, after which the batch
\* is written once more, and with reconcile_against, which restates what an
\* overflow has dropped.
THEOREM RepairedImplementsLog == RepairedSpec => ImplementsResidencyLog
  BY InitRefines, RepairedNextRefines, DrainsWhatItWrote, TypeCorrect, PTL
     DEF RepairedSpec, ImplementsResidencyLog, Log!RepairedLogSpec
=============================================================================
