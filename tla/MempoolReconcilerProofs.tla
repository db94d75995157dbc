---------------------- MODULE MempoolReconcilerProofs ----------------------
(***************************************************************************)
(* Proofs, for every set of txids, journal cap and gate ceiling, of the    *)
(* invariants of MempoolReconciler.  `expired' and the gate come first,    *)
(* then the shape of the state, then the journal as an account of what the *)
(* database still lacks.                                                   *)
(***************************************************************************)
EXTENDS MempoolReconciler, SequenceTheorems, FiniteSetTheorems,
        WellFoundedInduction, TLAPS

(***************************************************************************)
(* Facts about sequences of entries.                                       *)
(***************************************************************************)

\* The fields of an entry have their types.
LEMMA EntryFields ==
    ASSUME NEW es \in Seq(JournalEntry), NEW i \in 1 .. Len(es)
    PROVE  es[i].txid \in TxId /\ es[i].direction \in {"Add", "Remove"}
<1>1. es[i] \in JournalEntry
  OBVIOUS
<1> QED
  BY <1>1 DEF JournalEntry, Direction

\* A txid that a batch mentions has a last entry in it, and LastIndex is it.
LEMMA LastIndexExists ==
    ASSUME NEW es \in Seq(JournalEntry), NEW t, Mentions(es, t)
    PROVE  /\ LastIndex(es, t) \in DOMAIN es
           /\ es[LastIndex(es, t)].txid = t
           /\ IsLast(es, LastIndex(es, t))
<1> DEFINE T == {Len(es) - i : i \in {k \in DOMAIN es : es[k].txid = t}}
<1>1. DOMAIN es = 1 .. Len(es) /\ Len(es) \in Nat
  OBVIOUS
<1>2. T \subseteq Nat /\ T # {}
  BY <1>1 DEF Mentions
<1>3. PICK d \in T : \A e \in T : ~(<<e, d>> \in OpToRel(<, Nat))
  <2> HIDE DEF T
  <2> QED BY <1>2, NatLessThanWellFounded, WFMin
<1>4. \A e \in T : ~(e < d)
  <2> HIDE DEF T
  <2> QED BY <1>2, <1>3 DEF OpToRel
<1>5. PICK i \in DOMAIN es : es[i].txid = t /\ d = Len(es) - i
  BY <1>3
<1>6. ASSUME NEW k \in DOMAIN es, k > i, es[k].txid = t
      PROVE  FALSE
  <2>1. Len(es) - k \in T
    BY <1>6
  <2>2. Len(es) - k < d
    BY <1>1, <1>5, <1>6
  <2> QED
    BY <1>4, <2>1, <2>2
<1>7. IsLast(es, i)
  BY <1>5, <1>6 DEF IsLast
<1>8. \E k \in DOMAIN es : es[k].txid = t /\ IsLast(es, k)
  BY <1>5, <1>7
<1> QED
  BY <1>8 DEF LastIndex

\* Any order of a set is a sequence of its members without repetition, so the
\* entries made from it name each member once.
LEMMA EntriesOfOrder ==
    ASSUME NEW S \in SUBSET TxId, NEW s \in Orders(S), NEW d \in Direction
    PROVE  /\ Entries(s, d) \in Seq(JournalEntry)
           /\ \A i \in 1 .. Len(Entries(s, d)) :
                 Entries(s, d)[i].direction = d /\ Entries(s, d)[i].txid \in S
           /\ \A t \in S : \E i \in 1 .. Len(Entries(s, d)) : Entries(s, d)[i].txid = t
           /\ \A i, k \in 1 .. Len(Entries(s, d)) :
                 i # k => Entries(s, d)[i].txid # Entries(s, d)[k].txid
<1>1. Cardinality(S) \in Nat
  BY TxIdAssumption, FS_Subset, FS_CardinalityType
<1>2. s \in [1 .. Cardinality(S) -> S]
  BY DEF Orders
<1> DEFINE es == Entries(s, d)
<1>3. es = [i \in 1 .. Cardinality(S) |-> [txid |-> s[i], direction |-> d]]
  BY <1>2 DEF Entries
<1>4. \A i \in 1 .. Cardinality(S) : es[i] \in JournalEntry
  BY <1>2, <1>3 DEF JournalEntry
<1>5. es \in Seq(JournalEntry) /\ Len(es) = Cardinality(S)
  <2> HIDE DEF es
  <2> QED BY <1>1, <1>3, <1>4
<1>6. /\ \A i \in 1 .. Len(es) : es[i].direction = d /\ es[i].txid \in S
      /\ \A i \in 1 .. Len(es) : es[i].txid = s[i]
  <2> HIDE DEF es
  <2> QED BY <1>2, <1>3, <1>5
<1> QED
  <2> HIDE DEF es
  <2> QED BY <1>2, <1>5, <1>6 DEF Orders, es

(***************************************************************************)
(* What the ledger queues: at most one entry per txid, each a transition   *)
(* from `before' to `after'.                                               *)
(***************************************************************************)
Step(es, before, after) ==
    /\ es \in Seq(JournalEntry)
    /\ \A i, k \in 1 .. Len(es) : i # k => es[i].txid # es[k].txid
    /\ \A i \in 1 .. Len(es) : es[i].direction = "Add" <=> es[i].txid \notin before
    /\ \A t \in TxId : (t \in after <=> t \in before) <=>
                       (\A i \in 1 .. Len(es) : es[i].txid # t)

\* Adding some absent txids and removing some present ones is such a step.
LEMMA EntriesAreAStep ==
    ASSUME NEW before \in SUBSET TxId,
           NEW A \in SUBSET TxId, A \cap before = {}, NEW adds \in Orders(A),
           NEW R \in SUBSET before, NEW removes \in Orders(R)
    PROVE  Step(Entries(adds, "Add") \o Entries(removes, "Remove"),
                before, (before \cup A) \ R)
<1> DEFINE a == Entries(adds, "Add")
           r == Entries(removes, "Remove")
<1>1. /\ a \in Seq(JournalEntry)
      /\ \A i \in 1 .. Len(a) : a[i].direction = "Add" /\ a[i].txid \in A
      /\ \A t \in A : \E i \in 1 .. Len(a) : a[i].txid = t
      /\ \A i, k \in 1 .. Len(a) : i # k => a[i].txid # a[k].txid
  BY EntriesOfOrder DEF Direction
<1>2. /\ r \in Seq(JournalEntry)
      /\ \A i \in 1 .. Len(r) : r[i].direction = "Remove" /\ r[i].txid \in R
      /\ \A t \in R : \E i \in 1 .. Len(r) : r[i].txid = t
      /\ \A i, k \in 1 .. Len(r) : i # k => r[i].txid # r[k].txid
  <2>1. R \in SUBSET TxId
    OBVIOUS
  <2> QED BY <2>1, EntriesOfOrder DEF Direction
<1> HIDE DEF a, r
<1> DEFINE es == a \o r
<1>3. /\ es \in Seq(JournalEntry)
      /\ Len(es) = Len(a) + Len(r)
      /\ Len(a) \in Nat /\ Len(r) \in Nat
      /\ \A i \in 1 .. Len(es) : es[i] = IF i <= Len(a) THEN a[i] ELSE r[i - Len(a)]
  BY <1>1, <1>2, ConcatProperties
<1>4. \A i \in 1 .. Len(r) : es[i + Len(a)] = r[i]
  BY <1>3
<1> HIDE DEF es
<1>5. \A i, k \in 1 .. Len(es) : i # k => es[i].txid # es[k].txid
  <2> SUFFICES ASSUME NEW i \in 1 .. Len(es), NEW k \in 1 .. Len(es), i # k
               PROVE  es[i].txid # es[k].txid
    OBVIOUS
  <2>1. CASE i <= Len(a) /\ k <= Len(a)
    BY <2>1, <1>1, <1>3
  <2>2. CASE i <= Len(a) /\ k > Len(a)
    BY <2>2, <1>1, <1>2, <1>3
  <2>3. CASE i > Len(a) /\ k <= Len(a)
    BY <2>3, <1>1, <1>2, <1>3
  <2>4. CASE i > Len(a) /\ k > Len(a)
    <3>1. /\ i - Len(a) \in 1 .. Len(r) /\ k - Len(a) \in 1 .. Len(r)
          /\ i - Len(a) # k - Len(a)
      BY <2>4, <1>3
    <3>2. es[i] = r[i - Len(a)] /\ es[k] = r[k - Len(a)]
      BY <2>4, <1>3
    <3> QED BY <3>1, <3>2, <1>2
  <2> QED BY <2>1, <2>2, <2>3, <2>4, <1>3
<1>6. ASSUME NEW i \in 1 .. Len(es)
      PROVE  es[i].direction = "Add" <=> es[i].txid \notin before
  <2>1. CASE i <= Len(a)
    <3>1. es[i].direction = "Add" /\ es[i].txid \in A
      BY <2>1, <1>1, <1>3
    <3> QED BY <3>1
  <2>2. CASE i > Len(a)
    <3>1. es[i].direction = "Remove" /\ es[i].txid \in R
      BY <2>2, <1>2, <1>3
    <3> QED BY <3>1
  <2> QED BY <2>1, <2>2, <1>3
<1>7. ASSUME NEW t \in TxId
      PROVE  (t \in (before \cup A) \ R <=> t \in before) <=>
             (\A i \in 1 .. Len(es) : es[i].txid # t)
  <2>1. CASE t \in A
    <3>1. PICK i \in 1 .. Len(a) : a[i].txid = t
      BY <1>1, <2>1
    <3>2. i \in 1 .. Len(es) /\ es[i].txid = t
      BY <1>3, <3>1
    <3> QED BY <2>1, <3>2
  <2>2. CASE t \in R
    <3>1. PICK i \in 1 .. Len(r) : r[i].txid = t
      BY <1>2, <2>2
    <3>2. i + Len(a) \in 1 .. Len(es) /\ es[i + Len(a)].txid = t
      BY <1>3, <1>4, <3>1
    <3> QED BY <2>2, <3>2
  <2>3. CASE t \notin A /\ t \notin R
    <3>1. ASSUME NEW i \in 1 .. Len(es)
          PROVE  es[i].txid # t
      <4>1. CASE i <= Len(a)
        BY <4>1, <1>1, <1>3, <2>3
      <4>2. CASE i > Len(a)
        <5>1. i - Len(a) \in 1 .. Len(r) /\ es[i] = r[i - Len(a)]
          BY <4>2, <1>3
        <5> QED BY <5>1, <1>2, <2>3
      <4> QED BY <4>1, <4>2, <1>3
    <3> QED BY <2>3, <3>1
  <2> QED BY <2>1, <2>2, <2>3
<1> QED
  BY <1>3, <1>5, <1>6, <1>7 DEF Step, es, a, r

(***************************************************************************)
(* The journal as an account: how Alternates and LeadsTo survive a push,   *)
(* the write of a prefix, and the drain of a written prefix.               *)
(***************************************************************************)

\* Queueing a step from the set the journal leads to leads to the step's end.
LEMMA PushLeadsTo ==
    ASSUME NEW j \in Seq(JournalEntry), NEW n \in 0 .. Len(j), NEW base,
           NEW before, NEW after, NEW es,
           Step(es, before, after), LeadsTo(j, n, base, before)
    PROVE  LeadsTo(j \o es, n, base, after)
<1> DEFINE jj == j \o es
<1>1. /\ es \in Seq(JournalEntry)
      /\ \A i, k \in 1 .. Len(es) : i # k => es[i].txid # es[k].txid
      /\ \A i \in 1 .. Len(es) : es[i].direction = "Add" <=> es[i].txid \notin before
      /\ \A t \in TxId : (t \in after <=> t \in before) <=>
                         (\A i \in 1 .. Len(es) : es[i].txid # t)
  BY DEF Step
<1>2. /\ jj \in Seq(JournalEntry)
      /\ Len(jj) = Len(j) + Len(es)
      /\ Len(j) \in Nat /\ Len(es) \in Nat
      /\ \A i \in 1 .. Len(j) : jj[i] = j[i]
      /\ \A i \in 1 .. Len(es) : jj[Len(j) + i] = es[i]
      /\ \A i \in (Len(j) + 1) .. Len(jj) : jj[i] = es[i - Len(j)]
  BY <1>1, ConcatProperties
<1>3. \A i \in 1 .. Len(es) : es[i].txid \in TxId
  BY <1>1, EntryFields
<1>4. \A i \in 1 .. Len(j) : j[i].txid \in TxId
  BY EntryFields
<1> HIDE DEF jj
<1>5. ASSUME NEW i \in After(jj, n), LastAfter(jj, n, i)
      PROVE  jj[i].direction = "Add" <=> jj[i].txid \in after
  <2>1. CASE i <= Len(j)
    <3>1. i \in After(j, n) /\ LastAfter(j, n, i) /\ jj[i] = j[i]
      BY <1>2, <1>5, <2>1 DEF After, LastAfter
    <3>2. \A k \in 1 .. Len(es) : Len(j) + k \in After(jj, n) /\ Len(j) + k > i
      BY <1>2, <2>1 DEF After
    <3>3. \A k \in 1 .. Len(es) : es[k].txid # j[i].txid
      BY <1>2, <1>5, <3>1, <3>2 DEF LastAfter
    <3>4. j[i].direction = "Add" <=> j[i].txid \in before
      BY <3>1 DEF LeadsTo
    <3>5. j[i].txid \in TxId
      BY <1>4, <3>1 DEF After
    <3> QED
      BY <1>1, <3>1, <3>3, <3>4, <3>5
  <2>2. CASE i > Len(j)
    <3>1. i - Len(j) \in 1 .. Len(es) /\ jj[i] = es[i - Len(j)]
      BY <1>2, <2>2 DEF After
    <3>2. jj[i].txid \in TxId /\ ~(jj[i].txid \in after <=> jj[i].txid \in before)
      BY <1>1, <1>3, <3>1
    <3> QED
      BY <1>1, <3>1, <3>2
  <2> QED
    BY <2>1, <2>2, <1>2 DEF After
<1>6. ASSUME NEW t \in TxId, \A i \in After(jj, n) : jj[i].txid # t
      PROVE  t \in after <=> t \in base
  <2>1. \A i \in After(j, n) : i \in After(jj, n) /\ jj[i] = j[i]
    BY <1>2 DEF After
  <2>2. \A i \in 1 .. Len(es) : Len(j) + i \in After(jj, n) /\ jj[Len(j) + i] = es[i]
    BY <1>2 DEF After
  <2>3. t \in before <=> t \in base
    BY <1>6, <2>1 DEF LeadsTo
  <2>4. \A i \in 1 .. Len(es) : es[i].txid # t
    BY <1>6, <2>2
  <2>5. t \in after <=> t \in before
    BY <1>1, <2>4
  <2> QED
    BY <2>3, <2>5
<1> QED
  BY <1>5, <1>6 DEF LeadsTo, jj

\* ... and the entries still alternate: the one queued for a txid answers the
\* last unwritten one, or else what the database believes.
LEMMA PushAlternates ==
    ASSUME NEW j \in Seq(JournalEntry), NEW n \in 0 .. Len(j), NEW base,
           NEW before, NEW after, NEW es,
           Step(es, before, after), LeadsTo(j, n, base, before),
           Alternates(j, n, base)
    PROVE  Alternates(j \o es, n, base)
<1> DEFINE jj == j \o es
<1>1. /\ es \in Seq(JournalEntry)
      /\ \A i, k \in 1 .. Len(es) : i # k => es[i].txid # es[k].txid
      /\ \A i \in 1 .. Len(es) : es[i].direction = "Add" <=> es[i].txid \notin before
  BY DEF Step
<1>2. /\ Len(jj) = Len(j) + Len(es)
      /\ Len(j) \in Nat /\ Len(es) \in Nat
      /\ \A i \in 1 .. Len(j) : jj[i] = j[i]
      /\ \A i \in (Len(j) + 1) .. Len(jj) : jj[i] = es[i - Len(j)]
  BY <1>1, ConcatProperties
<1> HIDE DEF jj
<1>3. \A i \in After(j, n) : i \in After(jj, n) /\ jj[i] = j[i]
  BY <1>2 DEF After
<1>4. \A i \in After(jj, n) : i > Len(j) =>
         i - Len(j) \in 1 .. Len(es) /\ jj[i] = es[i - Len(j)]
  BY <1>2 DEF After
<1>5. ASSUME NEW i \in After(jj, n), FirstAfter(jj, n, i)
      PROVE  jj[i].direction = "Add" <=> jj[i].txid \notin base
  <2>1. CASE i <= Len(j)
    <3>1. i \in After(j, n) /\ FirstAfter(j, n, i)
      BY <1>2, <1>3, <1>5, <2>1 DEF After, FirstAfter
    <3> QED
      BY <1>3, <3>1 DEF Alternates
  <2>2. CASE i > Len(j)
    <3>1. \A k \in After(j, n) : k < i
      BY <2>2, <1>2 DEF After
    <3>2. \A k \in After(j, n) : j[k].txid # jj[i].txid
      BY <1>3, <1>5, <3>1 DEF FirstAfter
    <3>3. jj[i].txid \in TxId
      BY <1>1, <1>4, <2>2, EntryFields
    <3>4. jj[i].txid \in before <=> jj[i].txid \in base
      BY <3>2, <3>3 DEF LeadsTo
    <3>5. jj[i].direction = "Add" <=> jj[i].txid \notin before
      BY <1>1, <1>4, <2>2
    <3> QED
      BY <3>4, <3>5
  <2> QED
    BY <2>1, <2>2, <1>2 DEF After
<1>6. ASSUME NEW i \in After(jj, n), NEW k \in After(jj, n), Consecutive(jj, n, i, k)
      PROVE  jj[i].direction # jj[k].direction
  <2>0. i < k /\ jj[i].txid = jj[k].txid /\ i \in Nat /\ k \in Nat
    BY <1>2, <1>6 DEF Consecutive, After
  <2>1. CASE k <= Len(j)
    <3>1. /\ i \in After(j, n) /\ k \in After(j, n)
          /\ Consecutive(j, n, i, k)
      BY <1>2, <1>3, <1>6, <2>0, <2>1 DEF After, Consecutive
    <3> QED
      BY <1>3, <3>1 DEF Alternates
  <2>2. CASE i <= Len(j) /\ k > Len(j)
    <3>1. i \in After(j, n)
      BY <1>2, <2>2 DEF After
    <3>2. \A m \in After(j, n) : m < k /\ m \in After(jj, n) /\ jj[m] = j[m]
      BY <1>2, <1>3, <2>2 DEF After
    <3>3. LastAfter(j, n, i)
      BY <1>3, <1>6, <3>1, <3>2 DEF Consecutive, LastAfter
    <3>4. jj[i].direction = "Add" <=> jj[i].txid \in before
      BY <1>3, <3>1, <3>3 DEF LeadsTo
    <3>5. jj[k].direction = "Add" <=> jj[k].txid \notin before
      BY <1>1, <1>4, <2>2
    <3> QED
      BY <2>0, <3>4, <3>5
  <2>3. CASE i > Len(j)
    <3>1. k > Len(j) /\ i - Len(j) # k - Len(j)
      BY <1>2, <2>0, <2>3
    <3>2. i - Len(j) \in 1 .. Len(es) /\ jj[i] = es[i - Len(j)]
      BY <1>4, <2>3
    <3>3. k - Len(j) \in 1 .. Len(es) /\ jj[k] = es[k - Len(j)]
      BY <1>4, <3>1
    <3> QED
      BY <1>1, <2>0, <3>1, <3>2, <3>3
  <2> QED
    BY <1>2, <2>0, <2>1, <2>2, <2>3
<1> QED
  BY <1>5, <1>6 DEF Alternates, jj

\* The residency of the database once it has the rows of batch b.
Rewritten(b, base, base2) ==
    \A t \in TxId : t \in base2 <=> IF Mentions(b, t)
                                   THEN b[LastIndex(b, t)].direction = "Add"
                                   ELSE t \in base

Prefix(b, j) ==
    /\ b \in Seq(JournalEntry)
    /\ Len(b) <= Len(j)
    /\ \A i \in DOMAIN b : b[i] = j[i]

\* Writing a prefix of the journal keeps the account, whether the journal then
\* counts it as written or, its acknowledgement lost, does not.
LEMMA WriteLeadsTo ==
    ASSUME NEW j \in Seq(JournalEntry), NEW b, Prefix(b, j),
           NEW base, NEW base2, Rewritten(b, base, base2),
           NEW final, LeadsTo(j, 0, base, final)
    PROVE  LeadsTo(j, Len(b), base2, final) /\ LeadsTo(j, 0, base2, final)
<1>1. /\ b \in Seq(JournalEntry) /\ Len(b) \in Nat /\ Len(j) \in Nat
      /\ Len(b) <= Len(j)
      /\ DOMAIN b = 1 .. Len(b)
      /\ \A i \in 1 .. Len(b) : b[i] = j[i]
  BY DEF Prefix
<1>2. After(j, Len(b)) \subseteq After(j, 0) /\ 1 .. Len(b) \subseteq After(j, 0)
  BY <1>1 DEF After
<1>3. \A i \in After(j, 0) : i \in 1 .. Len(b) \/ i \in After(j, Len(b))
  BY <1>1 DEF After
<1>4. ASSUME NEW i \in After(j, Len(b)), LastAfter(j, Len(b), i)
      PROVE  LastAfter(j, 0, i)
  BY <1>1, <1>3, <1>4 DEF LastAfter, After
<1>5. ASSUME NEW t \in TxId, \A i \in After(j, Len(b)) : j[i].txid # t
      PROVE  t \in final <=> t \in base2
  <2>1. CASE Mentions(b, t)
    <3> DEFINE l == LastIndex(b, t)
    <3>1. l \in 1 .. Len(b) /\ b[l].txid = t /\ IsLast(b, l)
      BY <1>1, <2>1, LastIndexExists
    <3> HIDE DEF l
    <3>2. \A k \in 1 .. Len(b) : k > l => j[k].txid # t
      BY <1>1, <3>1 DEF IsLast
    <3>3. LastAfter(j, 0, l) /\ l \in After(j, 0) /\ j[l] = b[l]
      BY <1>1, <1>2, <1>3, <1>5, <3>1, <3>2 DEF LastAfter
    <3>4. b[l].direction = "Add" <=> t \in final
      BY <3>1, <3>3 DEF LeadsTo
    <3> QED
      BY <2>1, <3>4 DEF Rewritten, l
  <2>2. CASE ~Mentions(b, t)
    <3>1. \A i \in After(j, 0) : j[i].txid # t
      BY <1>1, <1>3, <1>5, <2>2 DEF Mentions
    <3> QED
      BY <2>2, <3>1 DEF LeadsTo, Rewritten
  <2> QED
    BY <2>1, <2>2
<1>6. \A i \in After(j, 0) : LastAfter(j, 0, i) =>
         (j[i].direction = "Add" <=> j[i].txid \in final)
  BY DEF LeadsTo
<1>7. LeadsTo(j, Len(b), base2, final)
  BY <1>2, <1>4, <1>5, <1>6 DEF LeadsTo
<1>8. LeadsTo(j, 0, base2, final)
  BY <1>2, <1>5, <1>6 DEF LeadsTo
<1> QED
  BY <1>7, <1>8

\* What follows a written prefix departs from the residency just written.
LEMMA WriteAlternates ==
    ASSUME NEW j \in Seq(JournalEntry), NEW b, Prefix(b, j),
           NEW base, NEW base2, Rewritten(b, base, base2),
           Alternates(j, 0, base)
    PROVE  Alternates(j, Len(b), base2)
<1>1. /\ b \in Seq(JournalEntry) /\ Len(b) \in Nat /\ Len(j) \in Nat
      /\ Len(b) <= Len(j)
      /\ DOMAIN b = 1 .. Len(b)
      /\ \A i \in 1 .. Len(b) : b[i] = j[i]
  BY DEF Prefix
<1>2. After(j, Len(b)) \subseteq After(j, 0) /\ 1 .. Len(b) \subseteq After(j, 0)
  BY <1>1 DEF After
<1>3. \A i \in After(j, 0) : i \in 1 .. Len(b) \/ i \in After(j, Len(b))
  BY <1>1 DEF After
<1>4. ASSUME NEW i \in After(j, Len(b)), FirstAfter(j, Len(b), i)
      PROVE  j[i].direction = "Add" <=> j[i].txid \notin base2
  <2>0. i \in 1 .. Len(j)
    BY <1>1 DEF After
  <2>1. j[i].txid \in TxId /\ j[i].direction \in {"Add", "Remove"}
    BY <2>0, EntryFields
  <2>2. CASE Mentions(b, j[i].txid)
    <3> DEFINE l == LastIndex(b, j[i].txid)
    <3>1. l \in 1 .. Len(b) /\ b[l].txid = j[i].txid /\ IsLast(b, l)
      BY <1>1, <2>2, LastIndexExists
    <3>2. j[i].txid \in base2 <=> b[l].direction = "Add"
      BY <2>1, <2>2 DEF Rewritten
    <3>3. b[l].direction \in {"Add", "Remove"}
      BY <1>1, <3>1, EntryFields
    <3> HIDE DEF l
    <3>4. \A k \in 1 .. Len(b) : k > l => j[k].txid # j[i].txid
      BY <1>1, <3>1 DEF IsLast
    <3>5. Consecutive(j, 0, l, i) /\ j[l] = b[l]
      BY <1>1, <1>2, <1>3, <1>4, <2>0, <3>1, <3>4 DEF Consecutive, FirstAfter, After
    <3>6. b[l].direction # j[i].direction
      BY <1>2, <3>1, <3>5 DEF Alternates
    <3> QED
      BY <2>1, <3>2, <3>3, <3>6
  <2>3. CASE ~Mentions(b, j[i].txid)
    <3>1. FirstAfter(j, 0, i)
      BY <1>1, <1>3, <1>4, <2>3 DEF FirstAfter, Mentions
    <3>2. j[i].txid \in base2 <=> j[i].txid \in base
      BY <2>1, <2>3 DEF Rewritten
    <3> QED
      BY <1>2, <3>1, <3>2 DEF Alternates
  <2> QED
    BY <2>2, <2>3
<1>5. ASSUME NEW i \in After(j, Len(b)), NEW k \in After(j, Len(b)),
             Consecutive(j, Len(b), i, k)
      PROVE  j[i].direction # j[k].direction
  <2>1. Consecutive(j, 0, i, k)
    BY <1>1, <1>5 DEF Consecutive, After
  <2> QED
    BY <1>2, <2>1 DEF Alternates
<1> QED
  BY <1>4, <1>5 DEF Alternates

\* Dropping the written prefix renumbers the rest and changes nothing else.
LEMMA DrainKeepsAccount ==
    ASSUME NEW j \in Seq(JournalEntry), NEW n \in 0 .. Len(j), NEW base, NEW final
    PROVE  LET jj == SubSeq(j, n + 1, Len(j))
           IN  /\ jj \in Seq(JournalEntry)
               /\ Len(jj) = Len(j) - n
               /\ LeadsTo(j, n, base, final) => LeadsTo(jj, 0, base, final)
               /\ Alternates(j, n, base) => Alternates(jj, 0, base)
<1> DEFINE jj == SubSeq(j, n + 1, Len(j))
<1>1. /\ jj \in Seq(JournalEntry)
      /\ Len(j) \in Nat /\ Len(jj) = Len(j) - n
      /\ \A i \in 1 .. Len(jj) : jj[i] = j[i + n]
  BY SubSeqProperties
<1> HIDE DEF jj
<1>2. \A i \in After(jj, 0) : i \in Nat /\ i + n \in After(j, n) /\ jj[i] = j[i + n]
  BY <1>1 DEF After
<1>3. \A k \in After(j, n) : /\ k \in Nat /\ k - n \in After(jj, 0)
                            /\ k - n \in Nat /\ jj[k - n] = j[k]
  BY <1>1 DEF After
<1>4. ASSUME NEW i \in After(jj, 0)
      PROVE  /\ LastAfter(jj, 0, i) => LastAfter(j, n, i + n)
             /\ FirstAfter(jj, 0, i) => FirstAfter(j, n, i + n)
  <2>1. \A k \in After(j, n) : (k > i + n => k - n > i) /\ (k < i + n => k - n < i)
    <3>1. i \in Nat /\ n \in Nat /\ \A k \in After(j, n) : k \in Nat
      BY <1>2, <1>3
    <3> QED
      BY <3>1
  <2>2. jj[i].txid = j[i + n].txid
    BY <1>2
  <2>3. \A k \in After(j, n) : k - n \in After(jj, 0) /\ jj[k - n].txid = j[k].txid
    BY <1>3
  <2>4. LastAfter(jj, 0, i) => LastAfter(j, n, i + n)
    BY <2>1, <2>2, <2>3 DEF LastAfter
  <2>5. FirstAfter(jj, 0, i) => FirstAfter(j, n, i + n)
    BY <2>1, <2>2, <2>3 DEF FirstAfter
  <2> QED
    BY <2>4, <2>5
<1>5. ASSUME NEW i \in After(jj, 0), NEW k \in After(jj, 0), Consecutive(jj, 0, i, k)
      PROVE  Consecutive(j, n, i + n, k + n)
  <2>1. \A m \in After(j, n) : i + n < m /\ m < k + n => i < m - n /\ m - n < k
    <3>1. i \in Nat /\ k \in Nat /\ n \in Nat /\ \A m \in After(j, n) : m \in Nat
      BY <1>2, <1>3
    <3> QED
      BY <3>1
  <2>2. i + n < k + n
    BY <1>2, <1>5 DEF Consecutive
  <2>3. jj[i].txid = j[i + n].txid /\ jj[k].txid = j[k + n].txid
    BY <1>2
  <2>4. \A m \in After(j, n) : m - n \in After(jj, 0) /\ jj[m - n].txid = j[m].txid
    BY <1>3
  <2>5. /\ jj[i].txid = jj[k].txid
        /\ \A m \in After(jj, 0) : i < m /\ m < k => jj[m].txid # jj[i].txid
    BY <1>5 DEF Consecutive
  <2>6. \A m \in After(j, n) : i + n < m /\ m < k + n => j[m].txid # j[i + n].txid
    BY <2>1, <2>3, <2>4, <2>5
  <2> QED
    BY <2>2, <2>3, <2>5, <2>6 DEF Consecutive
<1>6. ASSUME LeadsTo(j, n, base, final)
      PROVE  LeadsTo(jj, 0, base, final)
  <2>1. \A i \in After(jj, 0) : LastAfter(jj, 0, i) =>
           (jj[i].direction = "Add" <=> jj[i].txid \in final)
    BY <1>2, <1>4, <1>6 DEF LeadsTo
  <2>2. ASSUME NEW t \in TxId, \A i \in After(jj, 0) : jj[i].txid # t
        PROVE  t \in final <=> t \in base
    <3>1. \A k \in After(j, n) : j[k].txid # t
      BY <1>3, <2>2
    <3> QED
      BY <1>6, <3>1 DEF LeadsTo
  <2> QED
    BY <2>1, <2>2 DEF LeadsTo
<1>7. ASSUME Alternates(j, n, base)
      PROVE  Alternates(jj, 0, base)
  <2>1. \A i \in After(jj, 0) : FirstAfter(jj, 0, i) =>
           (jj[i].direction = "Add" <=> jj[i].txid \notin base)
    BY <1>2, <1>4, <1>7 DEF Alternates
  <2>2. \A i, k \in After(jj, 0) : Consecutive(jj, 0, i, k) =>
           jj[i].direction # jj[k].direction
    BY <1>2, <1>5, <1>7 DEF Alternates
  <2> QED
    BY <2>1, <2>2 DEF Alternates
<1> QED
  BY <1>1, <1>6, <1>7 DEF jj

(***************************************************************************)
(* The ledger's operations queue steps, and respect the cap.               *)
(***************************************************************************)

\* The empty set has the empty order.
LEMMA EmptyOrder == <<>> \in Orders({}) /\ \A d : Entries(<<>>, d) = <<>>
<1>1. Cardinality({}) = 0
  BY FS_EmptySet
<1>2. <<>> \in [1 .. 0 -> {}]
  OBVIOUS
<1>3. <<>> \in Orders({})
  BY <1>1, <1>2 DEF Orders
<1>4. \A d : Entries(<<>>, d) = <<>>
  BY DEF Entries
<1> QED
  BY <1>3, <1>4

\* A ledger call queues a step from live to live', or what fits of it.
LEMMA LedgerCallQueues ==
    ASSUME LedgerTypeOK, LedgerCall
    PROVE  live' \in SUBSET TxId /\ \E es : Step(es, live, live') /\ push(es)
<1>0. live \in SUBSET TxId
  BY DEF LedgerTypeOK
<1>1. PICK txids \in SUBSET TxId : \/ submit_authoritative(txids)
                                   \/ assert_present(txids)
                                   \/ assert_absent(txids)
  BY DEF LedgerCall
<1>2. CASE submit_authoritative(txids)
  <2>1. PICK adds \in Orders(txids \ live), removes \in Orders(live \ txids) :
           push(Entries(adds, "Add") \o Entries(removes, "Remove"))
    BY <1>2 DEF submit_authoritative
  <2>2. live' = txids /\ live' = (live \cup (txids \ live)) \ (live \ txids)
    BY <1>2 DEF submit_authoritative
  <2>3. Step(Entries(adds, "Add") \o Entries(removes, "Remove"), live, live')
    BY <1>0, <2>2, EntriesAreAStep
  <2> QED
    BY <2>1, <2>2, <2>3
<1>3. CASE assert_present(txids)
  <2>1. PICK adds \in Orders(txids \ live) : push(Entries(adds, "Add"))
    BY <1>3 DEF assert_present
  <2>2. live' = live \cup txids /\ live' = (live \cup (txids \ live)) \ {}
    BY <1>3 DEF assert_present
  <2>3. Entries(adds, "Add") \in Seq(JournalEntry)
    BY EntriesOfOrder DEF Direction
  <2>4. Entries(adds, "Add") \o Entries(<<>>, "Remove") = Entries(adds, "Add")
    BY <2>3, EmptyOrder, ConcatEmptySeq
  <2>5. Step(Entries(adds, "Add") \o Entries(<<>>, "Remove"), live, live')
    BY <1>0, <2>2, EmptyOrder, EntriesAreAStep
  <2> QED
    BY <1>0, <2>1, <2>2, <2>4, <2>5
<1>4. CASE assert_absent(txids)
  <2>1. PICK removes \in Orders(txids \cap live) : push(Entries(removes, "Remove"))
    BY <1>4 DEF assert_absent
  <2>2. live' = live \ txids /\ live' = (live \cup {}) \ (txids \cap live)
    BY <1>4 DEF assert_absent
  <2>3. Entries(removes, "Remove") \in Seq(JournalEntry)
    BY EntriesOfOrder DEF Direction
  <2>4. Entries(<<>>, "Add") \o Entries(removes, "Remove") = Entries(removes, "Remove")
    BY <2>3, EmptyOrder, ConcatEmptySeq
  <2>5. Step(Entries(<<>>, "Add") \o Entries(removes, "Remove"), live, live')
    BY <1>0, <2>2, EmptyOrder, EntriesAreAStep
  <2> QED
    BY <1>0, <2>1, <2>2, <2>4, <2>5
<1> QED
  BY <1>1, <1>2, <1>3, <1>4

\* Appending keeps the front of the journal and the cap.
LEMMA AppendKeepsFront ==
    ASSUME LedgerTypeOK, NEW es \in Seq(JournalEntry), append(es)
    PROVE  /\ journal' \in Seq(JournalEntry)
           /\ Len(journal') <= JournalCap
           /\ Len(journal) <= Len(journal')
           /\ \A i \in 1 .. Len(journal) : journal'[i] = journal[i]
           /\ Fits(es) => journal' = journal \o es
<1> DEFINE m == IF Fits(es) THEN Len(es) ELSE Room
           kept == SubSeq(es, 1, m)
<1>1. /\ journal \in Seq(JournalEntry) /\ Len(journal) <= JournalCap
      /\ JournalCap \in Nat /\ Len(journal) \in Nat /\ Len(es) \in Nat
  BY JournalCapAssumption DEF LedgerTypeOK
<1>2. m \in 0 .. Len(es) /\ m <= JournalCap - Len(journal)
  BY <1>1 DEF Fits, Room
<1> HIDE DEF m
<1>3. kept \in Seq(JournalEntry) /\ Len(kept) = m
  BY <1>2, SubSeqProperties
<1>4. journal' = journal \o kept
  BY DEF append, m
<1>5. Fits(es) => kept = es
  BY <1>1, SubSeqFull DEF m
<1> HIDE DEF kept
<1>6. /\ journal \o kept \in Seq(JournalEntry)
      /\ Len(journal \o kept) = Len(journal) + Len(kept)
      /\ \A i \in 1 .. Len(journal) : (journal \o kept)[i] = journal[i]
  BY <1>1, <1>3
<1>7. Len(journal') <= JournalCap /\ Len(journal) <= Len(journal')
  BY <1>1, <1>2, <1>3, <1>4, <1>6
<1> QED
  BY <1>4, <1>5, <1>6, <1>7

\* A push that leaves the journal sound has queued everything.
LEMMA PushAppends ==
    ASSUME LedgerTypeOK, NEW es \in Seq(JournalEntry), push(es)
    PROVE  /\ journal' \in Seq(JournalEntry)
           /\ Len(journal') <= JournalCap
           /\ Len(journal) <= Len(journal')
           /\ \A i \in 1 .. Len(journal) : journal'[i] = journal[i]
           /\ degraded' \in BOOLEAN
           /\ ~degraded' => ~degraded /\ journal' = journal \o es
<1>1. append(es)
  BY DEF push
<1>2. degraded' \in BOOLEAN /\ (~degraded' => ~degraded /\ Fits(es))
  BY DEF push
<1> QED
  BY <1>1, <1>2, AppendKeepsFront

\* Replaying the journal on what the database holds is what the journal leads
\* to, so the repair queues a step from there to `live'.
LEMMA RepairQueues ==
    ASSUME LedgerTypeOK, Repair
    PROVE  LET eventual == Replay(journal, Resident)
           IN  /\ LeadsTo(journal, 0, Resident, eventual)
               /\ \E es : /\ Step(es, eventual, live)
                          /\ append(es)
                          /\ degraded' = ~Fits(es)
<1> DEFINE eventual == Replay(journal, Resident)
<1>0. journal \in Seq(JournalEntry) /\ live \in SUBSET TxId
  BY DEF LedgerTypeOK
<1>1. eventual \in SUBSET TxId
  BY DEF Replay
<1>2. PICK adds \in Orders(live \ eventual), removes \in Orders(eventual \ live) :
         /\ append(Entries(adds, "Add") \o Entries(removes, "Remove"))
         /\ degraded' = ~Fits(Entries(adds, "Add") \o Entries(removes, "Remove"))
  BY DEF Repair, reconcile_against
<1>3. \A t \in TxId : t \in eventual <=> IF Mentions(journal, t)
                                         THEN journal[LastIndex(journal, t)].direction = "Add"
                                         ELSE t \in Resident
  BY DEF Replay
<1> HIDE DEF eventual
<1>4. live = (eventual \cup (live \ eventual)) \ (eventual \ live)
  OBVIOUS
<1>5. Step(Entries(adds, "Add") \o Entries(removes, "Remove"), eventual,
           (eventual \cup (live \ eventual)) \ (eventual \ live))
  BY <1>0, <1>1, EntriesAreAStep
<1>6. ASSUME NEW i \in After(journal, 0), LastAfter(journal, 0, i)
      PROVE  journal[i].direction = "Add" <=> journal[i].txid \in eventual
  <2> DEFINE l == LastIndex(journal, journal[i].txid)
  <2>1. i \in 1 .. Len(journal) /\ Len(journal) \in Nat
    BY <1>0 DEF After
  <2>2. journal[i].txid \in TxId /\ Mentions(journal, journal[i].txid)
    BY <1>0, <2>1, EntryFields DEF Mentions
  <2>3. l \in 1 .. Len(journal) /\ journal[l].txid = journal[i].txid /\ IsLast(journal, l)
    BY <1>0, <2>2, LastIndexExists
  <2> HIDE DEF l
  <2>4. l = i
    BY <1>0, <1>6, <2>1, <2>3 DEF LastAfter, IsLast, After
  <2> QED
    BY <1>3, <2>2, <2>4 DEF l
<1>7. ASSUME NEW t \in TxId, \A i \in After(journal, 0) : journal[i].txid # t
      PROVE  t \in eventual <=> t \in Resident
  <2>1. ~Mentions(journal, t)
    BY <1>0, <1>7 DEF Mentions, After
  <2> QED
    BY <1>3, <2>1
<1>8. LeadsTo(journal, 0, Resident, eventual)
  BY <1>6, <1>7 DEF LeadsTo
<1> QED
  BY <1>2, <1>4, <1>5, <1>8 DEF eventual

(***************************************************************************)
(* Type correctness.                                                       *)
(***************************************************************************)

\* The initial state is well typed.
LEMMA InitTypeOK == ReconcilerInit => ReconcilerTypeOK
<1> SUFFICES ASSUME ReconcilerInit PROVE ReconcilerTypeOK
  OBVIOUS
<1>1. LedgerTypeOK
  <2>1. journal \in Seq(JournalEntry) /\ Len(journal) <= JournalCap
    BY JournalCapAssumption DEF ReconcilerInit, LedgerInit
  <2> QED
    BY <2>1 DEF ReconcilerInit, LedgerInit, LedgerTypeOK
<1>2. GateTypeOK
  BY DEF ReconcilerInit, GateInit, GateTypeOK, Open
<1>3. in_flight <=> tick \in Ticking
  BY DEF ReconcilerInit, GateInit, Ticking, InTransaction
<1> QED
  BY <1>1, <1>2, <1>3 DEF ReconcilerInit, ReconcilerTypeOK, Reason

\* Every step of the reconciler and of its environment preserves the types,
\* the journal cap and the lease's agreement with the tick.
LEMMA NextTypeOK ==
    ASSUME ReconcilerTypeOK, [RepairedNext]_reconcilerVars
    PROVE  ReconcilerTypeOK'
<1> USE DEF ReconcilerTypeOK, Ticking, InTransaction
<1>1. CASE BeginFlush
  BY <1>1 DEF BeginFlush, LeaseGranted, LedgerTypeOK, GateTypeOK, ledgerVars, dbVars
<1>2. CASE Classify
  BY <1>2 DEF Classify, LedgerTypeOK, GateTypeOK, ledgerVars, gateVars, dbVars,
              distinct_txids, ConfirmedAt
<1>3. CASE WriteRows
  BY <1>3 DEF WriteRows, LedgerTypeOK, GateTypeOK, ledgerVars, gateVars, dbVars
<1>4. ASSUME write_batch
      PROVE  /\ row' \in [TxId -> Reason \cup {"none"}]
             /\ tx' \in [TxId -> {"none", "hollow", "confirmed"}]
  BY <1>4 DEF write_batch, Reason, reason
<1>5. CASE Commits
  BY <1>4, <1>5 DEF Commits, LedgerTypeOK, GateTypeOK, ledgerVars, gateVars
<1>6. CASE CommitAckLost
  <2>1. GateTypeOK' /\ (in_flight' <=> tick' \in Ticking)
    BY <1>6 DEF CommitAckLost, LeaseDrops, GateTypeOK
  <2> QED
    BY <1>4, <1>6, <2>1 DEF CommitAckLost, LedgerTypeOK, ledgerVars
<1>7. CASE Abandon
  <2>1. GateTypeOK' /\ (in_flight' <=> tick' \in Ticking)
    BY <1>7 DEF Abandon, LeaseDrops, GateTypeOK
  <2> QED
    BY <1>7, <2>1 DEF Abandon, LedgerTypeOK, ledgerVars, dbVars
<1>8. CASE DrainJournal
  <2>1. /\ journal' \in Seq(JournalEntry)
        /\ Len(journal') <= JournalCap
    BY <1>8, JournalCapAssumption DEF DrainJournal, commit, LedgerTypeOK
  <2> QED
    BY <1>8, <2>1 DEF DrainJournal, commit, LedgerTypeOK, GateTypeOK, gateVars, dbVars
<1>9. CASE Crash
  <2>1. GateTypeOK' /\ (in_flight' <=> tick' \in Ticking)
    BY <1>9 DEF Crash, GateTypeOK
  <2>2. journal' \in Seq(JournalEntry) /\ Len(journal') <= JournalCap
    BY <1>9, JournalCapAssumption DEF Crash
  <2>3. LedgerTypeOK'
    BY <1>9, <2>2 DEF Crash, LedgerTypeOK
  <2> QED
    BY <1>9, <2>1, <2>3 DEF Crash, dbVars
<1>10. CASE Seed
  BY <1>10 DEF Seed, seed, Resident, LedgerTypeOK, GateTypeOK, gateVars, dbVars
<1>11. CASE LedgerCall
  <2>1. PICK es : Step(es, live, live') /\ push(es)
    BY <1>11, LedgerCallQueues
  <2>2. LedgerTypeOK'
    BY <1>11, <2>1, LedgerCallQueues, PushAppends DEF LedgerTypeOK, Step
  <2> QED
    BY <1>11, <2>2 DEF LedgerCall, GateTypeOK, gateVars, tickVars, dbVars
<1>12. CASE BlockConfirms
  BY <1>12 DEF BlockConfirms, LedgerTypeOK, GateTypeOK, ledgerVars, gateVars, tickVars
<1>13. CASE RowsUpserted
  BY <1>13 DEF RowsUpserted, LedgerTypeOK, GateTypeOK, ledgerVars, gateVars, tickVars
<1>14. CASE GateMoves
  <2>1. in_flight' = in_flight
    BY <1>14 DEF GateMoves, CeilingFires, AcquireShuts, AcquireReturns, GuardDrops, Elapse
  <2>2. expired' \in BOOLEAN /\ holder' \in {"none", "waiting", "inside"}
    BY <1>14 DEF GateMoves, GateTypeOK, CeilingFires, AcquireShuts, AcquireReturns,
                 GuardDrops, Elapse
  <2>3. held_since' \in {Open} \cup (0 .. MaxHold)
    BY <1>14, MaxHoldAssumption
       DEF GateMoves, GateTypeOK, CeilingFires, AcquireShuts, AcquireReturns,
           GuardDrops, Elapse, IsHeld, Open
  <2>4. GateTypeOK'
    BY <2>1, <2>2, <2>3 DEF GateTypeOK
  <2> QED
    BY <1>14, <2>1, <2>4 DEF GateMoves, LedgerTypeOK, ledgerVars, tickVars, dbVars
<1>15. CASE Repair
  <2>1. PICK es, eventual : /\ Step(es, eventual, live)
                            /\ append(es)
                            /\ degraded' = ~Fits(es)
    BY <1>15, RepairQueues
  <2>2. journal' \in Seq(JournalEntry) /\ Len(journal') <= JournalCap
    BY <2>1, AppendKeepsFront DEF Step
  <2>3. LedgerTypeOK'
    BY <1>15, <2>1, <2>2 DEF Repair, reconcile_against, LedgerTypeOK
  <2> QED
    BY <1>15, <2>3 DEF Repair, GateTypeOK, gateVars, tickVars, dbVars
<1>16. CASE UNCHANGED reconcilerVars
  BY <1>16 DEF reconcilerVars, LedgerTypeOK, GateTypeOK, ledgerVars, gateVars,
               tickVars, dbVars
<1> QED
  BY <1>1, <1>2, <1>3, <1>5, <1>6, <1>7, <1>8, <1>9, <1>10, <1>11, <1>12, <1>13,
     <1>14, <1>15, <1>16
     DEF RepairedNext, ReconcilerNext, Preempted, WriteFails, EndTick

\* Type correctness, for any number of txids, journal cap and ceiling, and
\* also when the answer to a COMMIT can be lost.
THEOREM TypeCorrect == RepairedSpec => []ReconcilerTypeOK
<1> QED
  BY InitTypeOK, NextTypeOK, PTL DEF RepairedSpec

(***************************************************************************)
(* The block gate.                                                         *)
(***************************************************************************)

\* NoFlushDuringBlock is inductive together with: under a block that is
\* inside, the gate is open only because it expired.
GateInv ==
    /\ NoFlushDuringBlock
    /\ holder = "inside" /\ held_since = Open => expired

\* Every step preserves it: the lease is only granted with the gate open, and
\* acquire only returns with no tick in flight.
LEMMA NextGateInv ==
    ASSUME ReconcilerTypeOK, GateInv, [RepairedNext]_reconcilerVars
    PROVE  GateInv'
<1> USE DEF GateInv, NoFlushDuringBlock
<1>1. CASE UNCHANGED gateVars
  BY <1>1 DEF gateVars
<1>2. CASE LeaseGranted
  BY <1>2 DEF LeaseGranted, IsOpen
<1>3. CASE LeaseDrops
  BY <1>3 DEF LeaseDrops
<1>4. CASE CeilingFires
  BY <1>4 DEF CeilingFires
<1>5. CASE AcquireShuts
  BY <1>5 DEF AcquireShuts
<1>6. CASE AcquireReturns
  BY <1>6 DEF AcquireReturns
<1>7. CASE GuardDrops
  BY <1>7 DEF GuardDrops
<1>8. CASE Elapse
  <2>1. held_since' # Open
    BY <1>8 DEF Elapse, IsHeld, ReconcilerTypeOK, GateTypeOK, Open
  <2>2. held_since # Open
    BY <1>8 DEF Elapse, IsHeld
  <2> QED
    BY <1>8, <2>1, <2>2 DEF Elapse
<1>9. CASE Crash
  BY <1>9 DEF Crash
<1>10. CASE GateMoves
  BY <1>10, <1>4, <1>5, <1>6, <1>7, <1>8 DEF GateMoves
<1>11. CASE Abandon
  BY <1>11, <1>3 DEF Abandon
<1> QED
  BY <1>1, <1>2, <1>3, <1>9, <1>10, <1>11
     DEF RepairedNext, ReconcilerNext, BeginFlush, Classify, WriteRows, Commits,
         Preempted, WriteFails, CommitAckLost, DrainJournal, EndTick, Seed,
         LedgerCall, BlockConfirms, RowsUpserted, Repair, reconcilerVars

\* Mutual exclusion of a tick and a block up to the MAX_HOLD ceiling, however
\* long the tick in flight makes the block wait (block_gate.rs:23-24).
THEOREM GateExcludes == RepairedSpec => []NoFlushDuringBlock
<1>1. ReconcilerInit => GateInv
  BY DEF ReconcilerInit, GateInit, GateInv, NoFlushDuringBlock
<1>2. GateInv => NoFlushDuringBlock
  BY DEF GateInv
<1> QED
  BY <1>1, <1>2, NextGateInv, TypeCorrect, PTL DEF RepairedSpec

\* A step changes what LabelsAreCurrent reads only when the tick classifies, or
\* by a block inside the gate, which then has expired.
LEMMA NextLabels ==
    ASSUME ReconcilerTypeOK, GateInv, LabelsAreCurrent, [RepairedNext]_reconcilerVars
    PROVE  LabelsAreCurrent'
<1> USE DEF LabelsAreCurrent
<1>1. ASSUME tick' \notin {"write", "commit"}
      PROVE  LabelsAreCurrent'
  BY <1>1
<1>2. ASSUME UNCHANGED tickVars, UNCHANGED expired, ConfirmedAt' = ConfirmedAt
      PROVE  LabelsAreCurrent'
  BY <1>2 DEF tickVars, distinct_txids
<1>3. CASE Classify
  <2>1. confirmed' = distinct_txids(batch, "Remove") \cap ConfirmedAt
    BY <1>3 DEF Classify
  <2>2. batch' = batch /\ tx' = tx
    BY <1>3 DEF Classify, dbVars
  <2> QED
    BY <2>1, <2>2 DEF distinct_txids, ConfirmedAt
<1>4. CASE WriteRows
  BY <1>4 DEF WriteRows, distinct_txids, ConfirmedAt, gateVars, dbVars
<1>5. CASE BlockConfirms
  <2>1. CASE tick \in {"write", "commit"}
    <3>1. in_flight
      BY <2>1 DEF ReconcilerTypeOK, Ticking, InTransaction
    <3>2. expired'
      BY <1>5, <3>1 DEF BlockConfirms, GateInv, NoFlushDuringBlock, gateVars
    <3> QED
      BY <3>2
  <2>2. CASE tick \notin {"write", "commit"}
    BY <1>1, <1>5, <2>2 DEF BlockConfirms, tickVars
  <2> QED
    BY <2>1, <2>2
<1>6. CASE RowsUpserted
  <2>1. ConfirmedAt' = ConfirmedAt
    BY <1>6 DEF RowsUpserted, ConfirmedAt, ReconcilerTypeOK
  <2> QED
    BY <1>2, <1>6, <2>1 DEF RowsUpserted, gateVars
<1>7. CASE LedgerCall \/ Repair
  BY <1>2, <1>7 DEF LedgerCall, Repair, ConfirmedAt, gateVars, dbVars
<1>8. CASE GateMoves
  <2>0. ConfirmedAt' = ConfirmedAt /\ UNCHANGED tickVars
    BY <1>8 DEF GateMoves, ConfirmedAt, dbVars
  <2>1. CASE AcquireReturns
    <3>1. tick' \notin {"write", "commit"}
      BY <2>0, <2>1 DEF AcquireReturns, ReconcilerTypeOK, Ticking, InTransaction, tickVars
    <3> QED
      BY <1>1, <3>1
  <2>2. CASE CeilingFires
    BY <2>2 DEF CeilingFires
  <2>3. CASE AcquireShuts \/ GuardDrops \/ Elapse
    BY <1>2, <2>0, <2>3 DEF AcquireShuts, GuardDrops, Elapse
  <2> QED
    BY <1>8, <2>1, <2>2, <2>3 DEF GateMoves
<1>9. CASE UNCHANGED reconcilerVars
  BY <1>2, <1>9 DEF reconcilerVars, gateVars, dbVars, ConfirmedAt
<1> QED
  BY <1>1, <1>3, <1>4, <1>5, <1>6, <1>7, <1>8, <1>9
     DEF RepairedNext, ReconcilerNext, BeginFlush, Commits, Preempted, WriteFails,
         Abandon, CommitAckLost, DrainJournal, EndTick, Crash, Seed

\* Removals are committed under current labels unless the ceiling fired
\* (mempool_ledger.rs:36-39), whatever blocks arrive during the flush.
THEOREM LabelsCorrect == RepairedSpec => []LabelsAreCurrent
<1>1. ReconcilerInit => GateInv /\ LabelsAreCurrent
  BY DEF ReconcilerInit, GateInit, GateInv, NoFlushDuringBlock, LabelsAreCurrent
<1> QED
  BY <1>1, NextLabels, NextGateInv, TypeCorrect, PTL DEF RepairedSpec

(***************************************************************************)
(* The journal and the database.                                           *)
(***************************************************************************)

\* Only a tick drops entries, so the others can only append after its batch.
LEMMA NextBatchIsPrefix ==
    ASSUME ReconcilerTypeOK, BatchIsPrefix, [RepairedNext]_reconcilerVars
    PROVE  BatchIsPrefix'
<1> USE DEF BatchIsPrefix, InTransaction
<1>1. ASSUME tick' \in {"down", "idle", "sync"}
      PROVE  BatchIsPrefix'
  BY <1>1
<1>2. CASE BeginFlush
  BY <1>2 DEF BeginFlush, ledgerVars, ReconcilerTypeOK, LedgerTypeOK
<1>3. CASE Classify \/ WriteRows \/ Commits
  BY <1>3 DEF Classify, WriteRows, Commits, ledgerVars
<1>4. CASE LedgerCall
  <2>0. LedgerTypeOK /\ batch \in Seq(JournalEntry)
    BY DEF ReconcilerTypeOK
  <2>1. PICK es : Step(es, live, live') /\ push(es)
    BY <1>4, <2>0, LedgerCallQueues
  <2>2. /\ Len(journal) <= Len(journal')
        /\ \A i \in 1 .. Len(journal) : journal'[i] = journal[i]
        /\ journal' \in Seq(JournalEntry) /\ journal \in Seq(JournalEntry)
    BY <2>0, <2>1, PushAppends DEF Step, LedgerTypeOK
  <2>3. tick' = tick /\ batch' = batch
    BY <1>4 DEF LedgerCall, tickVars
  <2> QED
    BY <2>0, <2>2, <2>3
<1>5. CASE UNCHANGED <<ledgerVars, tickVars>>
  BY <1>5 DEF ledgerVars, tickVars
<1> QED
  BY <1>1, <1>2, <1>3, <1>4, <1>5
     DEF RepairedNext, ReconcilerNext, Preempted, WriteFails, Abandon, CommitAckLost,
         DrainJournal, EndTick, Crash, Seed, BlockConfirms, RowsUpserted,
         GateMoves, Repair, tickVars, reconcilerVars

\* The drain drops exactly what the transaction wrote (mempool.rs:63-66).
THEOREM DrainsWhatItWrote == RepairedSpec => []BatchIsPrefix
<1>1. ReconcilerInit => BatchIsPrefix
  BY DEF ReconcilerInit, BatchIsPrefix, InTransaction
<1> QED
  BY <1>1, NextBatchIsPrefix, TypeCorrect, PTL DEF RepairedSpec

\* Until bootstrap, the ledger is as a new process leaves it.
DownIsClean == tick = "down" => journal = <<>> /\ ~degraded

\* The rows of a batch rewrite the residency as the batch says.
LEMMA BatchRewrites ==
    ASSUME write_batch, BatchIsPrefix, tick \in InTransaction, ReconcilerTypeOK
    PROVE  Rewritten(batch, Resident, Resident') /\ Prefix(batch, journal)
<1>1. \A t \in TxId : t \in Resident' <=> row'[t] = "add_mempool"
  BY DEF Resident
<1>2. \A t \in TxId : row'[t] = IF Mentions(batch, t)
                               THEN reason(batch[LastIndex(batch, t)]) ELSE row[t]
  BY DEF write_batch
<1>3. \A e : reason(e) = "add_mempool" <=> e.direction = "Add"
  BY DEF reason
<1>4. Rewritten(batch, Resident, Resident')
  BY <1>1, <1>2, <1>3 DEF Rewritten, Resident
<1>5. Prefix(batch, journal)
  BY DEF Prefix, BatchIsPrefix, ReconcilerTypeOK
<1> QED
  BY <1>4, <1>5

\* How each step changes the account, reduced to the lemmas above.
LEMMA NextCatchesUp ==
    ASSUME ReconcilerTypeOK, BatchIsPrefix, DownIsClean, DatabaseCatchesUp,
           [RepairedNext]_reconcilerVars
    PROVE  DownIsClean' /\ DatabaseCatchesUp'
<1> USE DEF DownIsClean, DatabaseCatchesUp
<1>0. /\ LedgerTypeOK /\ journal \in Seq(JournalEntry) /\ batch \in Seq(JournalEntry)
      /\ Len(journal) \in Nat /\ Len(batch) \in Nat
      /\ Written \in 0 .. Len(journal)
  BY DEF ReconcilerTypeOK, LedgerTypeOK, BatchIsPrefix, Written
<1>1. ASSUME UNCHANGED ledgerVars, row' = row, Written' = Written,
             tick = "down" <=> tick' = "down"
      PROVE  DownIsClean' /\ DatabaseCatchesUp'
  BY <1>1 DEF ledgerVars, Resident
<1>2. CASE BeginFlush \/ Classify \/ WriteRows
  BY <1>1, <1>2 DEF BeginFlush, Classify, WriteRows, Written, dbVars
<1>3. CASE (Abandon /\ tick \in InTransaction) \/ EndTick
  BY <1>1, <1>3 DEF Abandon, EndTick, InTransaction, Written, dbVars
<1>4. CASE Commits
  <2>1. tick = "commit" /\ tick' = "drain" /\ batch' = batch /\ UNCHANGED ledgerVars
    BY <1>4 DEF Commits
  <2>2. Written = 0 /\ Written' = Len(batch)
    BY <2>1 DEF Written
  <2>3. Rewritten(batch, Resident, Resident') /\ Prefix(batch, journal)
    BY <1>4, <2>1, BatchRewrites DEF Commits, InTransaction
  <2>4. LeadsTo(journal, 0, Resident, live) =>
           LeadsTo(journal, Len(batch), Resident', live)
    BY <1>0, <2>3, WriteLeadsTo
  <2> QED
    BY <2>1, <2>2, <2>4 DEF ledgerVars
<1>5. CASE CommitAckLost
  <2>1. tick = "commit" /\ tick' = "idle" /\ UNCHANGED ledgerVars
    BY <1>5 DEF CommitAckLost
  <2>2. Written = 0 /\ Written' = 0
    BY <2>1 DEF Written
  <2>3. Rewritten(batch, Resident, Resident') /\ Prefix(batch, journal)
    BY <1>5, <2>1, BatchRewrites DEF CommitAckLost, InTransaction
  <2>4. LeadsTo(journal, 0, Resident, live) => LeadsTo(journal, 0, Resident', live)
    BY <1>0, <2>3, WriteLeadsTo
  <2> QED
    BY <2>1, <2>2, <2>4 DEF ledgerVars
<1>6. CASE DrainJournal
  <2>1. /\ tick = "drain" /\ tick' = "sync" /\ live' = live /\ degraded' = degraded
        /\ Resident' = Resident
        /\ journal' = SubSeq(journal, Len(batch) + 1, Len(journal))
    BY <1>6 DEF DrainJournal, commit, Resident, dbVars
  <2>2. Written = Len(batch) /\ Written' = 0
    BY <2>1 DEF Written
  <2>3. LeadsTo(journal, Len(batch), Resident, live) => LeadsTo(journal', 0, Resident, live)
    BY <1>0, <2>1, <2>2, DrainKeepsAccount
  <2> QED
    BY <2>1, <2>2, <2>3
<1>7. CASE Crash
  BY <1>7 DEF Crash
<1>8. CASE Seed
  <2>1. /\ journal = <<>> /\ journal' = journal /\ tick' = "idle" /\ Written' = 0
        /\ Resident' = Resident /\ live' = Resident
    BY <1>8 DEF Seed, seed, DownIsClean, Written, Resident, dbVars
  <2>2. LeadsTo(journal, 0, Resident, Resident)
    BY <2>1 DEF LeadsTo, After
  <2> QED
    BY <2>1, <2>2
<1>9. CASE LedgerCall
  <2>1. PICK es : Step(es, live, live') /\ push(es)
    BY <1>0, <1>9, LedgerCallQueues
  <2>2. ~degraded' => ~degraded /\ journal' = journal \o es
    BY <1>0, <2>1, PushAppends DEF Step
  <2>3. /\ tick # "down" /\ tick' = tick /\ Written' = Written
        /\ Resident' = Resident
    BY <1>9 DEF LedgerCall, Written, Resident, tickVars, dbVars
  <2>4. LeadsTo(journal, Written, Resident, live) =>
           LeadsTo(journal \o es, Written, Resident, live')
    BY <1>0, <2>1, PushLeadsTo
  <2> QED
    BY <2>2, <2>3, <2>4
<1>10. CASE BlockConfirms \/ RowsUpserted \/ GateMoves
  BY <1>1, <1>10 DEF BlockConfirms, RowsUpserted, GateMoves, Written, tickVars, dbVars
<1>11. CASE UNCHANGED reconcilerVars
  BY <1>1, <1>11 DEF reconcilerVars, Written, tickVars, dbVars
<1>12. CASE Repair
  <2>1. PICK es : /\ Step(es, Replay(journal, Resident), live)
                  /\ append(es)
                  /\ degraded' = ~Fits(es)
    BY <1>0, <1>12, RepairQueues
  <2>2. ~degraded' => journal' = journal \o es
    BY <1>0, <2>1, AppendKeepsFront DEF Step
  <2>3. tick' = "idle" /\ Written' = 0 /\ Resident' = Resident /\ live' = live
    BY <1>12 DEF Repair, reconcile_against, Written, Resident, tickVars, dbVars
  <2>4. LeadsTo(journal \o es, 0, Resident, live)
    BY <1>0, <1>12, <2>1, RepairQueues, PushLeadsTo
  <2> QED
    BY <2>2, <2>3, <2>4
<1> QED
  BY <1>12, <1>2, <1>3, <1>4, <1>5, <1>6, <1>7, <1>8, <1>9, <1>10, <1>11
     DEF RepairedNext, ReconcilerNext, Preempted, WriteFails, InTransaction

\* While the journal has not overflowed, what the database believes plus what
\* the journal still holds is what the ledger believes: through failed,
\* preempted and unacknowledged writes, calls that interleave with a flush,
\* crashes and restarts; and a repair that fits restores it.
THEOREM CatchesUp == RepairedSpec => []DatabaseCatchesUp
<1>1. ReconcilerInit => DownIsClean /\ DatabaseCatchesUp
  BY DEF ReconcilerInit, LedgerInit, DownIsClean, DatabaseCatchesUp
<1> QED
  BY <1>1, NextCatchesUp, DrainsWhatItWrote, TypeCorrect, PTL DEF RepairedSpec

\* The same steps keep the alternation, provided COMMIT is acknowledged: a
\* batch that was written but not drained would be written again.
LEMMA NextTransitions ==
    ASSUME ReconcilerTypeOK, BatchIsPrefix, DownIsClean, DatabaseCatchesUp,
           EveryRowIsATransition, [ReconcilerNext]_reconcilerVars
    PROVE  EveryRowIsATransition'
<1> USE DEF EveryRowIsATransition
<1>0. /\ LedgerTypeOK /\ journal \in Seq(JournalEntry) /\ batch \in Seq(JournalEntry)
      /\ Len(journal) \in Nat /\ Len(batch) \in Nat
      /\ Written \in 0 .. Len(journal)
  BY DEF ReconcilerTypeOK, LedgerTypeOK, BatchIsPrefix, Written
<1>1. ASSUME UNCHANGED ledgerVars, row' = row, Written' = Written,
             tick = "down" <=> tick' = "down"
      PROVE  EveryRowIsATransition'
  BY <1>1 DEF ledgerVars, Resident
<1>2. CASE BeginFlush \/ Classify \/ WriteRows
  BY <1>1, <1>2 DEF BeginFlush, Classify, WriteRows, Written, dbVars
<1>3. CASE (Abandon /\ tick \in InTransaction) \/ EndTick
  BY <1>1, <1>3 DEF Abandon, EndTick, InTransaction, Written, dbVars
<1>4. CASE Commits
  <2>1. tick = "commit" /\ tick' = "drain" /\ batch' = batch /\ UNCHANGED ledgerVars
    BY <1>4 DEF Commits
  <2>2. Written = 0 /\ Written' = Len(batch)
    BY <2>1 DEF Written
  <2>3. Rewritten(batch, Resident, Resident') /\ Prefix(batch, journal)
    BY <1>4, <2>1, BatchRewrites DEF Commits, InTransaction
  <2>4. Alternates(journal, 0, Resident) => Alternates(journal, Len(batch), Resident')
    BY <1>0, <2>3, WriteAlternates
  <2> QED
    BY <2>1, <2>2, <2>4 DEF ledgerVars
<1>6. CASE DrainJournal
  <2>1. /\ tick = "drain" /\ tick' = "sync" /\ degraded' = degraded
        /\ Resident' = Resident
        /\ journal' = SubSeq(journal, Len(batch) + 1, Len(journal))
    BY <1>6 DEF DrainJournal, commit, Resident, dbVars
  <2>2. Written = Len(batch) /\ Written' = 0
    BY <2>1 DEF Written
  <2>3. Alternates(journal, Len(batch), Resident) => Alternates(journal', 0, Resident)
    BY <1>0, <2>1, <2>2, DrainKeepsAccount
  <2> QED
    BY <2>1, <2>2, <2>3
<1>7. CASE Crash
  BY <1>7 DEF Crash
<1>8. CASE Seed
  <2>1. /\ journal = <<>> /\ journal' = journal /\ tick' = "idle" /\ Written' = 0
        /\ Resident' = Resident
    BY <1>8 DEF Seed, seed, DownIsClean, Written, Resident, dbVars
  <2>2. Alternates(journal, 0, Resident)
    BY <2>1 DEF Alternates, After
  <2> QED
    BY <2>1, <2>2
<1>9. CASE LedgerCall
  <2>1. PICK es : Step(es, live, live') /\ push(es)
    BY <1>0, <1>9, LedgerCallQueues
  <2>2. ~degraded' => ~degraded /\ journal' = journal \o es
    BY <1>0, <2>1, PushAppends DEF Step
  <2>3. /\ tick # "down" /\ tick' = tick /\ Written' = Written
        /\ Resident' = Resident
    BY <1>9 DEF LedgerCall, Written, Resident, tickVars, dbVars
  <2>4. /\ Alternates(journal, Written, Resident)
        /\ LeadsTo(journal, Written, Resident, live)
        => Alternates(journal \o es, Written, Resident)
    BY <1>0, <2>1, PushAlternates
  <2> QED
    BY <2>2, <2>3, <2>4 DEF DatabaseCatchesUp
<1>10. CASE BlockConfirms \/ RowsUpserted \/ GateMoves
  BY <1>1, <1>10 DEF BlockConfirms, RowsUpserted, GateMoves, Written, tickVars, dbVars
<1>11. CASE UNCHANGED reconcilerVars
  BY <1>1, <1>11 DEF reconcilerVars, Written, tickVars, dbVars
<1> QED
  BY <1>2, <1>3, <1>4, <1>6, <1>7, <1>8, <1>9, <1>10, <1>11
     DEF ReconcilerNext, Preempted, WriteFails, InTransaction

\* No txid is ever recorded as added, or as removed, twice in a row, whichever
\* tasks report it and in whatever order (mempool.rs:363), as long as the
\* journal has not overflowed.
THEOREM NoDuplicateTransitions == ReconcilerSpec => []EveryRowIsATransition
<1>1. ReconcilerInit => DownIsClean /\ DatabaseCatchesUp /\ EveryRowIsATransition
  BY DEF ReconcilerInit, LedgerInit, DownIsClean, DatabaseCatchesUp,
         EveryRowIsATransition
<1>2. [ReconcilerNext]_reconcilerVars => [RepairedNext]_reconcilerVars
  BY DEF RepairedNext
<1>3. ReconcilerSpec => RepairedSpec
  BY <1>2, PTL DEF ReconcilerSpec, RepairedSpec
<1> QED
  BY <1>1, <1>2, <1>3, NextCatchesUp, NextTransitions, DrainsWhatItWrote, TypeCorrect, PTL
     DEF ReconcilerSpec
=============================================================================
