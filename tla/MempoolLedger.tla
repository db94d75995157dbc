--------------------------- MODULE MempoolLedger ---------------------------
(***************************************************************************)
(* shared/src/snapshot/mempool.rs: the single owner of what is in our      *)
(* mempool.  `live' is the set of resident txids; `journal' is the queue   *)
(* of in/out transitions that the reconciler has not written yet;          *)
(* `degraded' says that the journal has overflowed and lost entries.       *)
(*                                                                         *)
(* Every public method takes the one RwLock for its whole body, so each is *)
(* one atomic action.  A journal entry keeps its txid and direction; the   *)
(* time it carries matters only to the counter samples.                    *)
(***************************************************************************)
EXTENDS Naturals, Sequences, FiniteSets

CONSTANTS TxId,        \* the transactions that can appear in the mempool
          JournalCap   \* JOURNAL_CAP

ASSUME TxIdAssumption == IsFiniteSet(TxId)
ASSUME JournalCapAssumption == JournalCap \in Nat \ {0}

VARIABLES live, journal, degraded

ledgerVars == <<live, journal, degraded>>

Direction == {"Add", "Remove"}
JournalEntry == [txid : TxId, direction : Direction]

LedgerInit ==
    /\ live = {}
    /\ journal = <<>>
    /\ degraded = FALSE

(***************************************************************************)
(* Reading a sequence of entries.                                          *)
(***************************************************************************)
Mentions(es, t) == \E i \in DOMAIN es : es[i].txid = t
IsFirst(es, i) == \A k \in DOMAIN es : k < i => es[k].txid # es[i].txid
IsLast(es, i) == \A k \in DOMAIN es : k > i => es[k].txid # es[i].txid
LastIndex(es, t) == CHOOSE i \in DOMAIN es : es[i].txid = t /\ IsLast(es, i)

\* Applying entries in order to a residency set: per txid, the last one decides.
Replay(es, base) ==
    {t \in TxId : IF Mentions(es, t)
                  THEN es[LastIndex(es, t)].direction = "Add"
                  ELSE t \in base}

\* The entries after the first n, seen as transitions from the residency
\* `base': each txid's first one departs from base and its later ones
\* alternate.
After(es, n) == (n + 1) .. Len(es)
FirstAfter(es, n, i) == \A k \in After(es, n) : k < i => es[k].txid # es[i].txid
LastAfter(es, n, i) == \A k \in After(es, n) : k > i => es[k].txid # es[i].txid
Consecutive(es, n, i, k) ==
    /\ i < k
    /\ es[i].txid = es[k].txid
    /\ \A m \in After(es, n) : i < m /\ m < k => es[m].txid # es[i].txid

Alternates(es, n, base) ==
    /\ \A i \in After(es, n) : FirstAfter(es, n, i) =>
          (es[i].direction = "Add" <=> es[i].txid \notin base)
    /\ \A i, k \in After(es, n) : Consecutive(es, n, i, k) =>
          es[i].direction # es[k].direction

\* ... and they lead from base to the residency `final'.
LeadsTo(es, n, base, final) ==
    /\ \A i \in After(es, n) : LastAfter(es, n, i) =>
          (es[i].direction = "Add" <=> es[i].txid \in final)
    /\ \A t \in TxId : (\A i \in After(es, n) : es[i].txid # t) =>
          (t \in final <=> t \in base)

distinct_txids(es, direction) ==
    {t \in TxId : \E i \in DOMAIN es : es[i].txid = t /\ es[i].direction = direction}

\* Slip: a txid's first entry alone decides.
DeltaByFirst(es) ==
    LET first(d) == {t \in TxId : \E i \in DOMAIN es :
                        es[i].txid = t /\ IsFirst(es, i) /\ es[i].direction = d}
    IN  [added |-> first("Add"), removed |-> first("Remove")]

\* The net effect of a batch that is announced to subscribers: a txid counts
\* only when its first and its last entry go the same way.
residency_delta(es) ==
    LET net(d) == {t \in TxId : \E i, k \in DOMAIN es :
                      /\ es[i].txid = t /\ IsFirst(es, i) /\ es[i].direction = d
                      /\ es[k].txid = t /\ IsLast(es, k) /\ es[k].direction = d}
    IN  [added |-> net("Add"), removed |-> net("Remove")]

(***************************************************************************)
(* Queueing entries.  A HashSet is iterated in an arbitrary order, so a    *)
(* set of txids is pushed in any of its orders.  Entries past the cap are  *)
(* refused one by one, which keeps the first ones and sets `degraded'.     *)
(***************************************************************************)
Orders(S) ==
    {s \in [1 .. Cardinality(S) -> S] :
        /\ \A i, k \in DOMAIN s : i # k => s[i] # s[k]
        /\ \A t \in S : \E i \in DOMAIN s : s[i] = t}

Entries(s, d) == [i \in DOMAIN s |-> [txid |-> s[i], direction |-> d]]

Room == JournalCap - Len(journal)
Fits(es) == Len(es) <= Room

append(es) == journal' = journal \o SubSeq(es, 1, IF Fits(es) THEN Len(es) ELSE Room)

push(es) ==
    /\ append(es)
    /\ degraded' = (degraded \/ ~Fits(es))

(***************************************************************************)
(* The operations.                                                         *)
(***************************************************************************)
seed(txids) ==
    /\ live' = txids
    /\ UNCHANGED <<journal, degraded>>

submit_authoritative(txids) ==
    /\ \E adds \in Orders(txids \ live), removes \in Orders(live \ txids) :
          push(Entries(adds, "Add") \o Entries(removes, "Remove"))
    /\ live' = txids

\* Slip: queue every asserted txid, not only those that `live' did not have.
AssertPresentAgain(txids) ==
    /\ \E adds \in Orders(txids) : push(Entries(adds, "Add"))
    /\ live' = live \cup txids

assert_present(txids) ==
    /\ \E adds \in Orders(txids \ live) : push(Entries(adds, "Add"))
    /\ live' = live \cup txids

assert_absent(txids) ==
    /\ \E removes \in Orders(txids \cap live) : push(Entries(removes, "Remove"))
    /\ live' = live \ txids

\* Queues what the database will still lack once the journal has drained, and
\* clears `degraded' when all of it fitted.
reconcile_against(db_image) ==
    LET eventual == Replay(journal, db_image)
    IN  /\ \E adds \in Orders(live \ eventual), removes \in Orders(eventual \ live) :
              LET es == Entries(adds, "Add") \o Entries(removes, "Remove")
              IN  append(es) /\ degraded' = ~Fits(es)
        /\ UNCHANGED live

\* Slip: clear the journal instead of draining the batch from its front.
CommitClears(n) ==
    /\ journal' = <<>>
    /\ UNCHANGED <<live, degraded>>

\* FlushBatch::commit: drops the first n entries, whatever they are by now.
commit(n) ==
    /\ journal' = SubSeq(journal, n + 1, Len(journal))
    /\ UNCHANGED <<live, degraded>>

LedgerTypeOK ==
    /\ live \subseteq TxId
    /\ journal \in Seq(JournalEntry)
    /\ Len(journal) <= JournalCap
    /\ degraded \in BOOLEAN
=============================================================================
