---------------------------- MODULE ResidencyLog ----------------------------
(***************************************************************************)
(* What the ledger and the reconciler promise together, without the gate,  *)
(* the tick and its transaction: a set kept in memory that a stored copy   *)
(* follows.  Every change of the set is owed to the copy until it is       *)
(* stored, in the order of the changes, each exactly once; the copy only   *)
(* ever takes a front of what it is owed, all of it at once.  A change     *)
(* is forgotten only by saying so (`lossy'), or with the process, which    *)
(* starts again from the copy.                                             *)
(***************************************************************************)
EXTENDS Naturals, Sequences

CONSTANT TxId

VARIABLES running,   \* the process has read the copy
          resident,  \* the set in memory
          owed,      \* the transitions that the copy lacks
          copy,      \* the stored set
          lossy      \* some transition was dropped

logVars == <<running, resident, owed, copy, lossy>>

LogInit ==
    /\ running = FALSE
    /\ resident = {} /\ owed = <<>> /\ copy = {}
    /\ lossy = FALSE

Transitions(old, new) ==
    [txid : new \ old, direction : {"Add"}] \cup [txid : old \ new, direction : {"Remove"}]

\* The entries of a sequence decide: the last one of a txid does.
Final(es, base) ==
    {t \in TxId : \/ t \in base /\ \A i \in DOMAIN es : es[i].txid # t
                  \/ \E i \in DOMAIN es :
                        /\ es[i] = [txid |-> t, direction |-> "Add"]
                        /\ \A k \in DOMAIN es : k > i => es[k].txid # t}

\* Entries of `due' are put behind what is owed already, none of them twice.
Added == Len(owed) + 1 .. Len(owed')
Queues(due) ==
    /\ Len(owed) <= Len(owed')
    /\ \A i \in 1 .. Len(owed) : owed'[i] = owed[i]
    /\ \A i \in Added : owed'[i] \in due
    /\ \A i, k \in Added : i # k => owed'[i] # owed'[k]

Drops(due) == \E e \in due : \A i \in Added : owed'[i] # e

Changes ==
    /\ running
    /\ resident' \in SUBSET TxId
    /\ Queues(Transitions(resident, resident'))
    /\ lossy' = (lossy \/ Drops(Transitions(resident, resident')))
    /\ UNCHANGED <<running, copy>>

StoresFront ==
    /\ running
    /\ \E n \in 1 .. Len(owed) :
          /\ copy' = Final(SubSeq(owed, 1, n), copy)
          /\ owed' = SubSeq(owed, n + 1, Len(owed))
    /\ UNCHANGED <<running, resident, lossy>>

Forgets ==
    /\ running' = FALSE /\ resident' = {} /\ owed' = <<>> /\ lossy' = FALSE
    /\ UNCHANGED copy

Recovers ==
    /\ ~running
    /\ running' = TRUE
    /\ resident' = copy
    /\ UNCHANGED <<owed, copy, lossy>>

LogNext == Changes \/ StoresFront \/ Forgets \/ Recovers

LogSpec == LogInit /\ [][LogNext]_logVars

(***************************************************************************)
(* With a store that can break after it has taken effect, and a repair:    *)
(* what is stored unheard stays owed, and what the copy will lack once it  *)
(* has all that it is owed can be owed once more.                          *)
(***************************************************************************)
StoresUnheard ==
    /\ running
    /\ \E n \in 1 .. Len(owed) : copy' = Final(SubSeq(owed, 1, n), copy)
    /\ UNCHANGED <<running, resident, owed, lossy>>

Restates ==
    LET due == Transitions(Final(owed, copy), resident)
    IN  /\ running
        /\ Queues(due)
        /\ lossy' = Drops(due)
        /\ UNCHANGED <<running, resident, copy>>

RepairedLogNext == LogNext \/ StoresUnheard \/ Restates

RepairedLogSpec == LogInit /\ [][RepairedLogNext]_logVars
=============================================================================
