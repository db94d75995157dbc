------------------------------ MODULE RpcPool ------------------------------
(***************************************************************************)
(* observer/src/clients/pooled_json_rpc_transport.rs: the open connections *)
(* to the node.  A call takes an idle one, the last that was put back, or  *)
(* opens a new one, and puts it back when it has its answer or its error.  *)
(* Connections are numbered as they are opened.                            *)
(***************************************************************************)
EXTENDS Naturals, Sequences, FiniteSets

CONSTANT Caller   \* the tasks that call the node

ASSUME CallerAssumption == IsFiniteSet(Caller)

VARIABLES idle,     \* the connections that nobody uses, a stack
          using,    \* per caller, the connection of its call, or 0
          opened,   \* how many have been opened
          peak      \* history: the most calls that were in progress at once

poolVars == <<idle, using, opened, peak>>

Busy == {c \in Caller : using[c] # 0}

PoolInit ==
    /\ idle = <<>>
    /\ using = [c \in Caller |-> 0]
    /\ opened = 0 /\ peak = 0

Counted == peak' = IF Cardinality(Busy') > peak THEN Cardinality(Busy') ELSE peak

\* Slip: the idle connection stays in the pool.
CheckoutShares(c) ==
    /\ using[c] = 0
    /\ IF idle # <<>>
       THEN /\ using' = [using EXCEPT ![c] = idle[Len(idle)]]
            /\ UNCHANGED <<idle, opened>>
       ELSE /\ using' = [using EXCEPT ![c] = opened + 1]
            /\ opened' = opened + 1
            /\ UNCHANGED idle
    /\ Counted

checkout(c) ==
    /\ using[c] = 0
    /\ IF idle # <<>>
       THEN /\ using' = [using EXCEPT ![c] = idle[Len(idle)]]
            /\ idle' = SubSeq(idle, 1, Len(idle) - 1)
            /\ UNCHANGED opened
       ELSE /\ using' = [using EXCEPT ![c] = opened + 1]
            /\ opened' = opened + 1
            /\ UNCHANGED idle
    /\ Counted

checkin(c) ==
    /\ using[c] # 0
    /\ idle' = Append(idle, using[c])
    /\ using' = [using EXCEPT ![c] = 0]
    /\ UNCHANGED <<opened, peak>>

PoolNext == \E c \in Caller : checkout(c) \/ checkin(c)

PoolSpec == PoolInit /\ [][PoolNext]_poolVars

(***************************************************************************)
(* Properties.                                                             *)
(***************************************************************************)

\* Each connection "serializes the calls made through it" (9-11), so none may
\* be shared: no connection has two calls, or a call while it is idle.
ConnectionsAreExclusive ==
    /\ \A c, d \in Busy : c # d => using[c] # using[d]
    /\ \A i \in DOMAIN idle : \A c \in Caller : idle[i] # using[c]
    /\ \A i, k \in DOMAIN idle : i # k => idle[i] # idle[k]

\* "The pool therefore grows to the peak number of concurrent calls and no
\* further" (12-13).
PoolIsPeak == opened = peak

\* Both, after any number of calls that return or fail: a connection is neither
\* handed to two callers nor lost to the pool.
ConnectionsAreAccounted == ConnectionsAreExclusive /\ PoolIsPeak
=============================================================================
