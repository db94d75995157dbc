----------------------------- MODULE BlockGate -----------------------------
(***************************************************************************)
(* api/src/infra/block_gate.rs: keeps a reconciler tick from running while *)
(* a block is applied.  `held_since' is kept as the time the gate has been *)
(* shut (saturating at MaxHold), or Open; `in_flight' is the mutex a tick  *)
(* holds for its whole run.  `holder' is where the one BlockGateGuard is:  *)
(* there is none, its acquire is waiting for a tick, or the block body     *)
(* runs.  `expired' records, for the properties, that the ceiling has      *)
(* reopened the gate since a block last got in with the gate shut.         *)
(***************************************************************************)
EXTENDS Integers

CONSTANT MaxHold       \* MAX_HOLD, in ticks of Elapse

ASSUME MaxHoldAssumption == MaxHold \in Nat \ {0}

VARIABLES held_since, in_flight, holder, expired

gateVars == <<held_since, in_flight, holder, expired>>

Open == -1

GateTypeOK ==
    /\ held_since \in {Open} \cup (0 .. MaxHold)
    /\ in_flight \in BOOLEAN
    /\ holder \in {"none", "waiting", "inside"}
    /\ expired \in BOOLEAN

GateInit ==
    /\ held_since = Open
    /\ in_flight = FALSE
    /\ holder = "none"
    /\ expired = FALSE

\* is_held answers TRUE below the ceiling; past it, it reopens the gate
\* (CeilingFires) and answers FALSE.
IsHeld == held_since # Open /\ held_since < MaxHold
IsOpen == held_since = Open

\* Slip: the ceiling is counted but leaves the gate shut.
CeilingOnlyCounts ==
    /\ held_since = MaxHold
    /\ expired' = TRUE
    /\ UNCHANGED <<held_since, in_flight, holder>>

CeilingFires ==
    /\ held_since = MaxHold
    /\ held_since' = Open
    /\ expired' = TRUE
    /\ UNCHANGED <<in_flight, holder>>

\* acquire, first half: shut the gate and build the guard.
AcquireShuts ==
    /\ holder = "none"
    /\ held_since' = 0
    /\ holder' = "waiting"
    /\ UNCHANGED <<in_flight, expired>>

\* Slip: shut the gate and go in without waiting for the tick in flight.
AcquireDoesNotWait ==
    /\ holder = "waiting"
    /\ holder' = "inside"
    /\ expired' = (held_since = Open)
    /\ UNCHANGED <<held_since, in_flight>>

\* acquire, second half: the in-flight tick is over; its mutex is taken and
\* dropped at once.
AcquireReturns ==
    /\ holder = "waiting"
    /\ ~in_flight
    /\ holder' = "inside"
    /\ expired' = (held_since = Open)
    /\ UNCHANGED <<held_since, in_flight>>

\* The guard is dropped: at the end of apply_block, on an early return of it,
\* or when a waiting acquire is cancelled.
GuardDrops ==
    /\ holder # "none"
    /\ held_since' = Open
    /\ holder' = "none"
    /\ UNCHANGED <<in_flight, expired>>

\* Slip: take the mutex without asking is_held.
LeaseIgnoresGate ==
    /\ ~in_flight
    /\ holder # "waiting"
    /\ in_flight' = TRUE
    /\ UNCHANGED <<held_since, holder, expired>>

\* try_begin_flush hands out the lease; the ceiling has fired first when the
\* gate was shut for too long.  The mutex is fair: once free, it goes to the
\* waiting acquire and try_lock fails.
LeaseGranted ==
    /\ ~in_flight
    /\ holder # "waiting"
    /\ IsOpen
    /\ in_flight' = TRUE
    /\ UNCHANGED <<held_since, holder, expired>>

LeaseDrops ==
    /\ in_flight
    /\ in_flight' = FALSE
    /\ UNCHANGED <<held_since, holder, expired>>

Elapse ==
    /\ IsHeld
    /\ held_since' = held_since + 1
    /\ UNCHANGED <<in_flight, holder, expired>>

GateNext ==
    \/ CeilingFires \/ AcquireShuts \/ AcquireReturns \/ GuardDrops
    \/ LeaseGranted \/ LeaseDrops \/ Elapse

GateSpec == GateInit /\ [][GateNext]_gateVars

\* A block body and a tick overlap only after the ceiling has reopened the
\* gate under that holder: "a flush never lands while a block is being applied"
\* (block_gate.rs:23), up to the MAX_HOLD exception.  The tick that was in
\* flight when the block arrived is waited for, however long that takes.
NoFlushDuringBlock ==
    holder = "inside" /\ in_flight => held_since = Open /\ expired
=============================================================================
