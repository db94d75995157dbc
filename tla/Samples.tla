------------------------------ MODULE Samples ------------------------------
(***************************************************************************)
(* The two time series (services/counter_sample.rs, gauge_sample.rs and    *)
(* their repositories) against the clock.  Journal entries carry the time  *)
(* they were observed; the reconciler writes them when the block gate lets *)
(* it, so a row lands later than its stamp.  The counter sampler counts    *)
(* the rows of a window that ends SAFETY_MARGIN ago, and the end of its    *)
(* last window is its only memory.  A read picks a resolution and, unless  *)
(* that is the native one, merges the samples of a bucket.                 *)
(*                                                                         *)
(* The unit of time is the samplers' interval (a minute).  A tick of the   *)
(* reconciler (a second) takes no time on that scale: what is due is done  *)
(* before the clock moves on.  In a unit of time at most one transaction   *)
(* is seen to come and at most one to go.                                  *)
(***************************************************************************)
EXTENDS BlockGate, FiniteSets, FiniteSetsExt, Functions

CONSTANTS Slack,        \* SAFETY_MARGIN - MAX_HOLD
          Ladder,       \* RESOLUTION_LADDER_SECS; 1 is NATIVE_RESOLUTION_SECS
          MaxPoints,    \* MAX_POINTS
          BackToBack,   \* a block may come right after another, or after the start,
                        \* before the reconciler's next tick
          Duration,     \* bound on the clock
          MaxEntries,   \* bound on the journal entries
          MaxBlocks,    \* bound on the blocks
          MaxFaults     \* bound on failed queries, slow queries and restarts

ASSUME SamplesAssumption ==
    /\ {Slack, MaxPoints, Duration} \subseteq Nat \ {0}
    /\ {MaxEntries, MaxBlocks, MaxFaults} \subseteq Nat
    /\ BackToBack \in BOOLEAN
    /\ 1 \in Ladder /\ Ladder \subseteq Nat \ {0} /\ IsFiniteSet(Ladder)

VARIABLES clock,
          up,            \* "starting", "booted" or "running": how far main has come
          waiting, writing,\* entries not yet written; those of the tick in flight
          deltas,        \* table mempool_deltas
          started,       \* table system_events: when the ServerStarted rows are of
          counters,      \* table mempool_counter_samples
          gauges,        \* table mempool_gauge_samples: when its rows are of
          job,           \* the window that sample_window is at work on
          ran,           \* the samplers have had their tick of this unit
          blocks, faults \* bounds

tableVars == <<deltas, started, counters, gauges>>
samplerVars == <<job, ran>>
writerVars == <<waiting, writing>>
samplesVars == <<gateVars, clock, up, writerVars, tableVars, samplerVars, blocks, faults>>

SAFETY_MARGIN == MaxHold + Slack
DeltaReason == {"add_mempool", "remove_confirmed", "remove_evicted"}
ObservedEntry(at, direction) == [observed_at |-> at, direction |-> direction]
Null == <<>>        \* added_txs, confirmed_txs and evicted_txs are NULL
NoJob == <<>>

SamplesInit ==
    /\ GateInit
    /\ clock = SAFETY_MARGIN
    /\ up = "starting" /\ started = {clock}
    /\ waiting = {} /\ writing = {}
    /\ deltas = {} /\ counters = {} /\ gauges = {}
    /\ job = NoJob /\ ran = FALSE /\ blocks = 0 /\ faults = 0

Fault == faults < MaxFaults /\ faults' = faults + 1
NoFault == UNCHANGED faults

(***************************************************************************)
(* The ledger, blocks and the reconciler's flush.                          *)
(***************************************************************************)
Observed == Cardinality(waiting) + Cardinality(deltas)

\* A poll, or a block, adds or removes a transaction; bootstrap's submit does
\* so before the reconciler is there to write it.
Observe ==
    /\ up # "starting" /\ Observed < MaxEntries
    /\ \E direction \in {"Add", "Remove"} :
          /\ ObservedEntry(clock, direction) \notin waiting
          /\ \A row \in deltas : row.created_at = clock =>
                (row.reason = "add_mempool") # (direction = "Add")
          /\ waiting' = waiting \cup {ObservedEntry(clock, direction)}
    /\ UNCHANGED <<gateVars, clock, up, writing, tableVars, samplerVars, blocks, faults>>

\* A block shuts the gate.  Unless it may be BackToBack, a tick has got in since
\* the last one: what the journal still has is of this minute.
BlockArrives ==
    /\ up = "running"
    /\ BackToBack \/ \A e \in waiting : e.observed_at = clock
    /\ AcquireShuts
    /\ blocks < MaxBlocks /\ blocks' = blocks + 1
    /\ UNCHANGED <<clock, up, writerVars, tableVars, samplerVars, faults>>

BlockGoesOn ==
    /\ AcquireReturns \/ (holder = "inside" /\ GuardDrops)
    /\ UNCHANGED <<clock, up, writerVars, tableVars, samplerVars, blocks, faults>>

\* tick takes the lease and the journal as it is now.  is_held reopens a gate
\* that has been shut for MAX_HOLD.
TickStarts ==
    /\ up = "running" /\ waiting # {}
    /\ IF held_since = MaxHold
       THEN CeilingFires /\ UNCHANGED writing
       ELSE LeaseGranted /\ writing' = waiting
    /\ UNCHANGED <<clock, up, waiting, tableVars, samplerVars, blocks, faults>>

\* write_batch's rows: the reason is decided by the tables, the time is not.
RowsOf(confirmed) ==
    {[created_at |-> e.observed_at,
      reason |-> IF e.direction = "Add" THEN "add_mempool"
                 ELSE IF e \in confirmed THEN "remove_confirmed" ELSE "remove_evicted"] : e \in writing}

\* The batch is written and leaves the journal; or the write fails, or it is
\* preempted by a block, and all of it stays.
TickEnds ==
    /\ LeaseDrops
    /\ writing' = {}
    /\ \/ \E confirmed \in SUBSET {e \in writing : e.direction = "Remove"} :
             /\ deltas' = deltas \cup RowsOf(confirmed)
             /\ waiting' = waiting \ writing
             /\ NoFault
       \/ IsHeld /\ NoFault /\ UNCHANGED <<waiting, deltas>>
       \/ Fault /\ UNCHANGED <<waiting, deltas>>
    /\ UNCHANGED <<clock, up, started, counters, gauges, samplerVars, blocks>>

(***************************************************************************)
(* CounterSampleService.                                                   *)
(***************************************************************************)
Cursor == Max({row.sampled_at : row \in counters})    \* latest_sampled_at

CounterRow(at, period, counts) == [sampled_at |-> at, period_secs |-> period, counts |-> counts]

\* insert: ON CONFLICT (sampled_at) DO NOTHING
insert(table, row) ==
    IF \E r \in table : r.sampled_at = row.sampled_at THEN table ELSE table \cup {row}

\* Slip: the margin only covers what a gate without ceiling would need.
WindowEndsNow == clock - Slack

window_end == clock - SAFETY_MARGIN

\* sample: the time and the cursor are read first.
sample ==
    \/ /\ counters = {}
       /\ counters' = insert(counters, CounterRow(window_end, 1, Null))
       /\ UNCHANGED job
    \/ /\ counters # {} /\ window_end > Cursor
       /\ job' = [from |-> Cursor, to |-> window_end]
       /\ UNCHANGED counters
    \/ /\ counters # {} /\ window_end <= Cursor
       /\ UNCHANGED <<counters, job>>

\* GaugeSampleService::sample
sample_gauge == gauges' = insert(gauges, [sampled_at |-> clock])

\* The two samplers, spawned together with one interval, have no state in
\* common; their ticks are one step.  A sampler that is still at work skips a
\* tick.  A query of either may fail.
SamplersTick ==
    /\ up = "running" /\ ~ran
    /\ ran' = TRUE
    /\ \/ /\ sample_gauge /\ NoFault
          /\ IF job = NoJob THEN sample ELSE UNCHANGED <<counters, job>>
       \/ /\ job = NoJob /\ sample /\ UNCHANGED gauges /\ Fault
       \/ /\ sample_gauge /\ UNCHANGED <<counters, job>> /\ Fault
    /\ UNCHANGED <<gateVars, clock, up, writerVars, deltas, started, blocks>>

InWindow(at, from, to) == from < at /\ at <= to

exists_of_kind_in(from, to) == \E at \in started : InWindow(at, from, to)

count_deltas_in(from, to) ==
    [reason \in DeltaReason |->
        Cardinality({row \in deltas : row.reason = reason /\ InWindow(row.created_at, from, to)})]

\* Slip: a row is of one interval, however long its window.
WindowRowOfInterval(from, to) ==
    CounterRow(to, 1, IF exists_of_kind_in(from, to) THEN Null ELSE count_deltas_in(from, to))

WindowRow(from, to) ==
    CounterRow(to, to - from,
               IF exists_of_kind_in(from, to) THEN Null ELSE count_deltas_in(from, to))

sample_window ==
    /\ job # NoJob
    /\ job' = NoJob
    /\ \/ counters' = insert(counters, WindowRow(job.from, job.to)) /\ NoFault
       \/ Fault /\ UNCHANGED counters
    /\ UNCHANGED <<gateVars, clock, up, writerVars, deltas, started, gauges, ran, blocks>>

(***************************************************************************)
(* Start and restart, and time.                                            *)
(***************************************************************************)

\* The node is ready and bootstrap takes its snapshot; then the tasks start.
StartUp ==
    /\ \/ up = "starting" /\ up' = "booted"
       \/ up = "booted" /\ up' = "running"
    /\ UNCHANGED <<gateVars, clock, writerVars, tableVars, samplerVars, blocks, faults>>

\* The process dies with what it has in memory and starts over.
Restart ==
    /\ Fault
    /\ up' = "starting" /\ started' = started \cup {clock}
    /\ held_since' = Open /\ in_flight' = FALSE /\ holder' = "none" /\ expired' = FALSE
    /\ waiting' = {} /\ writing' = {} /\ job' = NoJob /\ ran' = FALSE
    /\ UNCHANGED <<clock, deltas, counters, gauges, blocks>>

\* Nothing that takes no time is left to do.
Settled ==
    /\ holder # "waiting" /\ ~in_flight
    /\ up = "running" => /\ ran
                         /\ waiting = {} \/ IsHeld

\* The first start is given no time: there is nothing to sample before it.
TimePasses ==
    /\ clock < SAFETY_MARGIN + Duration /\ Settled
    /\ up # "running" => clock > SAFETY_MARGIN
    /\ clock' = clock + 1
    /\ ran' = FALSE
    /\ IF IsHeld THEN Elapse ELSE UNCHANGED gateVars
    /\ IF job = NoJob THEN NoFault ELSE Fault
    /\ UNCHANGED <<up, writerVars, tableVars, job, blocks>>

SamplesNext ==
    \/ Observe \/ BlockArrives \/ BlockGoesOn \/ TickStarts \/ TickEnds
    \/ SamplersTick \/ sample_window
    \/ StartUp \/ Restart \/ TimePasses

SamplesSpec == SamplesInit /\ [][SamplesNext]_samplesVars

(***************************************************************************)
(* The read path: a series is a set of points, one per time.               *)
(***************************************************************************)

pick_resolution(span) ==
    LET fits == {secs \in Ladder : span \div secs <= MaxPoints}
    IN  IF fits = {} THEN Max(Ladder) ELSE Min(fits)

range_native(table, from, to) ==
    {row \in table : from <= row.sampled_at /\ row.sampled_at <= to}

Buckets(rows, secs) ==
    {{r \in rows : r.sampled_at \div secs = row.sampled_at \div secs} : row \in rows}

Newest(rows) == CHOOSE row \in rows : \A r \in rows : r.sampled_at <= row.sampled_at


\* The counters of a bucket: counts are added up, and an unknown one makes the
\* whole bucket unknown.
merge(rows, secs) ==
    CounterRow(Newest(rows).sampled_at, secs,
               IF \E row \in rows : row.counts = Null THEN Null
               ELSE [reason \in DeltaReason |->
                        MapThenSumSet(LAMBDA row : row.counts[reason], rows)])

counter_range(from, to, secs) ==
    LET rows == range_native(counters, from, to)
    IN  IF secs = 1 THEN rows ELSE {merge(bucket, secs) : bucket \in Buckets(rows, secs)}

\* The gauges of a bucket: its last row.
gauge_range(from, to, secs) ==
    LET rows == range_native(gauges, from, to)
    IN  IF secs = 1 THEN rows ELSE {Newest(bucket) : bucket \in Buckets(rows, secs)}

\* The two routes: a range, at the resolution its length allows.
counter_series(from, to) == counter_range(from, to, pick_resolution(to - from))
gauge_series(from, to) == gauge_range(from, to, pick_resolution(to - from))

(***************************************************************************)
(* Properties.                                                             *)
(***************************************************************************)

\* The windows cover the time from the first sample on without gap or overlap,
\* through failed and skipped samples and restarts: a row's period_secs is the
\* time since the row before it (in whole seconds).
WindowsTile ==
    \A row \in counters :
        LET before == {r.sampled_at : r \in {r \in counters : r.sampled_at < row.sampled_at}}
        IN  before # {} => row.sampled_at - row.period_secs = Max(before)

\* "Derived so it cannot fall behind that hold" (counter_sample.rs:15): a count
\* that has been taken stays right.  No row of its window is written later, a
\* row on a boundary is counted once, and no window with a restart in it has a
\* count.  The gate may have held the flush back for MAX_HOLD, a write may have
\* failed or been preempted, a query may have been slow.  It takes a tick between
\* two blocks, though: each acquire starts MAX_HOLD anew.
CountsAreFinal ==
    \A row \in counters :
        row.counts # Null =>
            LET from == row.sampled_at - row.period_secs
            IN  /\ row.counts = count_deltas_in(from, row.sampled_at)
                /\ ~exists_of_kind_in(from, row.sampled_at)

=============================================================================
