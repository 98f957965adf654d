----------------------------- MODULE TaskStream -----------------------------
(***************************************************************************)
(* rmagna's in-memory sampling stream (task/evaluate/run/stream.rs): one   *)
(* RNG, one exact accumulator and one execution meter, advanced in bounded *)
(* calls, encoded as a checkpoint between two calls and restored, perhaps  *)
(* in a later process (stream/checkpoint.rs).                              *)
(*                                                                         *)
(* A row is named by the RNG state its draw began in: the evaluator is a   *)
(* deterministic function of that state, so a sequence of rows says which  *)
(* draws an accumulator contains, and in which order.  What the evaluator  *)
(* computes from a row is left out.                                        *)
(***************************************************************************)
EXTENDS Integers, Sequences, FiniteSets

CONSTANTS
  Shots,        \* options.run.shots, the draws the whole stream is to commit
  Seed,         \* options.run.seed
  RngStates,    \* the states of SplitMix64
  Drawn,        \* the RNG state one complete draw leaves, by the state it began in
  Interrupted,  \* the RNG states a draw that fails or unwinds may leave
  Retain,       \* options.records = StreamRecordRetention::Retain
  MaxQueries,   \* options.run.execution_limits.max_queries
  MaxNesting,   \* bound: measured operations open at once
  MaxSaved      \* bound: checkpoints kept

ASSUME ShotsAssumption    == Shots \in Nat
ASSUME RngAssumption      == /\ Seed \in RngStates
                             /\ Drawn \in [RngStates -> RngStates]
                             /\ Interrupted \in [RngStates -> SUBSET RngStates]
ASSUME RetainAssumption   == Retain \in BOOLEAN
ASSUME LimitsAssumption   == MaxQueries \in Nat
ASSUME BoundsAssumption   == MaxNesting \in Nat /\ MaxSaved \in Nat

VARIABLES
  pc,          \* where the stream is: "none" (no process holds it), "idle", or inside advance
  budget,      \* draws the running advance call has still to make
  random,      \* state of the RNG
  statistics,  \* rows in accumulator.statistics
  efficiency,  \* rows in accumulator.efficiency
  groups,      \* accumulator.groups
  records,     \* retained rows
  failure,     \* the terminal failure, or NoFailure
  query,       \* the meter's counters of measured operations
  open,        \* Measurement guards alive
  row,         \* the draw being made
  staged,      \* the clone of the statistics Accumulator::push works on
  saved        \* the checkpoints encoded so far

stream == <<budget, random, statistics, efficiency, groups, records, failure,
            query, open, row, staged>>
vars == <<pc, stream, saved>>

NoFailure == [kind |-> "none"]
Failures  == [kind : {"TaskError", "Unwind"}, shot : Nat,
              phase : {"sampling", "accumulation"}]
NoCosts   == [attempted |-> 0, succeeded |-> 0, failed |-> 0]
Costs     == [attempted : Nat, succeeded : Nat, failed : Nat]
NoRow     == [from |-> Seed, measured |-> 0, groups |-> 0]
Rows      == [from : RngStates, measured : Nat, groups : Nat]

InDraw == {"sampling", "statistics", "efficiency", "commit"}

Failed(f)     == IF f = NoFailure THEN 0 ELSE 1
Remaining     == Shots - Len(statistics)
Status(n, f)  == IF f # NoFailure THEN "failed"
                 ELSE IF n = Shots THEN "draws_complete" ELSE "running"

-----------------------------------------------------------------------------
(* start_stream, restore_stream_json, checkpoint_json.                     *)

\* The fields of a stream at rest (checkpoint.rs: StreamWire).
Wire == [random        |-> random,
         committed     |-> Len(statistics),
         failed        |-> Failed(failure),
         not_attempted |-> Shots - Len(statistics) - Failed(failure),
         status        |-> Status(Len(statistics), failure),
         records       |-> records,
         statistics    |-> statistics,
         efficiency    |-> efficiency,
         groups        |-> groups,
         query         |-> query,
         failure       |-> failure]

Wires == [random : RngStates, committed : Nat, failed : Nat, not_attempted : Int,
          status : {"running", "draws_complete", "failed"},
          records : Seq(RngStates), statistics : Seq(RngStates),
          efficiency : Seq(RngStates), groups : Nat, query : Costs,
          failure : Failures \cup {NoFailure}]

\* ExecutionMeterCheckpoint::validate.
MeterValid(q) == /\ q.attempted = q.succeeded + q.failed
                 /\ q.attempted <= MaxQueries

\* The checks restore_stream_json makes before it builds a stream.
Accepts(w) ==
  /\ w.failed \in {0, 1}
  /\ w.not_attempted >= 0
  /\ w.committed + w.failed + w.not_attempted = Shots
  /\ w.failure # NoFailure => w.failure.shot = w.committed
  /\ w.status = Status(w.committed, w.failure)
  /\ w.failed = Failed(w.failure)
  /\ w.failure # NoFailure => w.committed < Shots
  /\ Len(w.records) = IF Retain THEN w.committed ELSE 0
  /\ Len(w.statistics) = w.committed
  /\ w.efficiency = w.statistics
  /\ w.committed = 0 => w.groups = 0
  /\ w.groups <= w.query.succeeded
  /\ w.committed = 0 /\ w.failure = NoFailure => w.random = Seed /\ w.query = NoCosts
  /\ MeterValid(w.query)

\* A stream at rest: nothing of a draw is in flight.
AtRest == pc' = "idle" /\ budget' = 0 /\ open' = 0 /\ row' = NoRow /\ staged' = <<>>

\* TaskEvaluator::start_stream.
Start ==
  /\ pc = "none"
  /\ AtRest
  /\ random' = Seed
  /\ statistics' = <<>> /\ efficiency' = <<>> /\ records' = <<>>
  /\ groups' = 0
  /\ failure' = NoFailure
  /\ query' = NoCosts
  /\ UNCHANGED saved

\* Mutant: the restored stream starts its RNG from the seed again.
RestoreReseeded(w) ==
  /\ pc = "none"
  /\ Accepts(w)
  /\ AtRest
  /\ random' = Seed
  /\ statistics' = w.statistics /\ efficiency' = w.efficiency /\ records' = w.records
  /\ groups' = w.groups
  /\ failure' = w.failure
  /\ query' = w.query
  /\ UNCHANGED saved

\* TaskEvaluator::restore_stream_json.
Restore(w) ==
  /\ pc = "none"
  /\ Accepts(w)
  /\ AtRest
  /\ random' = w.random
  /\ statistics' = w.statistics /\ efficiency' = w.efficiency /\ records' = w.records
  /\ groups' = w.groups
  /\ failure' = w.failure
  /\ query' = w.query
  /\ UNCHANGED saved

\* TaskStream::checkpoint_json: the meter refuses to encode an open operation.
\* The caller keeps which of the earlier checkpoints it likes.
Checkpoint ==
  /\ pc = "idle"
  /\ MeterValid(query)
  /\ \E kept \in SUBSET saved : /\ Cardinality(kept \cup {Wire}) <= MaxSaved
                              /\ saved' = kept \cup {Wire}
  /\ UNCHANGED <<pc, stream>>

\* The process that holds the stream ends, wherever it is; checkpoints stay.
Vanish ==
  /\ pc # "none"
  /\ pc' = "none"
  /\ budget' = 0 /\ open' = 0 /\ row' = NoRow /\ staged' = <<>>
  /\ random' = Seed
  /\ statistics' = <<>> /\ efficiency' = <<>> /\ records' = <<>>
  /\ groups' = 0
  /\ failure' = NoFailure
  /\ query' = NoCosts
  /\ UNCHANGED saved

-----------------------------------------------------------------------------
(* TaskStream::advance, one action per step of a draw.                     *)

\* Mutant: the early return for an exhausted stream is lost.
AdvancePastTheEnd(draws) ==
  /\ pc = "idle"
  /\ draws > 0
  /\ failure = NoFailure
  /\ budget' = IF draws < Remaining THEN draws ELSE Remaining
  /\ pc' = "attempt"
  /\ UNCHANGED <<random, statistics, efficiency, groups, records, failure,
                 query, open, row, staged, saved>>

\* The call: refused for zero draws and for a failed stream; a call after the
\* last draw only observes.
Advance(draws) ==
  /\ pc = "idle"
  /\ draws > 0
  /\ failure = NoFailure
  /\ Remaining > 0
  /\ budget' = IF draws < Remaining THEN draws ELSE Remaining
  /\ pc' = "attempt"
  /\ UNCHANGED <<random, statistics, efficiency, groups, records, failure,
                 query, open, row, staged, saved>>

\* Mutant: the sentinel names the draw after the one attempted.
AttemptNextShot ==
  /\ pc = "attempt"
  /\ pc' = "sampling"
  /\ failure' = [kind |-> "Unwind", shot |-> Len(statistics) + 1, phase |-> "sampling"]
  /\ row' = [NoRow EXCEPT !.from = random]
  /\ UNCHANGED <<budget, random, statistics, efficiency, groups, records,
                 query, open, staged, saved>>

\* The sentinel is in place before the draw consumes entropy.
Attempt ==
  /\ pc = "attempt"
  /\ pc' = "sampling"
  /\ failure' = [kind |-> "Unwind", shot |-> Len(statistics), phase |-> "sampling"]
  /\ row' = [NoRow EXCEPT !.from = random]
  /\ UNCHANGED <<budget, random, statistics, efficiency, groups, records,
                 query, open, staged, saved>>

\* ExecutionMeter::measure reserves its count, then runs the operation.
OpenMeasurement ==
  /\ pc = "sampling"
  /\ query.attempted < MaxQueries
  /\ open < MaxNesting
  /\ query' = [query EXCEPT !.attempted = @ + 1]
  /\ open' = open + 1
  /\ UNCHANGED <<pc, budget, random, statistics, efficiency, groups, records,
                 failure, row, staged, saved>>

\* The Measurement guard is dropped when its operation returns.
CloseMeasurement(succeeded) ==
  /\ pc = "sampling"
  /\ open > 0
  /\ open' = open - 1
  /\ IF succeeded
     THEN /\ query' = [query EXCEPT !.succeeded = @ + 1]
          /\ row' = [row EXCEPT !.measured = @ + 1]
     ELSE /\ query' = [query EXCEPT !.failed = @ + 1]
          /\ UNCHANGED row
  /\ UNCHANGED <<pc, budget, random, statistics, efficiency, groups, records,
                 failure, staged, saved>>

\* sample_with_costs returns a row; the observation groups it reports were measured.
SampleOk ==
  /\ pc = "sampling"
  /\ open = 0
  /\ pc' = "statistics"
  /\ random' = Drawn[random]
  /\ \E g \in 0..row.measured : row' = [row EXCEPT !.groups = g]
  /\ failure' = [failure EXCEPT !.phase = "accumulation"]
  /\ UNCHANGED <<budget, statistics, efficiency, groups, records, query, open,
                 staged, saved>>

\* check_time or sample_with_costs returns an error: the advance call breaks.
SampleError ==
  /\ pc = "sampling"
  /\ open = 0
  /\ AtRest
  /\ random' \in Interrupted[random] \cup {random}
  /\ failure' = [failure EXCEPT !.kind = "TaskError"]
  /\ UNCHANGED <<statistics, efficiency, groups, records, query, saved>>

\* Mutant: the statistics are pushed in place instead of on a clone.
PushStatisticsInPlace ==
  /\ pc = "statistics"
  /\ pc' = "efficiency"
  /\ statistics' = Append(statistics, row.from)
  /\ staged' = statistics'
  /\ UNCHANGED <<budget, random, efficiency, groups, records, failure, query,
                 open, row, saved>>

\* Accumulator::push, first half: the statistics are pushed on a clone.
PushStatistics ==
  /\ pc = "statistics"
  /\ pc' = "efficiency"
  /\ staged' = Append(statistics, row.from)
  /\ UNCHANGED <<budget, random, statistics, efficiency, groups, records,
                 failure, query, open, row, saved>>

\* HistoryEfficiency::push, which changes everything or nothing.
PushEfficiency ==
  /\ pc = "efficiency"
  /\ pc' = "commit"
  /\ efficiency' = Append(efficiency, row.from)
  /\ UNCHANGED <<budget, random, statistics, groups, records, failure, query,
                 open, row, staged, saved>>

\* Arithmetic or a counter refuses the row, in either half of the push.
AccumulationError ==
  /\ pc \in {"statistics", "efficiency"}
  /\ AtRest
  /\ failure' = [failure EXCEPT !.kind = "TaskError"]
  /\ UNCHANGED <<random, statistics, efficiency, groups, records, query, saved>>

\* The clone becomes the statistics, the row is retained, the sentinel goes.
Commit ==
  /\ pc = "commit"
  /\ statistics' = staged
  /\ groups' = groups + row.groups
  /\ records' = IF Retain THEN Append(records, row.from) ELSE records
  /\ failure' = NoFailure
  /\ pc' = IF budget > 1 THEN "attempt" ELSE "idle"
  /\ budget' = budget - 1
  /\ row' = NoRow
  /\ staged' = <<>>
  /\ UNCHANGED <<random, efficiency, query, open, saved>>

\* Mutant: the caller that catches the panic finds a stream that looks healthy.
UnwindForgotten ==
  /\ pc \in {"sampling", "statistics", "efficiency"}
  /\ AtRest
  /\ random' \in IF pc = "sampling" THEN Interrupted[random] \cup {random} ELSE {random}
  /\ query' = [query EXCEPT !.failed = @ + open]
  /\ failure' = NoFailure
  /\ UNCHANGED <<statistics, efficiency, groups, records, saved>>

\* Mutant: operations a panic unwinds through are not counted as failed.
UnwindUncounted ==
  /\ pc \in {"sampling", "statistics", "efficiency"}
  /\ AtRest
  /\ random' \in IF pc = "sampling" THEN Interrupted[random] \cup {random} ELSE {random}
  /\ UNCHANGED <<statistics, efficiency, groups, records, failure, query, saved>>

\* A panic of the evaluator or a controller, caught by the caller of advance:
\* the guards on the stack are dropped as failed, the sentinel stays.
Unwind ==
  /\ pc \in {"sampling", "statistics", "efficiency"}
  /\ AtRest
  /\ random' \in IF pc = "sampling" THEN Interrupted[random] \cup {random} ELSE {random}
  /\ query' = [query EXCEPT !.failed = @ + open]
  /\ UNCHANGED <<statistics, efficiency, groups, records, failure, saved>>

-----------------------------------------------------------------------------
Init ==
  /\ pc = "none"
  /\ budget = 0 /\ open = 0 /\ row = NoRow /\ staged = <<>>
  /\ random = Seed
  /\ statistics = <<>> /\ efficiency = <<>> /\ records = <<>>
  /\ groups = 0
  /\ failure = NoFailure
  /\ query = NoCosts
  /\ saved = {}

Next ==
  \/ Start
  \/ \E w \in saved : Restore(w)
  \/ Checkpoint
  \/ Vanish
  \/ \E draws \in 1..Shots : Advance(draws)
  \/ Attempt
  \/ OpenMeasurement
  \/ \E succeeded \in BOOLEAN : CloseMeasurement(succeeded)
  \/ SampleOk
  \/ SampleError
  \/ PushStatistics
  \/ PushEfficiency
  \/ AccumulationError
  \/ Commit
  \/ Unwind

Spec == Init /\ [][Next]_vars

-----------------------------------------------------------------------------
(* Properties.                                                             *)

\* Counters stay natural numbers, rows stay RNG states, and every checkpoint has
\* the fields checkpoint_json writes.
TypeOK ==
  /\ pc \in {"none", "idle", "attempt"} \cup InDraw
  /\ budget \in Nat
  /\ random \in RngStates
  /\ statistics \in Seq(RngStates)
  /\ efficiency \in Seq(RngStates)
  /\ records \in Seq(RngStates)
  /\ staged \in Seq(RngStates)
  /\ groups \in Nat
  /\ failure \in Failures \cup {NoFailure}
  /\ query \in Costs
  /\ open \in Nat
  /\ row \in Rows
  /\ saved \in SUBSET Wires

\* The rows of s are those of the one uninterrupted run, in order: the first
\* draw began in the seed's state, each later one where the one before ended.
Prefix(s) == \A i \in 1..Len(s) : s[i] = IF i = 1 THEN Seed ELSE Drawn[s[i - 1]]

\* The RNG state the uninterrupted run has after the rows of s.
After(s) == IF s = <<>> THEN Seed ELSE Drawn[s[Len(s)]]

\* However the run was cut into advances, checkpoints, restorations and lost
\* processes, the rows committed are those of the uninterrupted run, none
\* skipped and none drawn twice; and a stream that may still advance has the
\* RNG state that run has there.
ExactPrefix ==
  /\ Prefix(statistics)
  /\ failure = NoFailure => random = After(statistics)

\* The same of every checkpoint, in particular of those that were encoded
\* before a failure, or by a process that vanished.
ExactCheckpoints ==
  \A w \in saved : /\ Prefix(w.statistics)
                   /\ w.failure = NoFailure => w.random = After(w.statistics)

\* Whenever a caller can look at the stream, the two accumulators and the
\* retained rows hold the same draws: no error or panic inside a push leaves
\* one of them a row ahead.
Aligned ==
  pc = "idle" => /\ efficiency = statistics
                 /\ records = IF Retain THEN statistics ELSE <<>>

\* checkpoint_json never encodes a stream that restore_stream_json refuses:
\* whatever the stream went through, its checkpoint can be resumed.
CheckpointsRestorable == \A w \in saved : Accepts(w)

\* The stream at rest can always be encoded: the meter has no open operation
\* and its counters balance, after errors and panics inside nested operations too.
MeterBalanced ==
  /\ query.attempted = query.succeeded + query.failed + open
  /\ query.attempted <= MaxQueries
  /\ pc \notin InDraw => open = 0

-----------------------------------------------------------------------------
(* The inductive invariant behind these: where each step of a draw stands. *)

Retained(s) == IF Retain THEN s ELSE <<>>

\* Between two draws.
Settled == /\ efficiency = statistics
           /\ records = Retained(statistics)
           /\ groups <= query.succeeded
           /\ open = 0
           /\ failure = NoFailure => /\ random = After(statistics)
                                     /\ statistics = <<>> => query = NoCosts
           /\ failure # NoFailure => /\ failure.shot = Len(statistics)
                                     /\ Len(statistics) < Shots

\* Inside a draw.
Drawing == /\ records = Retained(statistics)
           /\ failure # NoFailure
           /\ failure.shot = Len(statistics)
           /\ row.from = After(statistics)
           /\ pc = "sampling" => random = row.from /\ groups + row.measured <= query.succeeded
           /\ pc # "sampling" => /\ open = 0
                                 /\ random = Drawn[row.from]
                                 /\ groups + row.groups <= query.succeeded
           /\ pc \in {"efficiency", "commit"} => staged = Append(statistics, row.from)
           /\ efficiency = IF pc = "commit" THEN staged ELSE statistics

\* Of every checkpoint.
Faithful(w) == /\ Accepts(w)
               /\ Prefix(w.statistics)
               /\ w.records = Retained(w.statistics)
               /\ w.failure = NoFailure => w.random = After(w.statistics)

\* Every state of a stream is a cut of the uninterrupted run, at rest or with
\* exactly one draw in flight whose sentinel is in place.
StreamInv ==
  /\ TypeOK
  /\ Prefix(statistics)
  /\ Len(statistics) <= Shots
  /\ statistics = <<>> => groups = 0
  /\ query.attempted = query.succeeded + query.failed + open
  /\ query.attempted <= MaxQueries
  /\ pc \notin InDraw => Settled
  /\ pc \in InDraw => Drawing
  /\ pc \in InDraw \cup {"attempt"} => budget > 0 /\ budget + Len(statistics) <= Shots
  /\ pc = "attempt" => failure = NoFailure
  /\ pc = "none" => statistics = <<>> /\ failure = NoFailure
  /\ \A w \in saved : Faithful(w)

\* A failed stream is never advanced: until the process goes, nothing of it changes.
FailureTerminal ==
  [][pc = "idle" /\ failure # NoFailure /\ pc' # "none" => UNCHANGED <<pc, stream>>]_vars

-----------------------------------------------------------------------------
(* TaskStream implements ExactSampling: a draw in flight has not happened yet, *)
(* and happens at its commit.                                                 *)

Position(r, x, f) == [rows |-> r, random |-> x, failed |-> f # NoFailure]

CurrentPosition ==
  IF pc = "none" THEN [live |-> FALSE]
  ELSE IF pc \in InDraw THEN Position(statistics, row.from, NoFailure)
  ELSE Position(statistics, random, failure)

SavedPositions == {Position(w.statistics, w.random, w.failure) : w \in saved}

Sampling == INSTANCE ExactSampling WITH current <- CurrentPosition, saved <- SavedPositions

\* A stream, with its checkpoints and restorations, is one exact sampling run:
\* no step of the code moves it in a way that run does not.
Implements == Sampling!Spec
=============================================================================
