-------------------------- MODULE TaskStreamProofs --------------------------
(* Proofs about TaskStream, for every number of draws, RNG and limit. *)
EXTENDS TaskStream, TLAPS

USE ShotsAssumption, RngAssumption, RetainAssumption, LimitsAssumption DEF NoFailure

-----------------------------------------------------------------------------
(* Prefixes of the uninterrupted run. *)

\* The state the uninterrupted run has after a prefix is an RNG state.
LEMMA AfterType ==
  ASSUME NEW s \in Seq(RngStates)
  PROVE  After(s) \in RngStates
  <1>1. CASE s = <<>>
    BY <1>1 DEF After
  <1>2. CASE s # <<>>
    <2>1. Len(s) \in 1..Len(s)
      BY <1>2
    <2>2. s[Len(s)] \in RngStates
      BY <2>1
    <2> QED
      BY <1>2, <2>2 DEF After
  <1> QED
    BY <1>1, <1>2

\* A prefix is extended by the draw that begins where it ends, and by no other row.
LEMMA PrefixExtends ==
  ASSUME NEW s \in Seq(RngStates), Prefix(s)
  PROVE  LET t == Append(s, After(s)) IN
         /\ t \in Seq(RngStates)
         /\ Len(t) = Len(s) + 1
         /\ Prefix(t)
         /\ t # <<>>
         /\ After(t) = Drawn[After(s)]
  <1> DEFINE t == Append(s, After(s))
  <1>1. After(s) \in RngStates
    BY AfterType
  <1>2. /\ t \in Seq(RngStates)
        /\ Len(t) = Len(s) + 1
        /\ \A i \in 1..Len(s) : t[i] = s[i]
        /\ t[Len(s) + 1] = After(s)
    BY <1>1
  <1>3. t # <<>>
    BY <1>2
  <1>4. After(t) = Drawn[After(s)]
    BY <1>2, <1>3 DEF After
  <1>5. ASSUME NEW i \in 1..Len(t)
        PROVE  t[i] = IF i = 1 THEN Seed ELSE Drawn[t[i - 1]]
    <2>1. CASE i \in 1..Len(s)
      <3>1. i # 1 => i - 1 \in 1..Len(s)
        BY <2>1
      <3> QED
        BY <1>2, <2>1, <3>1 DEF Prefix
    <2>2. CASE i = Len(s) + 1
      <3>1. CASE s = <<>>
        BY <1>2, <2>2, <3>1 DEF After
      <3>2. CASE s # <<>>
        <4>1. i # 1 /\ i - 1 = Len(s) /\ Len(s) \in 1..Len(s)
          BY <2>2, <3>2
        <4>2. t[i - 1] = s[Len(s)]
          BY <1>2, <4>1
        <4> QED
          BY <1>2, <2>2, <3>2, <4>1, <4>2 DEF After
      <3> QED
        BY <3>1, <3>2
    <2> QED
      BY <1>2, <2>1, <2>2
  <1> HIDE DEF t
  <1>6. Prefix(t)
    BY <1>5 DEF Prefix
  <1> QED
    BY <1>2, <1>3, <1>4, <1>6 DEF t

\* The sentinel and the error that replaces it are failures.
LEMMA FailureKinds ==
  ASSUME NEW f \in Failures \cup {NoFailure}
  PROVE  /\ f # NoFailure <=> f \in Failures
         /\ f # NoFailure => f.shot \in Nat
  BY DEF Failures
-----------------------------------------------------------------------------
(* The inductive invariant. *)

\* A stream at rest is encoded as a checkpoint that restore_stream_json accepts.
LEMMA WireFaithful ==
  ASSUME StreamInv, pc = "idle"
  PROVE  Wire \in Wires /\ Faithful(Wire)
  <1>1. /\ failure \in Failures \cup {NoFailure}
        /\ failure # NoFailure => failure.shot \in Nat
        /\ Len(statistics) \in Nat
    BY FailureKinds DEF StreamInv, TypeOK
  <1>2. Wire \in Wires
    BY <1>1 DEF StreamInv, TypeOK, Wire, Wires, Failed, Status
  <1>3. Settled
    BY DEF StreamInv, InDraw
  <1>4. Accepts(Wire)
    BY <1>1, <1>3 DEF StreamInv, TypeOK, Wire, Failed, Status, Accepts, Settled, Retained,
       MeterValid, After, Costs
  <1> QED
    BY <1>2, <1>3, <1>4 DEF StreamInv, Faithful, Wire, Settled

\* The initial state satisfies it.
LEMMA InitInv == Init => StreamInv
  BY DEF Init, StreamInv, TypeOK, InDraw, Settled, Retained, Prefix, After, NoCosts,
         Costs, NoRow, Rows

\* A fresh stream satisfies it (stream.rs: start_stream).
LEMMA StartInv == StreamInv /\ Start => StreamInv'
  BY DEF Start, AtRest, StreamInv, TypeOK, InDraw, Settled, Retained, Prefix, After,
         NoCosts, Costs, NoRow, Rows

\* So does one restored from a checkpoint (checkpoint.rs: restore_stream_json).
LEMMA RestoreInv == ASSUME StreamInv, NEW w \in saved, Restore(w) PROVE StreamInv'
  <1>1. w \in Wires /\ Faithful(w)
    BY DEF StreamInv, TypeOK
  <1>2. /\ pc' = "idle" /\ budget' = 0 /\ open' = 0 /\ row' = NoRow /\ staged' = <<>>
        /\ random' = w.random /\ statistics' = w.statistics
        /\ efficiency' = w.efficiency /\ records' = w.records
        /\ groups' = w.groups /\ failure' = w.failure /\ query' = w.query
        /\ saved' = saved
    BY DEF Restore, AtRest
  <1>3. TypeOK'
    BY <1>1, <1>2 DEF StreamInv, TypeOK, Wires, NoRow, Rows
  <1>4. Settled'
    BY <1>1, <1>2 DEF Settled, Faithful, Accepts, Wires, Failed, After, Retained
  <1>5. /\ Prefix(statistics')
        /\ Len(statistics') <= Shots
        /\ statistics' = <<>> => groups' = 0
        /\ query'.attempted = query'.succeeded + query'.failed + open'
        /\ query'.attempted <= MaxQueries
    BY <1>1, <1>2 DEF Faithful, Accepts, Wires, MeterValid, Costs
  <1>6. \A v \in saved' : Faithful(v)
    BY <1>2 DEF StreamInv
  <1> QED
    BY <1>2, <1>3, <1>4, <1>5, <1>6 DEF StreamInv, InDraw

\* Encoding adds a faithful checkpoint and moves nothing (checkpoint_json).
LEMMA CheckpointInv == StreamInv /\ Checkpoint => StreamInv'
  <1> SUFFICES ASSUME StreamInv, Checkpoint PROVE StreamInv'
    OBVIOUS
  <1>1. \A w \in saved' : w \in Wires /\ Faithful(w)
    BY WireFaithful DEF Checkpoint, StreamInv, TypeOK
  <1> QED
    BY <1>1 DEF Checkpoint, stream, StreamInv, TypeOK, InDraw, Settled, Drawing, Faithful

\* A lost process leaves its faithful checkpoints.
LEMMA VanishInv == StreamInv /\ Vanish => StreamInv'
  BY DEF Vanish, AtRest, StreamInv, TypeOK, InDraw, Settled, Retained, Prefix, After,
         NoCosts, Costs, NoRow, Rows

\* A call is given no more draws than remain (stream.rs: advance).
LEMMA AdvanceInv == ASSUME StreamInv, NEW draws \in 1..Shots, Advance(draws) PROVE StreamInv'
  <1>1. Settled /\ Remaining \in Nat /\ Len(statistics) \in Nat
    BY DEF StreamInv, Advance, InDraw, Remaining, TypeOK
  <1>2. budget' \in Nat /\ budget' > 0 /\ budget' + Len(statistics) <= Shots
    BY <1>1 DEF Advance, Remaining
  <1> QED
    BY <1>1, <1>2 DEF Advance, StreamInv, TypeOK, InDraw, Settled, Prefix

\* A draw begins in the state the prefix ends in, its sentinel in place.
LEMMA AttemptInv == ASSUME StreamInv, Attempt PROVE StreamInv'
  <1>1. Settled /\ failure = NoFailure /\ Len(statistics) \in Nat
    BY DEF StreamInv, Attempt, InDraw, TypeOK
  <1>2. TypeOK'
    BY <1>1 DEF Attempt, StreamInv, TypeOK, InDraw, NoRow, Rows, Failures
  <1>3. Drawing'
    BY <1>1 DEF Attempt, StreamInv, TypeOK, Drawing, Settled, NoRow, Retained, After, Rows, Costs
  <1> QED
    BY <1>2, <1>3 DEF Attempt, StreamInv, InDraw, Prefix, Retained

\* A measured operation is counted before it runs (costs.rs: measure).
LEMMA OpenInv == ASSUME StreamInv, OpenMeasurement PROVE StreamInv'
  <1>1. Drawing /\ pc = "sampling"
    BY DEF StreamInv, OpenMeasurement, InDraw
  <1>2. /\ query' \in Costs
        /\ query'.attempted = query.attempted + 1
        /\ query'.succeeded = query.succeeded
        /\ query'.failed = query.failed
    <2>1. query \in Costs
      BY DEF StreamInv, TypeOK
    <2>2. query.attempted + 1 \in Nat
      BY <2>1 DEF Costs
    <2> QED
      BY <2>1, <2>2 DEF OpenMeasurement, Costs
  <1>3. /\ query.attempted < MaxQueries
        /\ open' = open + 1
        /\ UNCHANGED <<pc, budget, random, statistics, efficiency, groups,
                       records, failure, row, staged, saved>>
    BY DEF OpenMeasurement
  <1> HIDE DEF OpenMeasurement
  <1>4. TypeOK'
    BY <1>2, <1>3 DEF StreamInv, TypeOK
  <1>5. Drawing'
    BY <1>1, <1>2, <1>3 DEF Drawing, Retained, After
  <1> QED
    BY <1>1, <1>2, <1>3, <1>4, <1>5 DEF StreamInv, TypeOK, Costs, InDraw, Prefix

\* A measured operation is counted once when it ends (costs.rs: Measurement::drop).
LEMMA CloseInv ==
  ASSUME StreamInv, NEW succeeded \in BOOLEAN, CloseMeasurement(succeeded)
  PROVE  StreamInv'
  <1>1. Drawing /\ pc = "sampling"
    BY DEF StreamInv, CloseMeasurement, InDraw
  <1>2. /\ open > 0
        /\ open' = open - 1
        /\ UNCHANGED <<pc, budget, random, statistics, efficiency, groups,
                       records, failure, staged, saved>>
    BY DEF CloseMeasurement
  <1>3. /\ query' \in Costs /\ row' \in Rows
        /\ query'.attempted = query.attempted
        /\ row'.from = row.from
        /\ \/ /\ query'.succeeded = query.succeeded + 1
              /\ query'.failed = query.failed
              /\ row'.measured = row.measured + 1
           \/ /\ query'.failed = query.failed + 1
              /\ query'.succeeded = query.succeeded
              /\ row'.measured = row.measured
    <2>1. query \in Costs /\ row \in Rows
      BY DEF StreamInv, TypeOK
    <2>2. CASE succeeded
      BY <2>1, <2>2 DEF CloseMeasurement, Costs, Rows
    <2>3. CASE ~ succeeded
      BY <2>1, <2>3 DEF CloseMeasurement, Costs, Rows
    <2> QED
      BY <2>2, <2>3
  <1>4. TypeOK'
    BY <1>2, <1>3 DEF StreamInv, TypeOK
  <1>5. /\ groups + row'.measured <= query'.succeeded
        /\ query'.attempted = query'.succeeded + query'.failed + open'
    <2>1. /\ groups \in Nat /\ row.measured \in Nat /\ open \in Nat
          /\ query.attempted \in Nat /\ query.succeeded \in Nat /\ query.failed \in Nat
      BY DEF StreamInv, TypeOK, Rows, Costs
    <2>2. /\ groups + row.measured <= query.succeeded
          /\ query.attempted = query.succeeded + query.failed + open
      BY <1>1 DEF Drawing, StreamInv
    <2> QED
      BY <1>2, <1>3, <2>1, <2>2
  <1>6. Drawing'
    BY <1>1, <1>2, <1>3, <1>5 DEF Drawing, Retained, After
  <1> QED
    BY <1>1, <1>2, <1>3, <1>4, <1>5, <1>6 DEF StreamInv, InDraw, Prefix

\* A sampled row begins where the prefix ends, and its groups were measured.
LEMMA SampleOkInv == ASSUME StreamInv, SampleOk PROVE StreamInv'
  <1>1. Drawing /\ failure \in Failures
    BY FailureKinds DEF StreamInv, SampleOk, InDraw, Drawing, TypeOK
  <1>2. PICK g \in 0..row.measured : row' = [row EXCEPT !.groups = g]
    BY DEF SampleOk
  <1>3. /\ row' \in Rows
        /\ row'.from = row.from
        /\ row'.groups = g
    <2>1. row \in Rows /\ g \in Nat
      BY DEF StreamInv, TypeOK, Rows
    <2> QED
      BY <1>2, <2>1 DEF Rows
  <1>4. failure' \in Failures /\ failure'.shot = failure.shot
    BY <1>1 DEF SampleOk, Failures
  <1>5. /\ pc = "sampling" /\ pc' = "statistics"
        /\ open = 0
        /\ random' = Drawn[random]
        /\ UNCHANGED <<budget, statistics, efficiency, groups, records, query,
                       open, staged, saved>>
    BY DEF SampleOk
  <1>6. failure' # NoFailure
    BY <1>4, FailureKinds
  <1>7. TypeOK'
    BY <1>3, <1>4, <1>5 DEF StreamInv, TypeOK, InDraw
  <1>8. Drawing'
    <2>1. /\ records = Retained(statistics) /\ efficiency = statistics
          /\ failure.shot = Len(statistics) /\ row.from = After(statistics)
          /\ random = row.from /\ groups + row.measured <= query.succeeded
      BY <1>1, <1>5 DEF Drawing
    <2>2. groups + g <= query.succeeded
      <3>1. /\ groups \in Nat /\ row.measured \in Nat /\ query.succeeded \in Nat
            /\ g \in 0..row.measured
        BY <1>2 DEF StreamInv, TypeOK, Rows, Costs
      <3> QED
        BY <2>1, <3>1
    <2>3. /\ records' = Retained(statistics') /\ row'.from = After(statistics')
          /\ failure'.shot = Len(statistics') /\ efficiency' = statistics'
          /\ open' = 0 /\ random' = Drawn[row'.from]
          /\ groups' + row'.groups <= query'.succeeded
      BY <1>3, <1>4, <1>5, <2>1, <2>2 DEF Retained, After
    <2> QED
      BY <1>5, <1>6, <2>3 DEF Drawing
  <1> QED
    BY <1>5, <1>7, <1>8 DEF StreamInv, InDraw, Prefix

\* A draw that ends before its commit leaves a failed stream at rest.
LEMMA FailInv ==
  ASSUME StreamInv, AtRest, pc \in {"sampling", "statistics", "efficiency"},
         random' \in RngStates,
         failure' \in Failures, failure'.shot = failure.shot,
         query' \in Costs, query'.succeeded = query.succeeded,
         query'.attempted = query'.succeeded + query'.failed,
         query'.attempted = query.attempted,
         UNCHANGED <<statistics, efficiency, groups, records, saved>>
  PROVE  StreamInv'
  <1>1. Drawing /\ Len(statistics) < Shots /\ failure' # NoFailure
    BY FailureKinds DEF StreamInv, InDraw, TypeOK, Failures
  <1>2. TypeOK'
    BY DEF AtRest, StreamInv, TypeOK, InDraw, NoRow, Rows
  <1>3. groups <= query.succeeded
    <2>1. /\ groups \in Nat /\ query.succeeded \in Nat
          /\ row.measured \in Nat /\ row.groups \in Nat
      BY DEF StreamInv, TypeOK, Rows, Costs
    <2> QED
      BY <1>1, <2>1 DEF Drawing
  <1>4. Settled'
    BY <1>1, <1>3 DEF AtRest, Drawing, Settled, Retained
  <1>5. /\ Prefix(statistics')
        /\ Len(statistics') <= Shots
        /\ statistics' = <<>> => groups' = 0
        /\ query'.attempted = query'.succeeded + query'.failed + open'
        /\ query'.attempted <= MaxQueries
    BY DEF AtRest, StreamInv, Costs
  <1>6. \A w \in saved' : Faithful(w)
    BY DEF StreamInv
  <1> QED
    BY <1>2, <1>4, <1>5, <1>6 DEF AtRest, StreamInv, InDraw

\* An error of the evaluator ends the draw (stream.rs: advance).
LEMMA SampleErrorInv == ASSUME StreamInv, SampleError PROVE StreamInv'
  <1>1. failure \in Failures
    BY FailureKinds DEF StreamInv, SampleError, InDraw, Drawing, TypeOK
  <1>2. random' \in RngStates /\ failure' \in Failures /\ failure'.shot = failure.shot
    BY <1>1 DEF SampleError, StreamInv, TypeOK, Failures
  <1> QED
    BY <1>2, FailInv DEF SampleError, StreamInv, TypeOK, Costs

\* An error of either half of the push ends the draw (run.rs: push).
LEMMA AccumulationErrorInv == ASSUME StreamInv, AccumulationError PROVE StreamInv'
  <1>1. failure \in Failures /\ open = 0
    BY FailureKinds DEF StreamInv, AccumulationError, InDraw, Drawing, TypeOK
  <1>2. failure' \in Failures /\ failure'.shot = failure.shot
    BY <1>1 DEF AccumulationError, Failures
  <1> QED
    BY <1>1, <1>2, FailInv DEF AccumulationError, StreamInv, TypeOK, Costs

\* A panic ends the draw, and the guards it drops balance the meter.
LEMMA UnwindInv == ASSUME StreamInv, Unwind PROVE StreamInv'
  <1>1. failure \in Failures /\ failure' = failure
    BY FailureKinds DEF StreamInv, Unwind, InDraw, Drawing, TypeOK
  <1>2. random' \in RngStates
    BY DEF Unwind, StreamInv, TypeOK
  <1>3. /\ query' \in Costs
        /\ query'.succeeded = query.succeeded
        /\ query'.attempted = query.attempted
        /\ query'.attempted = query'.succeeded + query'.failed
    <2>1. query \in Costs /\ open \in Nat /\ query.attempted = query.succeeded + query.failed + open
      BY DEF StreamInv, TypeOK
    <2>2. query.failed + open \in Nat
      BY <2>1 DEF Costs
    <2>3. /\ query' \in Costs
          /\ query'.succeeded = query.succeeded
          /\ query'.attempted = query.attempted
          /\ query'.failed = query.failed + open
      BY <2>1, <2>2 DEF Unwind, Costs
    <2> QED
      BY <2>1, <2>3 DEF Costs
  <1> QED
    BY <1>1, <1>2, <1>3, FailInv DEF Unwind

\* The first half of the push works on a clone (run.rs: push).
LEMMA PushStatisticsInv == ASSUME StreamInv, PushStatistics PROVE StreamInv'
  <1>1. Drawing
    BY DEF StreamInv, PushStatistics, InDraw
  <1>2. TypeOK'
    BY DEF PushStatistics, StreamInv, TypeOK, InDraw, Rows
  <1>3. Drawing'
    BY <1>1 DEF PushStatistics, StreamInv, TypeOK, Drawing, Retained, After
  <1> QED
    BY <1>2, <1>3 DEF PushStatistics, StreamInv, InDraw, Prefix

\* The second half is the only one the accumulator shows before the commit.
LEMMA PushEfficiencyInv == ASSUME StreamInv, PushEfficiency PROVE StreamInv'
  <1>1. Drawing
    BY DEF StreamInv, PushEfficiency, InDraw
  <1>2. TypeOK'
    BY DEF PushEfficiency, StreamInv, TypeOK, InDraw, Rows
  <1>3. Drawing'
    BY <1>1 DEF PushEfficiency, StreamInv, TypeOK, Drawing, Retained, After
  <1> QED
    BY <1>2, <1>3 DEF PushEfficiency, StreamInv, InDraw, Prefix

\* The commit extends the prefix by the draw in flight.
LEMMA CommitInv == ASSUME StreamInv, Commit PROVE StreamInv'
  <1>1. Drawing /\ budget > 0 /\ budget + Len(statistics) <= Shots
    BY DEF StreamInv, Commit, InDraw
  <1>2. /\ statistics' = Append(statistics, After(statistics))
        /\ random = Drawn[After(statistics)]
        /\ efficiency = statistics'
    BY <1>1 DEF Commit, Drawing
  <1>3. /\ statistics' \in Seq(RngStates)
        /\ Len(statistics') = Len(statistics) + 1
        /\ Prefix(statistics')
        /\ statistics' # <<>>
        /\ After(statistics') = random
    BY <1>2, PrefixExtends DEF StreamInv, TypeOK
  <1>4. TypeOK'
    BY <1>1, <1>3 DEF Commit, StreamInv, TypeOK, InDraw, NoRow, Rows
  <1>5. After(statistics)' = After(statistics')
    BY DEF After
  <1>6. records' = Retained(statistics')
    BY <1>1 DEF Commit, Drawing, Retained
  <1>7. Settled'
    BY <1>1, <1>2, <1>3, <1>5, <1>6
    DEF Commit, Drawing, Settled, StreamInv, TypeOK, Rows, Costs, Retained
  <1> QED
    BY <1>1, <1>3, <1>4, <1>7 DEF Commit, StreamInv, TypeOK, InDraw, Prefix

-----------------------------------------------------------------------------

\* Every step keeps the inductive invariant.
LEMMA NextInv == StreamInv /\ [Next]_vars => StreamInv'
  <1> SUFFICES ASSUME StreamInv, [Next]_vars PROVE StreamInv'
    OBVIOUS
  <1>1. CASE UNCHANGED vars
    BY <1>1 DEF vars, stream, StreamInv, TypeOK, Settled, Drawing, Prefix, After, Retained
  <1>2. CASE Next
    BY <1>2, StartInv, RestoreInv, CheckpointInv, VanishInv, AdvanceInv, AttemptInv,
       OpenInv, CloseInv, SampleOkInv, SampleErrorInv, PushStatisticsInv,
       PushEfficiencyInv, AccumulationErrorInv, CommitInv, UnwindInv
       DEF Next
  <1> QED
    BY <1>1, <1>2

\* The stream is always a cut of the uninterrupted run (stream.rs: advance;
\* checkpoint.rs: checkpoint_json and restore_stream_json).
THEOREM StreamCorrect == Spec => []StreamInv
  BY InitInv, NextInv, PTL DEF Spec

\* What the invariant says of a stream at rest and of its checkpoints.
LEMMA InvImplies ==
  StreamInv => /\ TypeOK /\ ExactPrefix /\ ExactCheckpoints /\ Aligned
               /\ CheckpointsRestorable /\ MeterBalanced
  BY DEF StreamInv, ExactPrefix, ExactCheckpoints, Aligned, CheckpointsRestorable,
         MeterBalanced, Settled, Drawing, Faithful, Retained, InDraw, TypeOK

\* Every variable keeps its type: counters stay natural, rows stay RNG states.
THEOREM TypeCorrect == Spec => []TypeOK
  BY StreamCorrect, InvImplies, PTL

\* However advances, failures, checkpoints and restorations interleave, the
\* committed rows are those of the one uninterrupted run (stream.rs: advance).
THEOREM PrefixExact == Spec => []ExactPrefix
  BY StreamCorrect, InvImplies, PTL

\* The same of every checkpoint ever encoded (checkpoint.rs: checkpoint_json).
THEOREM CheckpointsExact == Spec => []ExactCheckpoints
  BY StreamCorrect, InvImplies, PTL

\* At rest the two accumulators and the retained rows hold the same draws,
\* whatever error or panic ended the last push (run.rs: Accumulator::push).
THEOREM AccumulatorsAligned == Spec => []Aligned
  BY StreamCorrect, InvImplies, PTL

\* No checkpoint is encoded that restore_stream_json refuses (checkpoint.rs).
THEOREM CheckpointsAccepted == Spec => []CheckpointsRestorable
  BY StreamCorrect, InvImplies, PTL

\* The meter's counters balance through nested operations, errors and panics,
\* and the query quota is cumulative over restorations (costs.rs: measure).
THEOREM MeterCorrect == Spec => []MeterBalanced
  BY StreamCorrect, InvImplies, PTL

\* A failed stream, restored or not, changes no more (stream.rs: advance).
THEOREM FailureIsTerminal == Spec => FailureTerminal
  <1>1. [Next]_vars =>
          [pc = "idle" /\ failure # NoFailure /\ pc' # "none" => UNCHANGED <<pc, stream>>]_vars
    BY DEF Next, Start, Restore, Checkpoint, Vanish, Advance, Attempt, OpenMeasurement,
           CloseMeasurement, SampleOk, SampleError, PushStatistics, PushEfficiency,
           AccumulationError, Commit, Unwind, vars
  <1> QED
    BY <1>1, PTL DEF Spec, FailureTerminal

-----------------------------------------------------------------------------
(* TaskStream implements ExactSampling. *)

\* The checkpoints saved are the only source of saved positions.
LEMMA SameSaved == UNCHANGED saved => UNCHANGED SavedPositions
  BY DEF SavedPositions

\* A stream that fails spends the draw in flight and nothing else.
LEMMA FailRefines ==
  ASSUME StreamInv, AtRest, pc \in {"sampling", "statistics", "efficiency"},
         random' \in Interrupted[row.from] \cup {row.from, Drawn[row.from]},
         failure' # NoFailure, UNCHANGED <<statistics, saved>>
  PROVE  Sampling!Fail
  <1>1. /\ CurrentPosition = Position(statistics, row.from, NoFailure)
        /\ CurrentPosition' = Position(statistics, random', failure')
    BY DEF AtRest, CurrentPosition, InDraw, Position
  <1>2. Len(statistics) < Shots
    BY DEF StreamInv, InDraw, TypeOK
  <1>3. Sampling!Live
    BY <1>1, <1>2 DEF Sampling!Live, Sampling!Lost, Position
  <1>4. CurrentPosition' = [rows |-> CurrentPosition.rows, random |-> random', failed |-> TRUE]
    BY <1>1 DEF Position
  <1>5. random' \in Interrupted[CurrentPosition.random]
                    \cup {CurrentPosition.random, Drawn[CurrentPosition.random]}
    BY <1>1 DEF Position
  <1> QED
    BY <1>3, <1>4, <1>5, SameSaved DEF Sampling!Fail

\* The commit is the draw of the abstract run.
LEMMA CommitRefines == ASSUME StreamInv, Commit PROVE Sampling!Draw
  <1>1. Drawing /\ budget > 0 /\ budget + Len(statistics) <= Shots
    BY DEF StreamInv, Commit, InDraw
  <1>2. /\ CurrentPosition = Position(statistics, row.from, NoFailure)
        /\ CurrentPosition' = Position(Append(statistics, row.from), Drawn[row.from], NoFailure)
    BY <1>1 DEF Commit, CurrentPosition, InDraw, Position, Drawing
  <1>3. Sampling!Live
    <2>1. Len(statistics) < Shots
      BY <1>1 DEF StreamInv, TypeOK
    <2> QED
      BY <1>2, <2>1 DEF Sampling!Live, Sampling!Lost, Position
  <1>4. CurrentPosition' = [rows   |-> Append(CurrentPosition.rows, CurrentPosition.random),
                            random |-> Drawn[CurrentPosition.random],
                            failed |-> FALSE]
    BY <1>2 DEF Position
  <1> QED
    BY <1>3, <1>4, SameSaved DEF Sampling!Draw, Commit

\* Every step of the stream is a step of the abstract run, or none.
LEMMA StepRefines == ASSUME StreamInv, Next PROVE Sampling!Next \/ UNCHANGED Sampling!vars
  <1>1. CASE Start
    BY <1>1, SameSaved DEF Start, AtRest, CurrentPosition, InDraw, Position, Sampling!Next,
       Sampling!Begin, Sampling!Lost, Sampling!Fresh
  <1>2. ASSUME NEW w \in saved, Restore(w) PROVE Sampling!Resume
    BY <1>2, SameSaved DEF Restore, AtRest, CurrentPosition, SavedPositions, InDraw, Position,
       Sampling!Resume, Sampling!Lost
  <1>3. CASE Checkpoint
    <2>1. PICK kept \in SUBSET saved : saved' = kept \cup {Wire}
      BY <1>3 DEF Checkpoint
    <2>2. /\ CurrentPosition = Position(statistics, random, failure)
          /\ UNCHANGED CurrentPosition
      BY <1>3 DEF Checkpoint, stream, CurrentPosition, InDraw, Position
    <2>3. Position(Wire.statistics, Wire.random, Wire.failure) = CurrentPosition
      BY <2>2 DEF Wire
    <2>4. SavedPositions' \in SUBSET (SavedPositions \cup {CurrentPosition})
      BY <2>1, <2>3 DEF SavedPositions
    <2>5. CurrentPosition # Sampling!Lost
      BY <2>2 DEF Position, Sampling!Lost
    <2> QED
      BY <2>2, <2>4, <2>5 DEF Sampling!Next, Sampling!Save
  <1>4. CASE Vanish
    BY <1>4, SameSaved DEF Vanish, CurrentPosition, Sampling!Next, Sampling!Lose, Sampling!Lost
  <1>5. ASSUME NEW draws \in 1..Shots, Advance(draws) PROVE UNCHANGED Sampling!vars
    BY <1>5, SameSaved DEF Advance, CurrentPosition, InDraw, Position, Sampling!vars
  <1>6. CASE Attempt
    <2>1. failure = NoFailure /\ row'.from = random
      BY <1>6 DEF Attempt, StreamInv, NoRow
    <2> QED
      BY <1>6, <2>1, SameSaved DEF Attempt, CurrentPosition, InDraw, Position, Sampling!vars
  <1>7. CASE OpenMeasurement
    BY <1>7, SameSaved DEF OpenMeasurement, CurrentPosition, InDraw, Position, Sampling!vars
  <1>8. ASSUME NEW succeeded \in BOOLEAN, CloseMeasurement(succeeded)
        PROVE  UNCHANGED Sampling!vars
    <2>1. row'.from = row.from
      BY <1>8 DEF CloseMeasurement, StreamInv, TypeOK, Rows
    <2> QED
      BY <1>8, <2>1, SameSaved DEF CloseMeasurement, CurrentPosition, InDraw, Position,
         Sampling!vars
  <1>9. CASE SampleOk
    <2>1. row'.from = row.from
      BY <1>9 DEF SampleOk, StreamInv, TypeOK, Rows
    <2> QED
      BY <1>9, <2>1, SameSaved DEF SampleOk, CurrentPosition, InDraw, Position, Sampling!vars
  <1>10. CASE PushStatistics \/ PushEfficiency
    BY <1>10, SameSaved DEF PushStatistics, PushEfficiency, CurrentPosition, InDraw, Position,
       Sampling!vars
  <1>11. CASE SampleError
    <2>1. Drawing /\ random = row.from /\ failure \in Failures
      BY <1>11, FailureKinds DEF StreamInv, SampleError, InDraw, Drawing, TypeOK
    <2>2. failure' # NoFailure
      BY <1>11, <2>1 DEF SampleError, Failures
    <2> QED
      BY <1>11, <2>1, <2>2, FailRefines DEF SampleError, Sampling!Next
  <1>12. CASE AccumulationError
    <2>1. Drawing /\ random = Drawn[row.from] /\ failure \in Failures
      BY <1>12, FailureKinds DEF StreamInv, AccumulationError, InDraw, Drawing, TypeOK
    <2>2. failure' # NoFailure
      BY <1>12, <2>1 DEF AccumulationError, Failures
    <2> QED
      BY <1>12, <2>1, <2>2, FailRefines DEF AccumulationError, Sampling!Next
  <1>13. CASE Commit
    BY <1>13, CommitRefines DEF Sampling!Next
  <1>14. CASE Unwind
    <2>1. Drawing /\ failure' # NoFailure
      BY <1>14 DEF StreamInv, Unwind, InDraw, Drawing
    <2>2. random' \in Interrupted[row.from] \cup {row.from, Drawn[row.from]}
      BY <1>14, <2>1 DEF Unwind, Drawing
    <2> QED
      BY <1>14, <2>1, <2>2, FailRefines DEF Unwind, Sampling!Next
  <1> QED
    BY <1>1, <1>2, <1>3, <1>4, <1>5, <1>6, <1>7, <1>8, <1>9, <1>10, <1>11, <1>12, <1>13, <1>14
       DEF Next, Sampling!Next

\* The stream of the code, with its checkpoints, failures and restorations, is
\* one exact sampling run from the seed (stream.rs, checkpoint.rs, run.rs).
THEOREM StreamImplements == Spec => Implements
  <1>1. Init => Sampling!Init
    BY DEF Init, Sampling!Init, CurrentPosition, SavedPositions, Sampling!Lost
  <1>2. StreamInv /\ [Next]_vars => [Sampling!Next]_Sampling!vars
    <2>1. UNCHANGED vars => UNCHANGED Sampling!vars
      BY DEF vars, stream, Sampling!vars, CurrentPosition, SavedPositions, Position
    <2> QED
      BY <2>1, StepRefines
  <1> QED
    BY <1>1, <1>2, StreamCorrect, PTL DEF Spec, Implements, Sampling!Spec
=============================================================================
