------------------------- MODULE StabilizerCircuits ------------------------
(***************************************************************************)
(* A circuit through src/rstim: its reference sample, its shots in the     *)
(* tableau executor, its shots in the frame simulator that batches are     *)
(* sampled with, and its error analysis, each one instruction at a time.   *)
(* The samplers are kept as the sets of states they can be in.             *)
(***************************************************************************)
EXTENDS MeasurementsToDetections, FrameSimulator, ErrorAnalyzer

CONSTANTS
  Circuits,        \* the circuits considered, sequences of instructions
  Unrolled(_)      \* a circuit with its loops unrolled

\* No lookback goes further than the n measurements before it (validation.rs).
LooksBackWithin(op, n) ==
  \A i \in DOMAIN op.on :
    /\ op.name \in {"DETECTOR", "OBSERVABLE_INCLUDE"} => op.on[i] <= n
    /\ op.name \in {"CX", "CY", "CZ"} /\ Controlled(op.on[i]) => -op.on[i][1] <= n

ValidCircuit(ops) ==
  /\ ops \in Seq(Range(ops)) \ {<<>>}
  /\ \A i \in DOMAIN ops :
       Valid(ops[i]) /\ LooksBackWithin(ops[i], CountMeasurements(SubSeq(ops, 1, i - 1)))

ASSUME CircuitsAreValid == \A c \in Circuits : ValidCircuit(Unrolled(c))

VARIABLES
  program,     \* a circuit, as it is written
  circuit,     \* the same circuit with its loops unrolled
  stage,       \* "reference", "shots", "frames", "analysis" or "done"
  pc,          \* instructions executed; in the analysis, instructions not yet undone
  reference,   \* the shot of the reference sample
  shots,       \* the shots that the executor may be in
  frames,      \* the states that the frame simulator may be in
  analysis

vars == <<program, circuit, stage, pc, reference, shots, frames, analysis>>

Init ==
  /\ program \in Circuits
  /\ circuit = Unrolled(program)
  /\ stage = "reference"
  /\ pc = 0
  /\ reference = NewShot
  /\ shots = {NewShot}
  /\ frames = NewFrames
  /\ analysis = NewAnalysis(circuit)

\* After the last instruction the next stage begins, an analysis at the circuit's end.
Proceed(next) ==
  IF pc + 1 < Len(circuit) THEN stage' = stage /\ pc' = pc + 1
  ELSE stage' = next /\ pc' = IF next = "analysis" THEN Len(circuit) ELSE 0

RefSample ==
  /\ stage = "reference"
  /\ reference' = RefSampleOp(reference, circuit[pc + 1])
  /\ Proceed("shots")
  /\ UNCHANGED <<program, circuit, shots, frames, analysis>>

\* A frame cannot follow feedback: such a circuit is sampled by the executor. (So is one with MPP,
\* which frames can follow, and are made to here.)
Fed(ops) == \E i \in DOMAIN ops : HasFeedback(ops[i])

Execute ==
  /\ stage = "shots"
  /\ shots' = UNION {ExecuteOp(shot, circuit[pc + 1], BOOLEAN) : shot \in shots}
  /\ Proceed(IF Fed(circuit) THEN "analysis" ELSE "frames")
  /\ UNCHANGED <<program, circuit, reference, frames, analysis>>

RunFrames ==
  /\ stage = "frames"
  /\ frames' = UNION {FrameOp(sim, circuit[pc + 1], reference.record) : sim \in frames}
  /\ Proceed("analysis")
  /\ UNCHANGED <<program, circuit, reference, shots, analysis>>

\* The analysis ends at the circuit's start, or with an error.
Undone(a, n) ==
  /\ analysis' = IF pc = n THEN EnsureNoPendingGauge(a) ELSE a
  /\ pc' = pc - n
  /\ stage' = IF pc = n \/ a.outcome # "analyzing" THEN "done" ELSE "analysis"
  /\ UNCHANGED <<program, circuit, reference, shots, frames>>

Undo ==
  /\ stage = "analysis"
  /\ circuit[pc].name # "ELSE_CORRELATED_ERROR"
  /\ Undone(UndoOp(analysis, circuit[pc]), 1)

\* The block of an error and its else branches, which must begin with the error.
UndoElse ==
  /\ stage = "analysis"
  /\ circuit[pc].name = "ELSE_CORRELATED_ERROR"
  /\ LET start == Max({0} \cup {i \in 1 .. pc : circuit[i].name # "ELSE_CORRELATED_ERROR"})
     IN IF start > 0 /\ circuit[start].name = "E"
        THEN Undone(UndoBlock(analysis, SubSeq(circuit, start, pc)), pc + 1 - start)
        ELSE Undone([analysis EXCEPT !.outcome = "unsupported"], 1)

Next == RefSample \/ Execute \/ RunFrames \/ Undo \/ UndoElse

Spec == Init /\ [][Next]_vars

(***************************************************************************)
(* What the properties speak of.                                           *)
(***************************************************************************)

Fired(run) == Detection(run.detectors, run.observables)

\* The qubits that a group of targets uses, noise left aside.
QubitsUsed(op, t) ==
  CASE op.name \in OneQubitGates \cup Measurements \cup MeasureResets \cup Resets -> {t}
    [] op.name \in TwoQubitGates \cup PairMeasurements -> {t[1], t[2]}
    [] op.name \in {"MPP", "SPP", "SPP_DAG"} -> {term[1] : term \in Range(t)}
    [] OTHER -> {}

\* The qubit whose frame a measurement, or a reset in the basis Y, leaves wrong.
QubitsLost(op, t) ==
  CASE op.name \in Measurements \cup {"RY", "MRY"} -> {t}
    [] op.name \in PairMeasurements -> {t[2]}
    [] op.name = "MPP" -> {Last(t)[1]}
    [] OTHER -> {}

\* No qubit is used between a measurement of it and a reset.
ResetAfterMeasurement(ops) ==
  LET Step(acc, op, t) ==
        IF op.name \in {"R", "RX"} THEN [acc EXCEPT !.lost = @ \ {t}]
        ELSE [lost |-> acc.lost \cup QubitsLost(op, t),
              kept |-> acc.kept /\ QubitsUsed(op, t) \cap acc.lost = {}]
  IN FoldLeft(LAMBDA acc, op : FoldLeft(LAMBDA b, t : Step(b, op, t), acc, op.on),
              [lost |-> {}, kept |-> TRUE], ops).kept

ProductsMeasured(ops) == \E i \in DOMAIN ops : ops[i].name \in PairMeasurements \cup {"MPP"}

\* What error_analyzer.rs does not undo in reverse, or does not look at: the two steps of CXSWAP and
\* of SWAPCX, the pairs of a gate that share a qubit, the pairs of a pair measurement, the readout
\* noise of products, and feedback.
UndoneInReverse(ops) ==
  \A i \in DOMAIN ops :
    /\ ~HasFeedback(ops[i])
    /\ ops[i].name \notin {"CXSWAP", "SWAPCX"}
    /\ ops[i].name \in TwoQubitGates \cup PairMeasurements => Len(ops[i].on) = 1
    /\ ops[i].name \in PairMeasurements \cup {"MPP"} => ops[i].arg = 0

\* A record padded with bits that noise flips: in the executor only, not in a frame
\* (sim/frame.rs:887) and not for the analysis (error_analyzer.rs:848).
PadsFlip(ops) == \E i \in DOMAIN ops : ops[i].name = "MPAD" /\ ops[i].arg > 0

\* A detector or an observable looks back at a herald, which the analysis takes back without
\* its targets (error_analyzer.rs:1052).
HeraldsSeen(ops) ==
  LET measured == [n \in 0 .. Len(ops) |-> CountMeasurements(SubSeq(ops, 1, n))]
  IN \E i, j \in DOMAIN ops :
       /\ ops[i].name \in Heralded
       /\ ops[j].name \in Annotations
       /\ \E k \in Range(ops[j].on) : measured[j] + 1 - k \in measured[i - 1] + 1 .. measured[i]

\* No qubit that a feedback has flipped is used after it was measured and before it is reset, not even
\* by the instruction that measures it, and an instruction that feeds back has one pair.
FlippedOnce(ops) ==
  LET Step(acc, op) ==
        [n    |-> NormalizedOp(acc.n, op),
         lost |-> CASE op.name \in Resets -> acc.lost \ QubitsOf(op)
                    [] op.name \in Measurements ->
                         acc.lost \cup {q \in QubitsOf(op) : Pending(acc.n, {q})}
                    [] OTHER -> acc.lost,
         kept |-> /\ acc.kept
                  /\ HasFeedback(op) => IsFeedbackOperation(op)
                  /\ op.name \in Measurements /\ Pending(acc.n, QubitsOf(op)) => IsInjective(op.on)
                  /\ op.name \in Resets \cup Annotations \/ QubitsOf(op) \cap acc.lost = {}]
  IN FoldLeft(Step, [n |-> Normalized(<<>>), lost |-> {}, kept |-> TRUE], ops).kept

\* What a Pauli before these instructions flips, in any of the frames it may come to.
ForwardFlips(ops, q, pauli, a) ==
  LET before == [frame |-> AddPauli(NoFlips, q, pauli),
                 flips |-> [m \in 1 .. a.measured |-> FALSE],
                 detectors |-> [d \in 1 .. a.detector |-> FALSE],
                 observables |-> <<>>, corr |-> FALSE]
      zeros == [m \in DOMAIN a.measurement |-> FALSE]
      After(sims, op) == UNION {FrameOp(sim, Quiet(op), zeros) : sim \in sims}
  IN {Fired(sim) : sim \in FoldLeft(After, {before}, ops)}

\* The sums of some of these sets.
Sums(sets) ==
  FoldSet(LAMBDA e, sums : sums \cup {SymDiff(e, a) : a \in sums}, {{}}, sets)

CleanlyFired == {Fired(shot) : shot \in {a \in shots : a.clean}}

\* What noise flips in some shot, if without noise every shot fires the same.
NoiseFlips == {SymDiff(Fired(shot), CHOOSE f \in CleanlyFired : TRUE) : shot \in shots}

(***************************************************************************)
(* Properties.                                                             *)
(***************************************************************************)

\* In every shot and in the reference sample the tableau stays one: destabilizer i anticommutes
\* with stabilizer i and with nothing else, and no stabilizer gets an imaginary sign
\* (sim/tableau.rs, measure_z and row_mult).
WellFormed == \A shot \in shots \cup {reference} : IsTableau(shot.tab)

\* Batches are sampled right: the records, detectors and observables that frames may give are
\* those that the executor may give, no fewer and no more - of a circuit that resets a qubit
\* before it uses it after a measurement, and pads with bits that stay (sampler.rs, sim/frame.rs).
SamplingExact ==
  stage = "analysis" /\ pc = Len(circuit) /\ ~Fed(circuit)
    /\ ResetAfterMeasurement(circuit) /\ ~PadsFlip(circuit) =>
    {<<shot.record, Fired(shot)>> : shot \in shots}
      = {<<FrameRecord(sim, reference.record), Fired(sim)>> : sim \in frames}

\* A record sampled from frames is a record that the executor may give, whatever the circuit
\* (docs/superpowers/specs/2026-07-09-issue-431-frame-possible-outputs-design.md).
SamplesPossible ==
  stage = "analysis" /\ pc = Len(circuit) =>
    {FrameRecord(sim, reference.record) : sim \in frames} \subseteq {shot.record : shot \in shots}

\* Measurements taken without the circuit's feedback, once converted with the corrections for it,
\* say of the measurements, detectors and observables what those taken with it say, of a circuit that
\* does not use a qubit between a measurement that a feedback flipped and a reset (m2d.rs).
FeedbacklessExact ==
  LET bare == Normalized(circuit)
      none == [i \in DOMAIN reference.record |-> <<>>]
      sampled == FoldLeft(LAMBDA from, op : UNION {ExecuteOp(shot, op, BOOLEAN) : shot \in from},
                          {NewShot}, bare.circuit)
  IN stage = "analysis" /\ pc = Len(circuit) /\ Fed(circuit) /\ FlippedOnce(circuit) /\ bare.ok =>
       {Converted(bare.circuit, shot.record, ReferenceSample(bare.circuit), bare.corrections)
          : shot \in sampled}
         = {Converted(circuit, shot.record, reference.record, none) : shot \in shots}

\* At every point of the circuit the backward analysis and a forward frame agree about which
\* detectors and observables an X, a Y or a Z there flips, beside what random frames flip of
\* themselves - which is nothing, unless products are measured, of which the analysis does not
\* check that nothing feels the frames they leave (error_analyzer.rs against sim/frame.rs).
EffectsExact ==
  LET suffix == SubSeq(circuit, pc + 1, Len(circuit))
  IN stage = "analysis" /\ ResetAfterMeasurement(suffix) /\ UndoneInReverse(suffix) =>
       \A q \in Qubits :
         LET random == ForwardFlips(suffix, q, "I", analysis)
         IN /\ \A pauli \in Bases :
                 ForwardFlips(suffix, q, pauli, analysis)
                   = {SymDiff(r, Sensitivity(analysis, q, pauli)) : r \in random}
            /\ ~ProductsMeasured(suffix) => random = {{}}

\* A circuit is rejected as not deterministic only if some detector or observable can differ
\* between two shots without noise - if none looks back at a herald -, and accepted, if it measures
\* no products, only if none can.
GaugeExact ==
  stage = "done" /\ UndoneInReverse(circuit) =>
    /\ analysis.outcome = "gauge" /\ ~HeraldsSeen(circuit) => Cardinality(CleanlyFired) > 1
    /\ analysis.outcome = "accepted" /\ ~ProductsMeasured(circuit) => Cardinality(CleanlyFired) = 1

\* The errors of an accepted circuit that pads with bits that stay are what its noise does: each of
\* them alone, and nothing that is not a sum of them, is what some shot fires beyond the shots
\* without noise.
DemExact ==
  stage = "done" /\ UndoneInReverse(circuit) /\ ~PadsFlip(circuit)
    /\ analysis.outcome = "accepted" /\ Cardinality(CleanlyFired) = 1 =>
    /\ {{}} \cup analysis.errors \subseteq NoiseFlips
    /\ NoiseFlips \subseteq Sums(analysis.errors)

=============================================================================
