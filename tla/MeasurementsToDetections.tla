---------------------- MODULE MeasurementsToDetections ---------------------
(***************************************************************************)
(* From the measurements of a shot to what its detectors and observables   *)
(* say, by comparison with the reference sample (src/rstim/src/m2d.rs),    *)
(* also for measurements that were taken without the circuit's feedback    *)
(* (--ran_without_feedback): then a feedback is carried to the measurement *)
(* of its qubit, which it would have flipped (transforms.rs).              *)
(***************************************************************************)
EXTENDS Executor

\* The sample that measurements are compared with.
ReferenceSample(circuit) == FoldLeft(RefSampleOp, NewShot, circuit).record

(***************************************************************************)
(* The circuit without its feedback, and for each measurement those whose  *)
(* flips it would have got from it. Only an instruction with one pair is   *)
(* taken for feedback.                                                     *)
(***************************************************************************)

IsFeedbackOperation(op) == HasFeedback(op) /\ Len(op.on) = 1

\* The qubits among an instruction's targets; the bits of MPAD are written as qubits.
QubitsOf(op) ==
  UNION {CASE op.name \in TwoQubitGates \cup PairMeasurements \cup TwoQubitNoise ->
                {t[1], t[2]} \cap Qubits
           [] op.name \in {"MPP", "SPP", "SPP_DAG"} -> {term[1] : term \in Range(t)}
           [] op.name \in CorrelatedNoise -> {t[1]}
           [] op.name = "MPAD" -> {IF t THEN 1 ELSE 0} \cap Qubits
           [] OTHER -> {t} : t \in Range(op.on)}

\* Mutant: a result that flips X flips the measurement of X.
TakenSwapped(n, op, q) ==
  CASE op.name \in {"M", "MR"} -> n.z[q]
    [] op.name \in {"MX", "MRX"} -> n.x[q]
    [] op.name \in {"MY", "MRY"} -> n.x[q] \o n.z[q]

\* take_measurement_correction.
Taken(n, op, q) ==
  CASE op.name \in {"M", "MR"} -> n.x[q]
    [] op.name \in {"MX", "MRX"} -> n.z[q]
    [] op.name \in {"MY", "MRY"} -> n.x[q] \o n.z[q]

\* accumulate_feedback.
Accumulated(n, op) ==
  LET source == Len(n.corrections) + 1 + op.on[1][1]
      q      == op.on[1][2]
  IN [n EXCEPT !.x[q] = IF op.name \in {"CX", "CY"} THEN Append(@, source) ELSE @,
               !.z[q] = IF op.name \in {"CZ", "CY"} THEN Append(@, source) ELSE @]

Corrected(n, op, q) ==
  [n EXCEPT !.corrections = Append(@, Taken(n, op, q)), !.x[q] = <<>>, !.z[q] = <<>>]

Pending(n, qubits) == \E q \in qubits : n.x[q] # <<>> \/ n.z[q] # <<>>

NormalizedOp(n, op) ==
  CASE IsFeedbackOperation(op) -> Accumulated(n, op)
    [] op.name \in Annotations -> [n EXCEPT !.circuit = Append(@, op)]
    [] op.name \in Measurements \cup MeasureResets ->
         [FoldLeft(LAMBDA m, q : Corrected(m, op, q), n, op.on) EXCEPT !.circuit = Append(@, op)]
    [] OTHER ->
         [n EXCEPT !.circuit = Append(@, op),
                   !.corrections = @ \o [k \in 1 .. MeasurementsOf(op) |-> <<>>],
                   !.ok = @ /\ ~Pending(n, QubitsOf(op))]

\* normalize_feedbackless_m2d; ok says that the circuit is supported.
Normalized(circuit) ==
  LET start == [circuit |-> <<>>, corrections |-> <<>>, ok |-> TRUE,
                x |-> [q \in Qubits |-> <<>>], z |-> [q \in Qubits |-> <<>>]]
      end   == FoldLeft(NormalizedOp, start, circuit)
  IN [end EXCEPT !.ok = @ /\ ~Pending(end, Qubits)]

(***************************************************************************)
(* measurements_to_detections_with_layout.                                 *)
(***************************************************************************)

\* How each measurement differs from the reference, its corrections taken into account.
FlipsOf(record, reference, corrections) ==
  FoldLeft(LAMBDA flips, i :
             Append(flips, (record[i] # reference[i])
                             # Odd({k \in DOMAIN corrections[i] : flips[corrections[i][k]]})),
           <<>>, [i \in DOMAIN record |-> i])

\* The detectors and observables of the circuit that the flips say fired.
DetectedIn(circuit, flips) ==
  LET Step(run, op) ==
        CASE op.name = "DETECTOR" ->
               [run EXCEPT !.detectors = Append(@, Parity(SubSeq(flips, 1, run.measured), op))]
          [] op.name = "OBSERVABLE_INCLUDE" ->
               [run EXCEPT !.observables =
                  Append(@, <<op.arg, Parity(SubSeq(flips, 1, run.measured), op)>>)]
          [] OTHER -> [run EXCEPT !.measured = @ + MeasurementsOf(op)]
      end == FoldLeft(Step, [detectors |-> <<>>, observables |-> <<>>, measured |-> 0], circuit)
  IN Detection(end.detectors, end.observables)

Converted(circuit, record, reference, corrections) ==
  LET flips == FlipsOf(record, reference, corrections)
  IN <<flips, DetectedIn(circuit, flips)>>

=============================================================================
