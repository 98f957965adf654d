--------------------------- MODULE ErrorAnalyzer ---------------------------
(***************************************************************************)
(* The error analyzer of src/rstim/src/error_analyzer.rs. It walks a       *)
(* circuit backwards and keeps, for every qubit, the detectors and         *)
(* observables that an X, or a Z, there would flip (x_sens, z_sens), and   *)
(* for every measurement those that look back at it (measurement_sens).    *)
(* From them it reads off what each error of a noise instruction flips,    *)
(* and rejects a circuit with a detector that is not deterministic.        *)
(*                                                                         *)
(* A target is <<"D", i>>, the i-th detector, or <<"L", k>>, observable k. *)
(* "gauge" and "unsupported" are the errors that the analysis ends with.   *)
(***************************************************************************)
EXTENDS StimCircuit, SequencesExt

CountMeasurements(ops) == FoldLeft(LAMBDA n, op : n + MeasurementsOf(op), 0, ops)

NewAnalysis(circuit) ==
  [x |-> [q \in Qubits |-> {}], z |-> [q \in Qubits |-> {}],
   measurement |-> [m \in 1 .. CountMeasurements(circuit) |-> {}],
   measured |-> CountMeasurements(circuit),
   detector |-> Cardinality({i \in DOMAIN circuit : circuit[i].name = "DETECTOR"}),
   errors |-> {}, outcome |-> "analyzing"]

(***************************************************************************)
(* Gates, backwards: what a Pauli before the gate flips, from what the     *)
(* Paulis after it flip.                                                   *)
(***************************************************************************)

undo_h(a, q) == [a EXCEPT !.x[q] = a.z[q], !.z[q] = a.x[q]]
undo_s(a, q) == [a EXCEPT !.x[q] = SymDiff(@, a.z[q])]
undo_sqrt_x(a, q) == [a EXCEPT !.z[q] = SymDiff(@, a.x[q])]
\* Mutant: the rule of the inverse gate.
undo_c_xyz_transposed(a, q) == [a EXCEPT !.x[q] = a.z[q], !.z[q] = SymDiff(a.x[q], a.z[q])]
undo_c_xyz(a, q) == [a EXCEPT !.x[q] = SymDiff(@, a.z[q]), !.z[q] = a.x[q]]
undo_c_zyx(a, q) == [a EXCEPT !.x[q] = a.z[q], !.z[q] = SymDiff(a.x[q], a.z[q])]
undo_cx(a, c, t) == [a EXCEPT !.x[c] = SymDiff(@, a.x[t]), !.z[t] = SymDiff(@, a.z[c])]
undo_cz(a, p, q) == [a EXCEPT !.x[p] = SymDiff(@, a.z[q]), !.x[q] = SymDiff(@, a.z[p])]
undo_swap(a, p, q) ==
  [a EXCEPT !.x[p] = a.x[q], !.x[q] = a.x[p], !.z[p] = a.z[q], !.z[q] = a.z[p]]

UndoGate1(name, a, q) ==
  CASE name \in {"I", "X", "Y", "Z"} -> a
    [] name \in {"H", "SQRT_Y", "SQRT_Y_DAG", "H_NXZ"} -> undo_h(a, q)
    [] name \in {"S", "S_DAG", "H_XY", "H_NXY"} -> undo_s(a, q)
    [] name \in {"SQRT_X", "SQRT_X_DAG", "H_YZ", "H_NYZ"} -> undo_sqrt_x(a, q)
    [] name \in {"C_XYZ", "C_NXYZ", "C_XNYZ", "C_XYNZ"} -> undo_c_xyz(a, q)
    [] name \in {"C_ZYX", "C_NZYX", "C_ZNYX", "C_ZYNX"} -> undo_c_zyx(a, q)

UndoGate2(name, a, p, q) ==
  CASE name = "CX" -> undo_cx(a, p, q)
    [] name = "CY" -> undo_s(undo_cx(undo_s(a, q), p, q), q)
    [] name = "CZ" -> undo_cz(a, p, q)
    [] name = "XCX" -> undo_h(undo_cx(undo_h(a, p), p, q), p)
    [] name = "XCY" -> undo_sqrt_x(undo_cx(undo_sqrt_x(a, q), q, p), q)
    [] name = "XCZ" -> undo_cx(a, q, p)
    [] name = "YCX" -> undo_sqrt_x(undo_cx(undo_sqrt_x(a, p), p, q), p)
    [] name = "YCY" ->
         undo_sqrt_x(undo_sqrt_x(undo_cz(undo_sqrt_x(undo_sqrt_x(a, p), q), p, q), q), p)
    [] name = "YCZ" -> undo_s(undo_cx(undo_s(a, p), q, p), p)
    [] name = "SWAP" -> undo_swap(a, p, q)
    [] name \in {"ISWAP", "ISWAP_DAG"} -> undo_swap(undo_cz(undo_s(undo_s(a, p), q), p, q), p, q)
    [] name = "CXSWAP" -> undo_cx(undo_cx(a, q, p), p, q)
    [] name = "SWAPCX" -> undo_cx(undo_cx(a, p, q), q, p)
    [] name = "CZSWAP" -> undo_swap(undo_cz(a, p, q), p, q)

UndoTerm(a, term) ==
  CASE term[2] = "X" -> undo_h(a, term[1])
    [] term[2] = "Y" -> undo_sqrt_x(a, term[1])
    [] term[2] = "Z" -> a
UndoUnfold(a, product) ==
  FoldLeft(LAMBDA b, term : undo_cx(b, term[1], Last(product)[1]),
           FoldLeft(UndoTerm, a, product), Front(product))
UndoFold(a, product) ==
  FoldLeft(UndoTerm,
           FoldLeft(LAMBDA b, term : undo_cx(b, term[1], Last(product)[1]), a,
                    Reverse(Front(product))),
           product)

(***************************************************************************)
(* Measurements and resets, backwards.                                     *)
(***************************************************************************)

\* What a Pauli on a qubit flips.
Sensitivity(a, q, pauli) ==
  CASE pauli = "I" -> {}
    [] pauli = "X" -> a.x[q]
    [] pauli = "Y" -> SymDiff(a.x[q], a.z[q])
    [] pauli = "Z" -> a.z[q]

\* Mutant: looks at what flips the result of Z, whatever the basis.
EnsuredFlipFree(a, q, basis) ==
  IF a.z[q] = {} THEN a ELSE [a EXCEPT !.outcome = "gauge"]

\* The Pauli that a state just measured or reset in a basis does not feel must flip nothing.
Ensured(a, q, basis) ==
  IF Sensitivity(a, q, basis) = {} THEN a ELSE [a EXCEPT !.outcome = "gauge"]

\* Add errors that are not nothing.
Emit(a, errors) == [a EXCEPT !.errors = @ \cup (errors \ {{}})]
EmitReadout(a, op) == IF op.arg > 0 THEN Emit(a, {a.measurement[a.measured]}) ELSE a

\* The targets of the last measurement not yet undone become those of the Paulis that flip it.
UndoMeasure(a, q, basis) ==
  LET m == a.measurement[a.measured]
  IN [a EXCEPT !.measured = @ - 1, !.measurement[a.measured] = {},
               !.x[q] = IF basis \in {"Z", "Y"} THEN SymDiff(@, m) ELSE @,
               !.z[q] = IF basis \in {"X", "Y"} THEN SymDiff(@, m) ELSE @]

Cleared(a, q) == [a EXCEPT !.x[q] = {}, !.z[q] = {}]

UndoProductMeasurement(a, product) ==
  UndoFold(UndoMeasure(UndoUnfold(a, product), Last(product)[1], "Z"), product)

\* What the errors of a channel on a qubit or on a pair flip.
Channel(a, op, t) ==
  IF op.name \in OneQubitNoise \cup Heralded
  THEN {Sensitivity(a, t, pauli) : pauli \in Paulis(op.name)}
  ELSE {SymDiff(Sensitivity(a, t[1], p), Sensitivity(a, t[2], q)) : p, q \in Paulis(op.name)}
\* Mutant: what several of the error's Paulis flip does not cancel.
CorrelatedUnited(a, op) ==
  FoldLeft(LAMBDA flipped, term : flipped \cup Sensitivity(a, term[1], term[2]), {}, op.on)

Correlated(a, op) ==
  FoldLeft(LAMBDA flipped, term : SymDiff(flipped, Sensitivity(a, term[1], term[2])), {}, op.on)

(***************************************************************************)
(* One group of targets of an instruction, and the order in which the      *)
(* groups are undone.                                                      *)
(***************************************************************************)

UndoTarget(a, op, t) ==
  LET basis == Basis(op.name)
  IN CASE op.name \in OneQubitGates -> UndoGate1(op.name, a, t)
       [] op.name \in TwoQubitGates -> UndoGate2(op.name, a, t[1], t[2])
       [] op.name \in Measurements -> UndoMeasure(EmitReadout(Ensured(a, t, basis), op), t, basis)
       [] op.name \in MeasureResets ->
            UndoMeasure(Cleared(EmitReadout(Ensured(a, t, basis), op), t), t, basis)
       [] op.name \in Resets -> Cleared(Ensured(a, t, basis), t)
       [] op.name \in PairMeasurements -> UndoProductMeasurement(a, PairProduct(op.name, t))
       [] op.name = "MPP" -> UndoProductMeasurement(a, t)
       [] op.name \in {"SPP", "SPP_DAG"} ->
            UndoFold(undo_s(UndoUnfold(a, t), Last(t)[1]), t)
       [] op.name = "MPAD" -> [a EXCEPT !.measurement[a.measured] = {}, !.measured = @ - 1]
       [] op.name \in Heralded ->
            Emit([a EXCEPT !.measured = @ - 1], IF op.arg > 0 THEN Channel(a, op, t) ELSE {})
       [] OTHER -> IF op.arg > 0 THEN Emit(a, Channel(a, op, t)) ELSE a

\* The pairs of a gate are made of the targets that are qubits; what controls a feedback is not one.
QubitPairs(pairs) ==
  LET qubits == FoldLeft(LAMBDA qs, t : qs \o (IF Controlled(t) THEN <<t[2]>> ELSE t), <<>>, pairs)
  IN [i \in 1 .. Len(qubits) \div 2 |-> <<qubits[2 * i - 1], qubits[2 * i]>>]

\* Gates, pair measurements and noise are undone in the order in which they are written.
LastFirst == Measurements \cup MeasureResets \cup Heralded \cup {"MPP", "SPP", "SPP_DAG", "MPAD"}

LooksBack(a, op, target) ==
  [a EXCEPT !.measurement =
     [m \in DOMAIN @ |-> Toggle(@[m], target,
                                Odd({i \in DOMAIN op.on : a.measured + 1 - op.on[i] = m}))]]

UndoOp(a, op) ==
  CASE op.name = "DETECTOR" ->
         LooksBack([a EXCEPT !.detector = @ - 1], op, <<"D", a.detector>>)
    [] op.name = "OBSERVABLE_INCLUDE" -> LooksBack(a, op, <<"L", op.arg>>)
    [] op.name = "TICK" -> a
    [] op.name = "E" -> IF op.arg > 0 THEN Emit(a, {Correlated(a, op)}) ELSE a
    [] op.name = "PAULI_CHANNEL_2" /\ op.arg > 0 -> [a EXCEPT !.outcome = "unsupported"]
    [] OTHER -> FoldLeft(LAMBDA b, t : IF b.outcome = "analyzing" THEN UndoTarget(b, op, t) ELSE b,
                         a, CASE op.name \in LastFirst -> Reverse(op.on)
                              [] op.name \in TwoQubitGates -> QubitPairs(op.on)
                              [] OTHER -> op.on)

\* An error and its else branches are undone as one block; only one branch is supported.
UndoBlock(a, block) ==
  IF Len(block) > 2 THEN [a EXCEPT !.outcome = "unsupported"]
  ELSE Emit(a, {Correlated(a, block[i]) : i \in {j \in DOMAIN block : block[j].arg > 0}})

\* A circuit starts in |0>: a Z there must flip nothing, and no measurement may be left over.
EnsureNoPendingGauge(a) ==
  IF a.outcome # "analyzing" THEN a
  ELSE IF (\A q \in Qubits : a.z[q] = {}) /\ (\A m \in DOMAIN a.measurement : a.measurement[m] = {})
       THEN [a EXCEPT !.outcome = "accepted"]
       ELSE [a EXCEPT !.outcome = "gauge"]

=============================================================================
