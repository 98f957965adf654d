--------------------------- MODULE CircuitEffects ---------------------------
(***************************************************************************)
(* What the proofs about StabilizerCircuits are made with: the effect of a *)
(* state of the frame simulator as a backward analysis has it, that undoing *)
(* an instruction is dual to running it, and what is so of the tableaux    *)
(* and of the analysis at every point of a run (Invariance,                *)
(* AnalysisInvariance).                                                    *)
(***************************************************************************)
EXTENDS StabilizerCircuits

(***************************************************************************)
(* Folds, over sets and from the left over the places of a sequence.       *)
(***************************************************************************)

\* f is a fold over the subsets of D: of the empty set it is base, of another set a step from what
\* it is of the set without the element picked from it.
Folds(f, D, V, base, pick, step) ==
  /\ f \in [SUBSET D -> V]
  /\ \A s \in SUBSET D : f[s] = IF s = {} THEN base ELSE step[pick[s]][f[s \ {pick[s]}]]

\* The places of a sequence, and the last of a set of them.
LastOf(n) == [A \in SUBSET (1 .. n) |-> Max(A)]

\* A function g of the sets of the first n places begins as f does, and goes on as f does.
GoesOnAs(f, g, n) ==
  \A A \in SUBSET (1 .. n) :
    A = {} \/ g[A \ {Max(A)}] = f[A \ {Max(A)}] => g[A] = f[A]

\* The values of a recursion over the first n places of a sequence.
Trace(v, n, base, step) ==
  /\ v[0] = base
  /\ \A i \in 1 .. n : v[i] = step[i][v[i - 1]]

\* f is a fold from the left over n places, its values after the places A among V[A]; v are its
\* values after the first 0, 1, ..., n places; and nothing else goes on as it does.
FoldTrace(f, v, n, V, base, step) ==
  /\ f = [A \in SUBSET (1 .. n) |-> f[A]]
  /\ \A A \in SUBSET (1 .. n) : f[A] \in V[A]
  /\ f[{}] = base
  /\ \A A \in SUBSET (1 .. n) :
       A # {} => Max(A) \in A /\ f[A] = step[Max(A)][f[A \ {Max(A)}]]
  /\ Trace(v, n, base, step)
  /\ \A i \in 0 .. n : v[i] \in V[1 .. i]
  /\ \A g : GoesOnAs(f, g, n) => g[1 .. n] = v[n]

\* Values among V that begin with base and end with end.
Follows(v, n, base, step, V, end) ==
  Trace(v, n, base, step) /\ v[n] = end /\ \A i \in 0 .. n : v[i] \in V

\* The same, the steps taken from the last place to the first.
Backwards(w, n, base, step, V, end) ==
  /\ w[n] = base /\ w[0] = end
  /\ \A i \in 1 .. n : w[i - 1] = step[i][w[i]]
  /\ \A i \in 0 .. n : w[i] \in V

\* Steps that stay within V, and steps that commute there.
Stays(step, n, V) == \A i \in 1 .. n : \A y \in V : step[i][y] \in V
Commutes(step, n, V) ==
  \A i, j \in 1 .. n : \A y \in V : step[i][step[j][y]] = step[j][step[i][y]]

\* The states that n moves may lead to from s.
Walk(v, n, move, s) ==
  /\ v[0] = {s}
  /\ \A k \in 1 .. n : v[k] = UNION {move[k][t] : t \in v[k - 1]}

(***************************************************************************)
(* Rows, tableaux and shots.                                               *)
(***************************************************************************)

\* The qubits on which two rows anticommute.
Clash(r, s) == SymDiff(r.x \cap s.z, r.z \cap s.x)

\* What is done to two rows leaves them rows, keeps whether their signs are imaginary, and whether
\* they anticommute.
Kept(r, s, r2, s2) ==
  /\ r2 \in Row /\ r2.phase % 2 = r.phase % 2
  /\ s2 \in Row /\ s2.phase % 2 = s.phase % 2
  /\ Anticommute(r2, s2) <=> Anticommute(r, s)

\* What a CX does but for the sign.
Crossed(r, c, t) == [r EXCEPT !.x = Toggle(@, t, c \in r.x), !.z = Toggle(@, c, t \in r.z)]

\* Changes of basis, one term after another.
TermSteps(terms) == [i \in 1 .. Len(terms) |-> [t \in Row |-> TermBasis(t, terms[i])]]

\* CX from one term after another onto an anchor.
Crossings(r, terms, anchor) ==
  FoldLeft(LAMBDA row, term : CX(row, term[1], anchor), r, terms)

CrossingSteps(terms, anchor) ==
  [i \in 1 .. Len(terms) |-> [t \in Row |-> CX(t, terms[i][1], anchor)]]

\* None of the terms is on the anchor.
Aside(terms, anchor) == \A i \in 1 .. Len(terms) : terms[i][1] # anchor

\* The tableaux, what a measurement may give, and the results its caller may draw.
Tableaux == {tab \in [Rows -> Row] : IsTableau(tab)}
Outcomes == (SUBSET (BOOLEAN \X Tableaux)) \ {{}}
Coins == (SUBSET BOOLEAN) \ {{}}

\* The shots, with tableaux in them and bits in their records, and the sets of what a shot may become.
Shots ==
  [tab : Tableaux, record : Seq(BOOLEAN), detectors : Seq(BOOLEAN),
   observables : Seq(Nat \X BOOLEAN), corr : BOOLEAN, clean : BOOLEAN]
ShotSets == (SUBSET Shots) \ {{}}

\* The names of instructions whose targets are taken one by one.
Stepwise == InstructionNames \ (CorrelatedNoise \cup Annotations)

\* Targets, one after another.
AllTargets(from, op, i, coin) == UNION {ExecuteTarget(a, op, i, coin) : a \in from}
TargetSteps(op, coin) ==
  [i \in 1 .. Len(op.on) |-> [from \in ShotSets |-> AllTargets(from, op, i, coin)]]

\* The Paulis of a correlated error, one after another.
PauliSteps(terms) ==
  [i \in 1 .. Len(terms) |-> [tab \in Tableaux |-> ApplyPauli(tab, terms[i][1], terms[i][2])]]

\* The reference and the shots are shots as long as there are instructions to execute.
Invariance ==
  /\ ValidCircuit(circuit)
  /\ stage \in {"reference", "shots"} => pc \in 0 .. Len(circuit) - 1
  /\ reference \in Shots
  /\ shots \in ShotSets

(***************************************************************************)
(* What an analysis says of a frame: which targets the frame flips if it is*)
(* carried through what the analysis has undone.                           *)
(***************************************************************************)

\* Detectors and observables.
Targets == {"D", "L"} \X Nat

\* The states of an analysis.
Analyses ==
  [x : [Qubits -> SUBSET Targets], z : [Qubits -> SUBSET Targets],
   measurement : Seq(SUBSET Targets), measured : Nat, detector : Nat,
   errors : SUBSET SUBSET Targets,
   outcome : {"analyzing", "accepted", "gauge", "unsupported"}]

\* Whether what a frame has on a qubit, or on two, flips a target.
Feels(a, f, q, d) == ~((q \in f.x /\ d \in a.x[q]) <=> (q \in f.z /\ d \in a.z[q]))
FeelsPair(a, f, p, q, d) == ~(Feels(a, f, p, d) <=> Feels(a, f, q, d))

\* Analysis a of frame f and analysis b of frame g say the same, p and q taken together.
Agree(a, f, b, g, p, q) ==
  \A d \in Targets : /\ FeelsPair(a, f, p, q, d) <=> FeelsPair(b, g, p, q, d)
                     /\ \A r \in Qubits \ {p, q} : Feels(a, f, r, d) <=> Feels(b, g, r, d)

\* The Pauli string of a row, without its sign.
PauliOf(r) == [x |-> r.x, z |-> r.z]

\* The analyses that differ from a in what is sensed on the qubits Q.
ChangedOn(a, Q) ==
  {b \in Analyses :
     /\ b.measurement = a.measurement /\ b.measured = a.measured
     /\ b.detector = a.detector /\ b.outcome = a.outcome
     /\ \A q \in Qubits \ Q : b.x[q] = a.x[q] /\ b.z[q] = a.z[q]}

\* The folds that fold a product and unfold it are made of.
FoldTerms(f, terms) == FoldLeft(FoldTerm, f, terms)
FoldCrossings(f, terms, anchor) == FoldLeft(LAMBDA g, term : do_cx(g, term[1], anchor), f, terms)
UndoTerms(a, terms) == FoldLeft(UndoTerm, a, terms)
UndoCrossings(a, terms, anchor) ==
  FoldLeft(LAMBDA b, term : undo_cx(b, term[1], anchor), a, terms)

FoldTermSteps(terms) == [i \in 1 .. Len(terms) |-> [f \in Frames |-> FoldTerm(f, terms[i])]]
FoldCrossingSteps(terms, anchor) ==
  [i \in 1 .. Len(terms) |-> [f \in Frames |-> do_cx(f, terms[i][1], anchor)]]
UndoTermSteps(terms, U) == [i \in 1 .. Len(terms) |-> [b \in U |-> UndoTerm(b, terms[i])]]
UndoCrossingSteps(terms, anchor, U) ==
  [i \in 1 .. Len(terms) |-> [b \in U |-> undo_cx(b, terms[i][1], anchor)]]

\* Whether a frame, all of it, flips a target.
Touches(a, f, d) == Odd({q \in Qubits : Feels(a, f, q, d)})

\* Analysis b of frame f says what analysis a of frame g says.
Mirrors(b, f, a, g) == \A d \in Targets : Touches(b, f, d) <=> Touches(a, g, d)

\* Two analyses are the same if they are so in every part.
SameBut(a, b) ==
  /\ a.measurement = b.measurement /\ a.measured = b.measured /\ a.detector = b.detector
  /\ a.errors = b.errors /\ a.outcome = b.outcome
SameAt(a, b, r) == a.x[r] = b.x[r] /\ a.z[r] = b.z[r]

\* The qubits of a product, and the one that it is folded onto.
QubitsIn(product) == {term[1] : term \in Range(product)}
Anchor(product) == Last(product)[1]

(***************************************************************************)
(* What an analysis says of a state of the frame simulator, whose results  *)
(* and detectors so far flip targets as well.                              *)
(***************************************************************************)

\* The states of the frame simulator.
Sims ==
  [frame : Frames, flips : Seq(BOOLEAN), detectors : Seq(BOOLEAN),
   observables : Seq(Nat \X BOOLEAN), corr : BOOLEAN]

\* Whether the flips recorded flip a target that looks back at them.
Recalls(a, flips, d) == Odd({m \in DOMAIN flips : flips[m] /\ d \in a.measurement[m]})

\* What fires in the end, as analysis a has it: the targets flipped by the frame, those flipped by
\* what was recorded, and those that have fired, which cancel.
Effect(a, s) ==
  {d \in Targets : ~(Touches(a, s.frame, d) <=> ~(Recalls(a, s.flips, d) <=> d \in Fired(s)))}

\* An analysis that goes on, and the simulator's states where it is.
Live == {a \in Analyses : a.outcome = "analyzing" /\ a.measured <= Len(a.measurement)}
SimsAt(a) == {s \in Sims : Len(s.flips) = a.measured /\ Len(s.detectors) = a.detector}

\* States that follow s with another frame, and with another frame and one more result.
Framed(s, g) == [s EXCEPT !.frame = g]
Recording(s, g, e) == [s EXCEPT !.frame = g, !.flips = Append(@, e)]

\* An analysis before one more measurement was undone: what that takes away.
LessOne(a, b) ==
  /\ b.measured = a.measured - 1 /\ b.detector = a.detector
  /\ Len(b.measurement) = Len(a.measurement)
  /\ \A m \in 1 .. a.measured - 1 : b.measurement[m] = a.measurement[m]

\* Analysis b of frame f says what analysis a says of frame g and of a result e, but for x.
Records(b, f, a, g, e, x) ==
  \A d \in Targets :
    Touches(b, f, d) <=>
      ~(Touches(a, g, d) <=> ~((e /\ d \in a.measurement[a.measured]) <=> d \in x))

\* Nothing on the qubit flips a target.
Idle(a, q) == a.x[q] = {} /\ a.z[q] = {}

\* An analysis with one measurement less, left as it is or looked back at by nothing.
OneLess(a) == [a EXCEPT !.measured = @ - 1]
Padless(a) == [a EXCEPT !.measurement[a.measured] = {}, !.measured = @ - 1]

\* An analysis with other errors.
Alike(a, b) ==
  /\ a.measurement = b.measurement /\ a.measured = b.measured /\ a.detector = b.detector
  /\ a.outcome = b.outcome
  /\ \A r \in Qubits : SameAt(a, b, r)

(***************************************************************************)
(* Groups of targets: what undoes one and what runs it, and that the two are*)
(* dual. A group adds to the effect of a state a set that does not depend on*)
(* the state.                                                              *)
(***************************************************************************)

\* What undoes a group, kind by kind.
UndoingOf(a, op, t, b) ==
  LET basis == Basis(op.name)
  IN /\ op.name \in OneQubitGates => b = UndoGate1(op.name, a, t)
     /\ op.name \in TwoQubitGates => b = UndoGate2(op.name, a, t[1], t[2])
     /\ op.name \in Measurements =>
          b = UndoMeasure(EmitReadout(Ensured(a, t, basis), op), t, basis)
     /\ op.name \in MeasureResets =>
          b = UndoMeasure(Cleared(EmitReadout(Ensured(a, t, basis), op), t), t, basis)
     /\ op.name \in Resets => b = Cleared(Ensured(a, t, basis), t)
     /\ op.name \in PairMeasurements => b = UndoProductMeasurement(a, PairProduct(op.name, t))
     /\ op.name = "MPP" => b = UndoProductMeasurement(a, t)
     /\ op.name \in {"SPP", "SPP_DAG"} =>
          b = UndoFold(undo_s(UndoUnfold(a, t), Anchor(t)), t)
     /\ op.name = "MPAD" => b = Padless(a)
     /\ op.name \in Heralded =>
          b = Emit(OneLess(a), IF op.arg > 0 THEN Channel(a, op, t) ELSE {})
     /\ op.name \in OneQubitNoise \cup TwoQubitNoise =>
          b = IF op.arg > 0 THEN Emit(a, Channel(a, op, t)) ELSE a

\* States that may follow s when a product is measured.
ProductLeads(s, product) ==
  {Recording(s, UnfoldFrame(g, product), Flips(FoldFrame(s.frame, product), Anchor(product), "Z"))
     : g \in Collapsed(FoldFrame(s.frame, product), Anchor(product), "Z")}

\* Where a group leads to in an instruction of this name without noise.
Leads(s, name, t, after) ==
  LET f == s.frame
      basis == Basis(name)
  IN /\ name \in OneQubitGates => after = {Framed(s, FrameGate1(name, f, t))}
     /\ name \in TwoQubitGates => after = {Framed(s, FrameGate2(name, f, t[1], t[2]))}
     /\ name \in Measurements \cup MeasureResets =>
          after = {Recording(s, g, Flips(f, t, basis)) : g \in Collapsed(f, t, basis)}
     /\ name \in Resets => after = {Framed(s, g) : g \in Collapsed(f, t, basis)}
     /\ name \in PairMeasurements => after = ProductLeads(s, PairProduct(name, t))
     /\ name = "MPP" => after = ProductLeads(s, t)
     /\ name \in {"SPP", "SPP_DAG"} =>
          after = {Framed(s, UnfoldFrame(do_s(FoldFrame(f, t), Last(t)[1]), t))}
     /\ name = "MPAD" => after = {[s EXCEPT !.flips = Append(@, FALSE)]}
     /\ name \in OneQubitNoise => after = {Framed(s, AddPauli(f, t, "I"))}
     /\ name \in TwoQubitNoise => after = {Framed(s, AddPauli(AddPauli(f, t[1], "I"), t[2], "I"))}
     /\ name \in Heralded => after = {Recording(s, AddPauli(f, t, "I"), FALSE)}

\* What is seen of some states is the sums of what was seen before and the sets added.
Adds(seen, states, before, added) ==
  /\ \A s \in states : \E x \in added : seen[s] = SymDiff(before, x)
  /\ \A x \in added : \E s \in states : seen[s] = SymDiff(before, x)

\* States that may follow s, all of which have the effect that s has.
Carried(b, s, a, next) ==
  (\E u \in next : TRUE) /\ \A u \in next : u \in SimsAt(a) /\ Effect(a, u) = Effect(b, s)

\* The effect of a state.
Senses(a) == [s \in SimsAt(a) |-> Effect(a, s)]

\* A group without noise adds to the effects of all states the same sets; if it measures no
\* product it adds nothing.
Dual(op, t, b, a) ==
  \E added :
    /\ op.name \notin PairMeasurements \cup {"MPP"} => added = {{}}
    /\ \A s \in SimsAt(b) :
         /\ FrameTarget(s, Quiet(op), t) \subseteq SimsAt(a)
         /\ Adds(Senses(a), FrameTarget(s, Quiet(op), t), Senses(b)[s], added)

\* What a group adds.
DualBy(op, t, b, a, added) ==
  /\ op.name \notin PairMeasurements \cup {"MPP"} => added = {{}}
  /\ \A s \in SimsAt(b) :
       /\ FrameTarget(s, Quiet(op), t) \subseteq SimsAt(a)
       /\ Adds(Senses(a), FrameTarget(s, Quiet(op), t), Senses(b)[s], added)

\* The instructions that record a result for each of their groups.
Recorders == Measurements \cup MeasureResets \cup PairMeasurements \cup Heralded \cup {"MPP", "MPAD"}

\* Analysis b comes from a by undoing a group, and its dual is what the group does to a frame.
Undoes(op, t, a, b) ==
  /\ b \in Live
  /\ b.measured = IF op.name \in Recorders THEN a.measured - 1 ELSE a.measured
  /\ b.detector = a.detector /\ Len(b.measurement) = Len(a.measurement)
  /\ \A r \in Qubits \ QubitsUsed(op, t) : SameAt(b, a, r)
  /\ op.name \in {"R", "RX"} => Idle(b, t)
  /\ (\A q \in QubitsLost(op, t) : Idle(a, q)) => Dual(op, t, b, a)

\* The product that a group measures.
ProductOf(op, t) == IF op.name = "MPP" THEN t ELSE PairProduct(op.name, t)

(***************************************************************************)
(* Instructions, group by group.                                           *)
(***************************************************************************)

\* The groups of an instruction undone in some order, as long as the analysis goes on.
Step(b, op, t) == IF b.outcome = "analyzing" THEN UndoTarget(b, op, t) ELSE b
InOrder(a, op, order) ==
  FoldLeft(LAMBDA b, t : IF b.outcome = "analyzing" THEN UndoTarget(b, op, t) ELSE b, a, order)

\* The measurements left before k groups.
Left(a, op, k) == IF op.name \in Recorders THEN a.measured - k ELSE a.measured

\* A group taken from an analysis that goes on leaves one that has lost the group's measurement, if
\* it goes on.
Shrinks(op, t) ==
  \A b \in Live :
    Left(b, op, 1) >= 0 /\ UndoTarget(b, op, t).outcome = "analyzing" =>
      UndoTarget(b, op, t) \in Live /\ UndoTarget(b, op, t).measured = Left(b, op, 1)

\* The analyses on the way through a sequence of groups, none of which ends the analysis.
Course(v, a, op, order) ==
  /\ v[0] = a /\ \A i \in 0 .. Len(order) : v[i] \in Live /\ v[i].measured = Left(a, op, i)
  /\ \A i \in 1 .. Len(order) :
       v[i] = UndoTarget(v[i - 1], op, order[i]) /\ v[i].outcome = "analyzing"

\* An instruction's groups taken away, the last of them first, lead from analysis a back to b.
Chain(c, op, a, b) ==
  /\ c[Len(op.on)] = a /\ c[0] = b
  /\ \A i \in 0 .. Len(op.on) : c[i] \in Live
  /\ \A i \in 1 .. Len(op.on) : Undoes(op, op.on[i], c[i], c[i - 1])

\* Analyses from which some qubits have been cleared that nothing is wrong with.
Clearings(a, basis) ==
  {y \in Live : \A q \in Qubits : SameAt(y, a, q) \/ (Idle(y, q) /\ Sensitivity(a, q, basis) = {})}

\* What the analyzer undoes in reverse.
Reversible(op) ==
  /\ ~HasFeedback(op)
  /\ op.name \notin {"CXSWAP", "SWAPCX"}
  /\ op.name \in TwoQubitGates \cup PairMeasurements => Len(op.on) = 1
  /\ op.name \in PairMeasurements \cup {"MPP"} => op.arg = 0

\* The groups in the order in which they are undone.
Order(op) ==
  CASE op.name \in LastFirst -> Reverse(op.on)
    [] op.name \in TwoQubitGates -> QubitPairs(op.on)
    [] OTHER -> op.on

\* What a group makes of any of some states, and of one.
AllGoOn(sims, op, t) == UNION {FrameTarget(s, Quiet(op), t) : s \in sims}
Moves(op) == [k \in 1 .. Len(op.on) |-> [s \in Sims |-> FrameTarget(s, Quiet(op), op.on[k])]]

\* No result of the reference sample.
Zeros(a) == [m \in DOMAIN a.measurement |-> FALSE]

\* An instruction adds the same sets to the effects of all states, or nothing.
OpDual(op, b, a) ==
  \E added :
    /\ op.name \notin PairMeasurements \cup {"MPP"} => added = {{}}
    /\ \A s \in SimsAt(b) :
         /\ FrameOp(s, Quiet(op), Zeros(a)) \subseteq SimsAt(a)
         /\ Adds(Senses(a), FrameOp(s, Quiet(op), Zeros(a)), Senses(b)[s], added)

\* What ResetAfterMeasurement keeps of a circuit, and how a group and an instruction change it.
Losses == [lost : SUBSET Qubits, kept : BOOLEAN]
LossStep(acc, op, t) ==
  IF op.name \in {"R", "RX"} THEN [acc EXCEPT !.lost = @ \ {t}]
  ELSE [lost |-> acc.lost \cup QubitsLost(op, t),
        kept |-> acc.kept /\ QubitsUsed(op, t) \cap acc.lost = {}]
LossOp(acc, op) == FoldLeft(LAMBDA b, t : LossStep(b, op, t), acc, op.on)

\* The losses on the way through an instruction.
LossTrace(u, acc, op) ==
  /\ u[0] = acc /\ u[Len(op.on)] = LossOp(acc, op)
  /\ \A i \in 0 .. Len(op.on) : u[i] \in Losses
  /\ \A i \in 1 .. Len(op.on) : u[i] = LossStep(u[i - 1], op, op.on[i])

\* Nothing flips anything on the qubits that are lost.
Spared(acc, a) == acc.kept /\ \A q \in acc.lost : Idle(a, q)

\* If that is so after an instruction it is so before it, and the instruction adds to the effects of
\* all states the same.
Link(op, b, a) ==
  \A acc \in Losses : Spared(LossOp(acc, op), a) => Spared(acc, b) /\ OpDual(op, b, a)

\* The places among the first k that p puts in a set, and the elements that an odd number of them
\* are put at.
PutIn(Q, p, k) == {i \in 1 .. k : p[i] \in Q}
PutOddly(Q, p, k) == {m \in Q : Odd({i \in 1 .. k : p[i] = m})}

\* The places at which an observable is recorded as 1.
Observed(os, k) == {j \in 1 .. Len(os) : os[j] = <<k, TRUE>>}

\* Analysis b before a target T was made to look back at some of the results of analysis a.
Looked(a, op, T, b) ==
  /\ b \in Live
  /\ b.measured = a.measured /\ Len(b.measurement) = Len(a.measurement)
  /\ \A q \in Qubits : SameAt(b, a, q)
  /\ \A m \in 1 .. Len(a.measurement) : \A d \in Targets :
       d \in b.measurement[m] <=>
         ~(d \in a.measurement[m] <=>
             (d = T /\ Odd({i \in 1 .. Len(op.on) : a.measured + 1 - op.on[i] = m})))

\* The results that are looked back at are there.
WithinReach(op, n) == \A i \in 1 .. Len(op.on) : op.on[i] \in 1 .. n

\* Analysis b comes from a by undoing an instruction.
Undid(op, a, b) ==
  /\ b \in Live
  /\ b.measured = a.measured - MeasurementsOf(op)
  /\ Len(b.measurement) = Len(a.measurement)
  /\ b.detector = IF op.name = "DETECTOR" THEN a.detector - 1 ELSE a.detector
  /\ Link(op, b, a)

\* What an instruction records and looks back at is there.
Supplied(op, a) ==
  /\ a.measured >= MeasurementsOf(op)
  /\ op.name = "DETECTOR" => a.detector > 0
  /\ op.name \in {"DETECTOR", "OBSERVABLE_INCLUDE"} => WithinReach(op, a.measured)

(***************************************************************************)
(* Circuits, instruction by instruction.                                   *)
(***************************************************************************)

\* The measurements of the first 0, 1, ..., n instructions.
Tally(v, n, ops) ==
  /\ v[0] = 0
  /\ \A i \in 1 .. n : v[i] = v[i - 1] + MeasurementsOf(ops[i])
  /\ \A i \in 0 .. n : v[i] \in Nat

\* How many measurements there are in each beginning of a circuit.
Counts(v, ops) ==
  /\ Tally(v, Len(ops), ops)
  /\ CountMeasurements(ops) = v[Len(ops)]
  /\ \A i \in 0 .. Len(ops) : CountMeasurements(SubSeq(ops, 1, i)) = v[i]

\* How many detectors there are in a beginning.
Detectors(ops, k) == {i \in 1 .. k : ops[i].name = "DETECTOR"}

\* What the analysis of a circuit is left with before what follows the first k instructions.
Fits(a, ops, k) ==
  /\ a \in Live
  /\ a.measured = CountMeasurements(SubSeq(ops, 1, k))
  /\ Len(a.measurement) = CountMeasurements(ops)
  /\ a.detector = Cardinality(Detectors(ops, k))

\* The analyses of a circuit from its end back to the one before instruction p + 1, which is b.
History(c, ops, p, b) ==
  /\ c[Len(ops)] = NewAnalysis(ops) /\ c[p] = b
  /\ \A k \in p .. Len(ops) : Fits(c[k], ops, k)
  /\ \A k \in p + 1 .. Len(ops) : Link(ops[k], c[k - 1], c[k])

\* The analysis that has come to place p of a circuit is the last of a history, as long as it could
\* go on and everything that it has undone was undone in reverse.
Analyzed(ops, p, a) ==
  /\ a.outcome = "analyzing"
  /\ UndoneInReverse(SubSeq(ops, p + 1, Len(ops))) => \E c : History(c, ops, p, a)

\* What is so of the analysis at every point of a run.
AnalysisInvariance ==
  /\ ValidCircuit(circuit)
  /\ stage \in {"reference", "shots", "frames"} => analysis = NewAnalysis(circuit)
  /\ stage = "analysis" => pc \in 1 .. Len(circuit) /\ Analyzed(circuit, pc, analysis)

\* The qubits lost on the way through a circuit that resets them before it uses them.
LossCourse(l, ops) ==
  /\ l[0].lost = {}
  /\ \A i \in 0 .. Len(ops) : l[i] \in Losses
  /\ \A i \in 1 .. Len(ops) : l[i] = LossOp(l[i - 1], ops[i])
  /\ l[Len(ops)].kept

\* What instructions without noise make of a state, and of any of some states.
Forward(ops, s, zeros) ==
  FoldLeft(LAMBDA sims, op : UNION {FrameOp(sim, Quiet(op), zeros) : sim \in sims}, {s}, ops)
AllThrough(sims, op, zeros) == UNION {FrameOp(sim, Quiet(op), zeros) : sim \in sims}
OpMoves(ops, zeros) == [k \in 1 .. Len(ops) |-> [s \in Sims |-> FrameOp(s, Quiet(ops[k]), zeros)]]

\* A state with a Pauli on one qubit, and nothing recorded but 0.
Faulty(a, q, pauli) ==
  [frame |-> AddPauli(NoFlips, q, pauli), flips |-> [m \in 1 .. a.measured |-> FALSE],
   detectors |-> [d \in 1 .. a.detector |-> FALSE], observables |-> <<>>, corr |-> FALSE]

\* What remains of a circuit adds the same sets to the effects of all states, or nothing.
RemainderAdds(ops, p, a, total) ==
  LET rest == SubSeq(ops, p + 1, Len(ops))
      end  == NewAnalysis(ops)
  IN /\ ~ProductsMeasured(rest) => total = {{}}
     /\ \A s \in SimsAt(a) :
          /\ Forward(rest, s, Zeros(a)) \subseteq SimsAt(end)
          /\ Adds(Senses(end), Forward(rest, s, Zeros(a)), Effect(a, s), total)

\* Where the analysis is of a circuit, what a Pauli there flips is what the analysis has for it,
\* beside what is random.
EffectsAgree(ops, p, a) ==
  LET rest == SubSeq(ops, p + 1, Len(ops))
  IN ResetAfterMeasurement(rest) /\ UndoneInReverse(rest) =>
       \A q \in Qubits :
         LET random == ForwardFlips(rest, q, "I", a)
         IN /\ \A pauli \in Bases :
                 ForwardFlips(rest, q, pauli, a) = {SymDiff(r, Sensitivity(a, q, pauli)) : r \in random}
            /\ ~ProductsMeasured(rest) => random = {{}}

=============================================================================
