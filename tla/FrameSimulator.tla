--------------------------- MODULE FrameSimulator --------------------------
(***************************************************************************)
(* The frame simulator of src/rstim/src/sim/frame.rs, one shot of a batch: *)
(* its Pauli frame, the flips of the measurements recorded so far, its     *)
(* detectors and observables, and whether the last correlated error        *)
(* occurred. FrameOp is the set of states an instruction may lead to, one  *)
(* for each outcome of the noise and of the frame's random bits. What a    *)
(* shot measures is its flips against the reference sample.                *)
(***************************************************************************)
EXTENDS PauliFrame, SequencesExt

\* A batch starts in frames with random z: |0> does not feel a Z.
NewFrames ==
  {[frame |-> [x |-> {}, z |-> zs], flips |-> <<>>, detectors |-> <<>>, observables |-> <<>>,
    corr |-> FALSE] : zs \in SUBSET Qubits}

\* The frames of a qubit whose x, or z, or both have been drawn at random.
Randomized(f, q, axes) ==
  {[x |-> IF xs THEN f.x \cup {q} ELSE IF "X" \in axes THEN f.x \ {q} ELSE f.x,
    z |-> IF zs THEN f.z \cup {q} ELSE IF "Z" \in axes THEN f.z \ {q} ELSE f.z]
     : xs \in IF "X" \in axes THEN BOOLEAN ELSE {FALSE},
       zs \in IF "Z" \in axes THEN BOOLEAN ELSE {FALSE}}

\* A measurement in the basis Z is flipped by x, in X by z, in Y by either alone.
Flips(f, q, basis) ==
  CASE basis = "Z" -> q \in f.x
    [] basis = "X" -> q \in f.z
    [] basis = "Y" -> (q \in f.x) # (q \in f.z)

\* Mutant: the Pauli that the state does not feel is dropped, not drawn.
CollapsedQuietly(f, q, basis) ==
  {[x |-> IF basis = "X" THEN f.x ELSE f.x \ {q}, z |-> IF basis = "Z" THEN f.z ELSE f.z \ {q}]}

\* After a measurement or a reset the frame loses its flip, and the Pauli that the state does not
\* feel becomes random. For Y both tables are drawn.
Collapsed(f, q, basis) ==
  CASE basis = "Z" -> Randomized([f EXCEPT !.x = @ \ {q}], q, {"Z"})
    [] basis = "X" -> Randomized([f EXCEPT !.z = @ \ {q}], q, {"X"})
    [] basis = "Y" -> Randomized(f, q, {"X", "Z"})

FoldTerm(f, term) ==
  CASE term[2] = "X" -> do_h(f, term[1])
    [] term[2] = "Y" -> do_sqrt_x(f, term[1])
    [] term[2] = "Z" -> f
FoldFrame(f, product) ==
  FoldLeft(LAMBDA g, term : do_cx(g, term[1], Last(product)[1]),
           FoldLeft(FoldTerm, f, product), Front(product))
UnfoldFrame(f, product) ==
  FoldLeft(FoldTerm,
           FoldLeft(LAMBDA g, term : do_cx(g, term[1], Last(product)[1]), f,
                    Reverse(Front(product))),
           product)

AddPauli(f, q, pauli) ==
  [x |-> Toggle(f.x, q, pauli \in {"X", "Y"}), z |-> Toggle(f.z, q, pauli \in {"Z", "Y"})]

RecordFlip(sim, frames, flipped, op) ==
  {[sim EXCEPT !.frame = f, !.flips = Append(@, flipped # noise)]
     : f \in frames, noise \in Bits(op)}

\* An error that occurs multiplies the frame by a Pauli; a heralded one records that it does.
FrameNoise(sim, op, t) ==
  LET errors == IF op.arg > 0 THEN Paulis(op.name) ELSE {"I"}
  IN IF op.name \in OneQubitNoise
     THEN {[sim EXCEPT !.frame = AddPauli(@, t, pauli)] : pauli \in errors}
     ELSE {[sim EXCEPT !.frame = AddPauli(AddPauli(@, t[1], a), t[2], b)] : a, b \in errors}
FrameHeralded(sim, op, t) ==
  UNION {{[sim EXCEPT !.flips = Append(@, herald), !.frame = AddPauli(@, t, pauli)]
            : pauli \in IF herald THEN Paulis(op.name) ELSE {"I"}} : herald \in Bits(op)}

\* Instructions that take their target groups one by one.
FrameTarget(sim, op, t) ==
  LET f == sim.frame
  IN CASE op.name \in OneQubitGates -> {[sim EXCEPT !.frame = FrameGate1(op.name, f, t)]}
       [] op.name \in TwoQubitGates -> {[sim EXCEPT !.frame = FrameGate2(op.name, f, t[1], t[2])]}
       [] op.name \in Measurements \cup MeasureResets ->
            RecordFlip(sim, Collapsed(f, t, Basis(op.name)), Flips(f, t, Basis(op.name)), op)
       [] op.name \in Resets -> {[sim EXCEPT !.frame = g] : g \in Collapsed(f, t, Basis(op.name))}
       [] op.name \in PairMeasurements \cup {"MPP"} ->
            LET product == IF op.name = "MPP" THEN t ELSE PairProduct(op.name, t)
                folded == FoldFrame(f, product)
                anchor == Last(product)[1]
            IN RecordFlip(sim, {UnfoldFrame(g, product) : g \in Collapsed(folded, anchor, "Z")},
                          Flips(folded, anchor, "Z"), op)
       [] op.name \in {"SPP", "SPP_DAG"} ->
            {[sim EXCEPT !.frame = UnfoldFrame(do_s(FoldFrame(f, t), Last(t)[1]), t)]}
       [] op.name = "MPAD" -> {[sim EXCEPT !.flips = Append(@, FALSE)]}
       [] op.name \in OneQubitNoise \cup TwoQubitNoise -> FrameNoise(sim, op, t)
       [] op.name \in Heralded -> FrameHeralded(sim, op, t)

FrameCorrelated(sim, op) ==
  {LET noise == candidate /\ (op.name = "E" \/ ~sim.corr)
   IN [sim EXCEPT !.frame = IF noise
                            THEN FoldLeft(LAMBDA f, term : AddPauli(f, term[1], term[2]), @, op.on)
                            ELSE @,
                  !.corr = IF op.name = "E" THEN noise ELSE @ \/ noise] : candidate \in Bits(op)}

\* A detector is the parity of the flips, inverted by the parity of the reference.
FrameParity(sim, op, reference) ==
  Parity(sim.flips, op) # Parity(SubSeq(reference, 1, Len(sim.flips)), op)

FrameOp(sim, op, reference) ==
  CASE op.name \in CorrelatedNoise -> FrameCorrelated(sim, op)
    [] op.name = "DETECTOR" ->
         {[sim EXCEPT !.detectors = Append(@, FrameParity(sim, op, reference))]}
    [] op.name = "OBSERVABLE_INCLUDE" ->
         {[sim EXCEPT !.observables = Append(@, <<op.arg, FrameParity(sim, op, reference)>>)]}
    [] op.name = "TICK" -> {sim}
    [] OTHER -> FoldLeft(LAMBDA sims, t : UNION {FrameTarget(a, op, t) : a \in sims}, {sim}, op.on)

\* What a shot measures.
FrameRecord(sim, reference) ==
  [i \in DOMAIN sim.flips |-> sim.flips[i] # reference[i]]

=============================================================================
