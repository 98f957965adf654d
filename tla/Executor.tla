----------------------------- MODULE Executor ------------------------------
(***************************************************************************)
(* The tableau executor of src/rstim/src/executor.rs. A shot is the        *)
(* tableau, the measurements, detectors and observables recorded so far,   *)
(* and whether the last correlated error occurred. ExecuteOp is the set of *)
(* shots an instruction may lead to: one for each result of a random       *)
(* measurement and for each choice of the noise. "clean" is not in the     *)
(* code: it says that no noise has happened in the shot.                   *)
(***************************************************************************)
EXTENDS Tableau

NewShot ==
  [tab |-> NewTableau, record |-> <<>>, detectors |-> <<>>, observables |-> <<>>,
   corr |-> FALSE, clean |-> TRUE]

ApplyPauli(tab, q, pauli) == Conjugated(tab, LAMBDA r : Gate1(pauli, r, q))

(***************************************************************************)
(* Measurements. One in the basis X or Y is done in the basis Z, between a *)
(* change of basis and its inverse.                                        *)
(***************************************************************************)

Into(tab, q, basis) ==
  CASE basis = "Z" -> tab
    [] basis = "X" -> Conjugated(tab, LAMBDA r : H(r, q))
    [] basis = "Y" -> Conjugated(tab, LAMBDA r : H(S_DAG(r, q), q))
Back(tab, q, basis) ==
  CASE basis = "Z" -> tab
    [] basis = "X" -> Conjugated(tab, LAMBDA r : H(r, q))
    [] basis = "Y" -> Conjugated(tab, LAMBDA r : S(H(r, q), q))

MeasureQubit(tab, q, basis, coin) ==
  {<<m[1], Back(m[2], q, basis)>> : m \in MeasureZ(Into(tab, q, basis), q, coin)}

\* A reset measures and undoes the result 1 before it changes the basis back.
MeasureResetQubit(tab, q, basis, coin) ==
  {<<m[1], Back(IF m[1] THEN ApplyPauli(m[2], q, "X") ELSE m[2], q, basis)>>
     : m \in MeasureZ(Into(tab, q, basis), q, coin)}

\* A product is folded onto its last qubit, the anchor.
TermBasis(r, term) ==
  CASE term[2] = "X" -> H(r, term[1])
    [] term[2] = "Y" -> H_YZ(r, term[1])
    [] term[2] = "Z" -> r
Fold(r, product) ==
  FoldLeft(LAMBDA row, term : CX(row, term[1], Last(product)[1]),
           FoldLeft(TermBasis, r, product), Front(product))
Unfold(r, product) ==
  FoldLeft(TermBasis,
           FoldLeft(LAMBDA row, term : CX(row, term[1], Last(product)[1]), r,
                    Reverse(Front(product))),
           product)
MeasureProduct(tab, product, coin) ==
  {<<m[1], Conjugated(m[2], LAMBDA r : Unfold(r, product))>>
     : m \in MeasureZ(Conjugated(tab, LAMBDA r : Fold(r, product)), Last(product)[1], coin)}

\* exp(i pi/4 P): an S on the anchor of the folded product, or its inverse.
Spp(tab, product, dagger) ==
  Conjugated(tab, LAMBDA r :
    LET folded == Fold(r, product)
        anchor == Last(product)[1]
    IN Unfold(IF dagger THEN S_DAG(folded, anchor) ELSE S(folded, anchor), product))

(***************************************************************************)
(* What an instruction does to a shot.                                     *)
(***************************************************************************)

\* The shots in which the result of a measurement is recorded, or with readout noise its opposite.
Recorded(shot, measured, inverted, op) ==
  {[shot EXCEPT !.tab = m[2], !.record = Append(@, (m[1] # inverted) # flip), !.clean = @ /\ ~flip]
     : m \in measured, flip \in Bits(op)}

\* The shots in which one of the Paulis of a channel has happened to a qubit.
Disturbed(shot, q, paulis) ==
  {[shot EXCEPT !.tab = ApplyPauli(@, q, pauli), !.clean = @ /\ pauli = "I"] : pauli \in paulis}

\* Instructions that take their target groups one by one.
ExecuteTarget(shot, op, i, coin) ==
  LET t == op.on[i]
      inverted == i \in op.inv
  IN CASE op.name \in OneQubitGates ->
            {[shot EXCEPT !.tab = Conjugated(@, LAMBDA r : Gate1(op.name, r, t))]}
       [] op.name \in TwoQubitGates /\ ~Controlled(t) ->
            {[shot EXCEPT !.tab = Conjugated(@, LAMBDA r : Gate2(op.name, r, t[1], t[2]))]}
       [] op.name \in TwoQubitGates /\ Controlled(t) ->
            {IF shot.record[Len(shot.record) + 1 + t[1]]
             THEN [shot EXCEPT !.tab = ApplyPauli(@, t[2], ControlledPauli[op.name])]
             ELSE shot}
       [] op.name \in Measurements ->
            Recorded(shot, MeasureQubit(shot.tab, t, Basis(op.name), coin), inverted, op)
       [] op.name \in MeasureResets ->
            Recorded(shot, MeasureResetQubit(shot.tab, t, Basis(op.name), coin), inverted, op)
       [] op.name \in Resets ->
            {[shot EXCEPT !.tab = m[2]]
               : m \in MeasureResetQubit(shot.tab, t, Basis(op.name), coin)}
       [] op.name \in PairMeasurements ->
            Recorded(shot, MeasureProduct(shot.tab, PairProduct(op.name, t), coin), inverted, op)
       [] op.name = "MPP" -> Recorded(shot, MeasureProduct(shot.tab, t, coin), inverted, op)
       [] op.name = "SPP" -> {[shot EXCEPT !.tab = Spp(@, t, inverted)]}
       [] op.name = "SPP_DAG" -> {[shot EXCEPT !.tab = Spp(@, t, ~inverted)]}
       [] op.name = "MPAD" -> Recorded(shot, {<<t, shot.tab>>}, FALSE, op)
       [] op.name \in OneQubitNoise ->
            IF op.arg > 0 THEN Disturbed(shot, t, Paulis(op.name)) ELSE {shot}
       [] op.name \in TwoQubitNoise ->
            IF op.arg > 0
            THEN UNION {Disturbed(a, t[2], Paulis(op.name)) :
                          a \in Disturbed(shot, t[1], Paulis(op.name))}
            ELSE {shot}
       [] op.name \in Heralded ->
            {[shot EXCEPT !.record = Append(@, FALSE)]}
              \cup IF op.arg > 0
                   THEN {[a EXCEPT !.record = Append(@, TRUE), !.clean = FALSE]
                           : a \in Disturbed(shot, t, Paulis(op.name))}
                   ELSE {}

\* An error on several qubits at once; the else branches have a chance while none has occurred.
Occurs(shot, op) ==
  [shot EXCEPT !.tab = FoldLeft(LAMBDA tab, term : ApplyPauli(tab, term[1], term[2]), @, op.on),
               !.corr = TRUE, !.clean = FALSE]
ExecuteCorrelated(shot, op) ==
  CASE op.name = "E" ->
         {IF occurs THEN Occurs(shot, op) ELSE [shot EXCEPT !.corr = FALSE] : occurs \in Bits(op)}
    [] op.name # "E" /\ shot.corr -> {shot}
    [] op.name # "E" /\ ~shot.corr ->
         {IF occurs THEN Occurs(shot, op) ELSE shot : occurs \in Bits(op)}

ExecuteOp(shot, op, coin) ==
  CASE op.name \in CorrelatedNoise -> ExecuteCorrelated(shot, op)
    [] op.name = "DETECTOR" -> {[shot EXCEPT !.detectors = Append(@, Parity(shot.record, op))]}
    [] op.name = "OBSERVABLE_INCLUDE" ->
         {[shot EXCEPT !.observables = Append(@, <<op.arg, Parity(shot.record, op)>>)]}
    [] op.name = "TICK" -> {shot}
    [] OTHER ->
         FoldLeftDomain(LAMBDA shots, i : UNION {ExecuteTarget(a, op, i, coin) : a \in shots},
                        {shot}, op.on)

(***************************************************************************)
(* The reference sample: the record of a shot without noise in which every *)
(* random measurement and every random reset gives 0.                      *)
(***************************************************************************)

RefSampleOp(shot, op) ==
  IF op.name \in OneQubitNoise \cup TwoQubitNoise \cup CorrelatedNoise \cup Annotations
  THEN shot
  ELSE CHOOSE after \in ExecuteOp(shot, Quiet(op), {FALSE}) : TRUE

(***************************************************************************)
(* What a record says fired.                                               *)
(***************************************************************************)

Detection(detectors, observables) ==
  {<<"D", i>> : i \in {j \in DOMAIN detectors : detectors[j]}}
    \cup {<<"L", o[1]>> : o \in {p \in Range(observables) :
                                  Odd({j \in DOMAIN observables : observables[j] = <<p[1], TRUE>>})}}

=============================================================================
