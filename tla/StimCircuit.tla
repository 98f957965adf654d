---------------------------- MODULE StimCircuit ----------------------------
(***************************************************************************)
(* The instructions of a stabilizer circuit, as src/rstim hands them to    *)
(* its simulators and to its error analyzer: a name, the groups of targets *)
(* it acts on, the measurements it inverts, and one argument.              *)
(*                                                                         *)
(*   on   a sequence of groups: qubits (H, M, R, X_ERROR), pairs of qubits *)
(*        (CX, MXX, DEPOLARIZE2), Pauli products, each a sequence of       *)
(*        <<qubit, basis>> (MPP, SPP, E), bits (MPAD), or the distances of *)
(*        the measurements looked back at (DETECTOR, OBSERVABLE_INCLUDE).  *)
(*        A pair of CX, CY or CZ may begin with -k, for rec[-k]: feedback, *)
(*        a Pauli on the pair's qubit if that measurement gave 1;          *)
(*   inv  the places in on whose result is inverted;                       *)
(*   arg  for noise and measurements 1 if the probability is positive and  *)
(*        0 if it is not; for OBSERVABLE_INCLUDE the observable.           *)
(*                                                                         *)
(* Probabilities are left out: an error that may happen is one that both   *)
(* happens and does not. So are sweep bits and loss. REPEAT is an          *)
(* instruction with its body in on and its count in arg; what does not     *)
(* take it is given the flattened circuit.                                 *)
(***************************************************************************)
EXTENDS Integers, Sequences, FiniteSets, FiniteSetsExt

CONSTANT NumQubits     \* the circuit's width

ASSUME NumQubitsIsPositive == NumQubits \in Nat \ {0}

Qubits == 0 .. NumQubits - 1
Bases == {"X", "Y", "Z"}

OneQubitGates ==
  {"I", "X", "Y", "Z", "H", "S", "S_DAG", "SQRT_X", "SQRT_X_DAG", "SQRT_Y", "SQRT_Y_DAG",
   "H_XY", "H_YZ", "H_NXY", "H_NXZ", "H_NYZ", "C_XYZ", "C_NXYZ", "C_XNYZ", "C_XYNZ",
   "C_ZYX", "C_NZYX", "C_ZNYX", "C_ZYNX"}
TwoQubitGates ==
  {"CX", "CY", "CZ", "XCX", "XCY", "XCZ", "YCX", "YCY", "YCZ", "SWAP", "ISWAP", "ISWAP_DAG",
   "CXSWAP", "SWAPCX", "CZSWAP"}
OneQubitNoise == {"X_ERROR", "Y_ERROR", "Z_ERROR", "DEPOLARIZE1", "PAULI_CHANNEL_1"}
TwoQubitNoise == {"DEPOLARIZE2", "PAULI_CHANNEL_2"}
Heralded == {"HERALDED_ERASE", "HERALDED_PAULI_CHANNEL_1"}
CorrelatedNoise == {"E", "ELSE_CORRELATED_ERROR"}
Measurements == {"M", "MX", "MY"}
MeasureResets == {"MR", "MRX", "MRY"}
Resets == {"R", "RX", "RY"}
PairMeasurements == {"MXX", "MYY", "MZZ"}
Annotations == {"DETECTOR", "OBSERVABLE_INCLUDE", "TICK"}

\* The basis a measurement or a reset is in.
Basis(name) ==
  CASE name \in {"MX", "MRX", "RX", "MXX"} -> "X"
    [] name \in {"MY", "MRY", "RY", "MYY"} -> "Y"
    [] OTHER -> "Z"

\* The product that a pair measurement measures.
PairProduct(name, pair) == <<<<pair[1], Basis(name)>>, <<pair[2], Basis(name)>>>>

\* The measurements that one instruction records.
MeasurementsOf(op) ==
  IF op.name \in Measurements \cup MeasureResets \cup PairMeasurements \cup Heralded
                   \cup {"MPP", "MPAD"}
  THEN Len(op.on) ELSE 0

\* What a channel applies to a qubit: the identity, or one of these Paulis.
Paulis(name) ==
  CASE name = "X_ERROR" -> {"I", "X"}
    [] name = "Y_ERROR" -> {"I", "Y"}
    [] name = "Z_ERROR" -> {"I", "Z"}
    [] OTHER -> {"I"} \cup Bases

Bits(op) == IF op.arg > 0 THEN BOOLEAN ELSE {FALSE}
\* An instruction without its noise.
Quiet(op) == IF op.name = "OBSERVABLE_INCLUDE" THEN op ELSE [op EXCEPT !.arg = 0]

\* Feedback: the pairs of an instruction that a measurement controls, and what it applies.
Controlled(t) == t[1] < 0
HasFeedback(op) ==
  op.name \in {"CX", "CY", "CZ"} /\ \E i \in DOMAIN op.on : Controlled(op.on[i])
ControlledPauli == [CX |-> "X", CY |-> "Y", CZ |-> "Z"]

Odd(A) == Cardinality(A) % 2 = 1
Toggle(A, e, when) == IF when THEN SymDiff(A, {e}) ELSE A

\* Whether the measurements that an annotation looks back at have odd parity.
Parity(record, op) == Odd({i \in DOMAIN op.on : record[Len(record) + 1 - op.on[i]]})

(***************************************************************************)
(* What the parser lets through (validation.rs). The code does not ask     *)
(* that the qubits of a pair, or of a product, differ.                     *)
(***************************************************************************)

InstructionNames ==
  OneQubitGates \cup TwoQubitGates \cup OneQubitNoise \cup TwoQubitNoise \cup Heralded
    \cup CorrelatedNoise \cup Measurements \cup MeasureResets \cup Resets \cup PairMeasurements
    \cup Annotations \cup {"MPP", "SPP", "SPP_DAG", "MPAD"}

DistinctPairs == {p \in Qubits \X Qubits : p[1] # p[2]}
Lookbacks == {k \in Int : k < 0}
PauliProducts ==
  {p \in Seq(Qubits \X Bases) : p # <<>> /\ \A i, j \in DOMAIN p : p[i][1] = p[j][1] => i = j}

\* The groups of targets that an instruction takes.
Groups(name) ==
  CASE name \in OneQubitGates \cup Measurements \cup MeasureResets \cup Resets
                  \cup OneQubitNoise \cup Heralded -> Qubits
    [] name \in {"CX", "CY", "CZ"} -> DistinctPairs \cup (Lookbacks \X Qubits)
    [] name \in TwoQubitGates \ {"CX", "CY", "CZ"} -> DistinctPairs
    [] name \in PairMeasurements -> DistinctPairs
    [] name \in TwoQubitNoise -> Qubits \X Qubits
    [] name \in {"MPP", "SPP", "SPP_DAG"} -> PauliProducts
    [] name \in CorrelatedNoise -> Qubits \X Bases
    [] name = "MPAD" -> BOOLEAN
    [] name \in {"DETECTOR", "OBSERVABLE_INCLUDE"} -> Nat \ {0}
    [] name = "TICK" -> {}

Valid(op) ==
  /\ op.name \in InstructionNames
  /\ op \in [name : {op.name}, on : Seq(Groups(op.name)), inv : SUBSET Nat, arg : Nat]

=============================================================================
