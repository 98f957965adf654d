------------------------------ MODULE Tableau ------------------------------
(***************************************************************************)
(* The stabilizer tableau of src/rstim/src/sim/tableau.rs: for each qubit  *)
(* a destabilizer and a stabilizer, each a Pauli string with a power of i. *)
(* A row holds the qubits with an X, the qubits with a Z (a qubit in both  *)
(* has a Y) and the phase. Rows 0..n-1 are the destabilizers, rows         *)
(* n..2n-1 the stabilizers, as in the code.                                *)
(*                                                                         *)
(* A gate is an operator on one row; the code's loops over the rows are    *)
(* the function constructor of Conjugated.                                 *)
(***************************************************************************)
EXTENDS StimCircuit, SequencesExt

Rows == 0 .. 2 * NumQubits - 1
Stabilizers == NumQubits .. 2 * NumQubits - 1
Row == [x : SUBSET Qubits, z : SUBSET Qubits, phase : 0 .. 3]

Row0 == [x |-> {}, z |-> {}, phase |-> 0]
ZOn(q) == [Row0 EXCEPT !.z = {q}]

\* |0...0>
NewTableau == [i \in Rows |-> IF i < NumQubits THEN [Row0 EXCEPT !.x = {i}] ELSE ZOn(i - NumQubits)]

(***************************************************************************)
(* Gates.                                                                  *)
(***************************************************************************)

Signed(r, negative) == IF negative THEN [r EXCEPT !.phase = (@ + 2) % 4] ELSE r

\* Exchange the X and the Z of a qubit.
Exchanged(r, q) ==
  [r EXCEPT !.x = Toggle(@, q, (q \in r.x) # (q \in r.z)),
            !.z = Toggle(@, q, (q \in r.x) # (q \in r.z))]
ZGainsX(r, q) == [r EXCEPT !.z = Toggle(@, q, q \in r.x)]
XGainsZ(r, q) == [r EXCEPT !.x = Toggle(@, q, q \in r.z)]

H(r, q) == Signed(Exchanged(r, q), q \in r.x /\ q \in r.z)
S(r, q) == Signed(ZGainsX(r, q), q \in r.x /\ q \in r.z)
S_DAG(r, q) == S(S(S(r, q), q), q)
X(r, q) == Signed(r, q \in r.z)
Z(r, q) == Signed(r, q \in r.x)
Y(r, q) == Z(X(r, q), q)
SQRT_X(r, q) == H(S(H(r, q), q), q)
SQRT_X_DAG(r, q) == H(S_DAG(H(r, q), q), q)
SQRT_Y(r, q) == Signed(Exchanged(r, q), q \in r.x /\ q \notin r.z)
SQRT_Y_DAG(r, q) == Signed(Exchanged(r, q), q \in r.z /\ q \notin r.x)
H_XY(r, q) == Signed(ZGainsX(r, q), q \in r.z /\ q \notin r.x)
H_YZ(r, q) == Signed(XGainsZ(r, q), q \in r.x /\ q \notin r.z)
C_XYZ(r, q) == H(S_DAG(r, q), q)
C_ZYX(r, q) == S(H(r, q), q)

CX(r, c, t) ==
  Signed([r EXCEPT !.x = Toggle(@, t, c \in r.x), !.z = Toggle(@, c, t \in r.z)],
         c \in r.x /\ t \in r.z /\ ((t \in r.x) <=> (c \in r.z)))
CZ(r, a, b) == H(CX(H(r, b), a, b), b)
CY(r, c, t) == S(CX(S_DAG(r, t), c, t), t)
SWAP(r, a, b) ==
  [r EXCEPT !.x = Toggle(Toggle(@, a, (a \in r.x) # (b \in r.x)), b, (a \in r.x) # (b \in r.x)),
            !.z = Toggle(Toggle(@, a, (a \in r.z) # (b \in r.z)), b, (a \in r.z) # (b \in r.z))]
XCX(r, a, b) == H(CX(H(r, a), a, b), a)
XCY(r, a, b) == H_YZ(CX(H_YZ(r, b), b, a), b)
YCX(r, a, b) == H_YZ(CX(H_YZ(r, a), a, b), a)
YCY(r, a, b) == H_YZ(H_YZ(CZ(H_YZ(H_YZ(r, a), b), a, b), b), a)

Gate1(name, r, q) ==
  CASE name = "I" -> r
    [] name = "X" -> X(r, q)
    [] name = "Y" -> Y(r, q)
    [] name = "Z" -> Z(r, q)
    [] name = "H" -> H(r, q)
    [] name = "S" -> S(r, q)
    [] name = "S_DAG" -> S_DAG(r, q)
    [] name = "SQRT_X" -> SQRT_X(r, q)
    [] name = "SQRT_X_DAG" -> SQRT_X_DAG(r, q)
    [] name = "SQRT_Y" -> SQRT_Y(r, q)
    [] name = "SQRT_Y_DAG" -> SQRT_Y_DAG(r, q)
    [] name = "H_XY" -> H_XY(r, q)
    [] name = "H_YZ" -> H_YZ(r, q)
    [] name = "H_NXY" -> Z(H_XY(r, q), q)
    [] name = "H_NXZ" -> Y(H(r, q), q)
    [] name = "H_NYZ" -> X(H_YZ(r, q), q)
    [] name = "C_XYZ" -> C_XYZ(r, q)
    [] name = "C_NXYZ" -> Z(C_XYZ(r, q), q)
    [] name = "C_XNYZ" -> X(C_XYZ(r, q), q)
    [] name = "C_XYNZ" -> Y(C_XYZ(r, q), q)
    [] name = "C_ZYX" -> C_ZYX(r, q)
    [] name = "C_NZYX" -> Z(C_ZYX(r, q), q)
    [] name = "C_ZNYX" -> X(C_ZYX(r, q), q)
    [] name = "C_ZYNX" -> Y(C_ZYX(r, q), q)

Gate2(name, r, a, b) ==
  CASE name = "CX" -> CX(r, a, b)
    [] name = "CY" -> CY(r, a, b)
    [] name = "CZ" -> CZ(r, a, b)
    [] name = "XCX" -> XCX(r, a, b)
    [] name = "XCY" -> XCY(r, a, b)
    [] name = "XCZ" -> CX(r, b, a)
    [] name = "YCX" -> YCX(r, a, b)
    [] name = "YCY" -> YCY(r, a, b)
    [] name = "YCZ" -> CY(r, b, a)
    [] name = "SWAP" -> SWAP(r, a, b)
    [] name = "ISWAP" -> SWAP(CZ(S(S(r, a), b), a, b), a, b)
    [] name = "ISWAP_DAG" -> SWAP(CZ(S_DAG(S_DAG(r, a), b), a, b), a, b)
    [] name = "CXSWAP" -> CX(CX(r, b, a), a, b)
    [] name = "SWAPCX" -> CX(CX(r, a, b), b, a)
    [] name = "CZSWAP" -> SWAP(CZ(r, a, b), a, b)

\* The tableau after a gate, given as what it does to a row.
Conjugated(tab, Gate(_)) == [i \in Rows |-> Gate(tab[i])]

(***************************************************************************)
(* Measurement.                                                            *)
(***************************************************************************)

\* I, X, Y and Z as 0, 1, 2 and 3: X Y = i Z, and so on cyclically.
Letter(r, q) == IF q \in r.x THEN IF q \in r.z THEN 2 ELSE 1 ELSE IF q \in r.z THEN 3 ELSE 0
MulPauli(k, l) ==
  CASE k = 0 \/ l = 0 \/ k = l -> 0
    [] k # 0 /\ l # 0 /\ (l - k) % 3 = 1 -> 1
    [] k # 0 /\ l # 0 /\ (l - k) % 3 = 2 -> 3

RowMult(r, by) ==
  [x |-> SymDiff(r.x, by.x), z |-> SymDiff(r.z, by.z),
   phase |-> (r.phase + by.phase
                + MapThenSumSet(LAMBDA q : MulPauli(Letter(r, q), Letter(by, q)), Qubits)) % 4]

\* Mutant: the destabilizer is copied after the pivot row has been overwritten.
CollapseCopiedLate(tab, p, q, bit) ==
  [i \in Rows |-> CASE i \in {p, p - NumQubits} -> Signed(ZOn(q), bit)
                    [] OTHER -> IF q \in tab[i].x THEN RowMult(tab[i], tab[p]) ELSE tab[i]]

\* A row that anticommutes with Z gives way to it; its destabilizer becomes what it was.
Collapse(tab, p, q, bit) ==
  [i \in Rows |-> CASE i = p -> Signed(ZOn(q), bit)
                    [] i = p - NumQubits -> tab[p]
                    [] OTHER -> IF q \in tab[i].x THEN RowMult(tab[i], tab[p]) ELSE tab[i]]

\* Z is the product of the stabilizers whose destabilizers anticommute with it, up to the sign.
ZProduct(tab, q) ==
  FoldLeft(LAMBDA r, i : IF q \in tab[i].x THEN RowMult(r, tab[i + NumQubits]) ELSE r,
           ZOn(q), [k \in 1 .. NumQubits |-> k - 1])

\* The measurement of Z on a qubit: the pairs of a result and the tableau after it. The result is
\* random if a stabilizer anticommutes with Z; bits are the results that the caller may draw, only
\* FALSE for the biased measurement of a reference sample.
MeasureZ(tab, q, bits) ==
  LET anticommuting == {i \in Stabilizers : q \in tab[i].x}
  IN IF anticommuting = {} THEN {<<ZProduct(tab, q).phase = 2, tab>>}
     ELSE {<<bit, Collapse(tab, Min(anticommuting), q, bit)>> : bit \in bits}

(***************************************************************************)
(* What makes rows a tableau: each destabilizer anticommutes with its own  *)
(* stabilizer, all other pairs of rows commute, and a stabilizer is a      *)
(* Hermitian string, plus or minus.                                        *)
(***************************************************************************)

Anticommute(r, s) == Odd(r.x \cap s.z) # Odd(r.z \cap s.x)

IsTableau(tab) ==
  /\ tab \in [Rows -> Row]
  /\ \A i, j \in Rows : Anticommute(tab[i], tab[j]) <=> (i - j \in {NumQubits, -NumQubits})
  /\ \A i \in Stabilizers : tab[i].phase \in {0, 2}

=============================================================================
