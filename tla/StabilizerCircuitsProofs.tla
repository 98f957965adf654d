---------------------- MODULE StabilizerCircuitsProofs ---------------------
(***************************************************************************)
(* Circuits of every width.                                                *)
(*                                                                         *)
(* The tableau of a shot stays a tableau. A gate keeps of any two rows     *)
(* whether they anticommute, and of each whether its sign is imaginary;    *)
(* so does a product, folded onto its anchor term by term. A measurement   *)
(* multiplies rows, and the phase of a product of two rows is even or odd  *)
(* as the rows commute or not, which is a sum over the qubits.             *)
(*                                                                         *)
(* The gates of the tableau, of the frame simulator and of the error       *)
(* analyzer agree. A gate carries a frame as it carries the Pauli string   *)
(* of a tableau row, and the backward rule of a gate is the adjoint of its *)
(* forward rule: the flips before the gate, read with the sensitivities    *)
(* before it, flip what the flips after it flip, read with the             *)
(* sensitivities after it.                                                 *)
(*                                                                         *)
(* So do the rules of measurements and resets, a result being one more     *)
(* flip, and of products, folded onto an anchor and unfolded. The rules of *)
(* the groups of an instruction make the rule of the instruction, and      *)
(* those of the instructions the analysis of the circuit: what it has for  *)
(* a Pauli is what the frame simulator makes of one. An analysis runs      *)
(* backwards and a simulation forwards; the analyses on the way are the    *)
(* history that the invariant remembers, the qubits lost to a measurement  *)
(* are followed back along it, and then the simulator is walked forwards.  *)
(***************************************************************************)
EXTENDS CircuitEffects, FiniteSetTheorems, NaturalsInduction, WellFoundedInduction, TLAPS

(***************************************************************************)
(* Recursion over finite sets. The folds of the community modules are      *)
(* functions defined by it. The library's theorems about it have operators *)
(* as parameters; here are sets and functions.                             *)
(***************************************************************************)

\* Every set of natural numbers that has an element has a least one.
LEMMA LeastNatural ==
  ASSUME NEW D \in SUBSET Nat, D # {}
  PROVE  \E x \in D : \A y \in D : x <= y
<1> DEFINE R == OpToRel(<, Nat)
<1>1. IsWellFoundedOn(R, Nat)
  BY NatLessThanWellFounded
<1>2. \A x, y \in Nat : <<y, x>> \in R <=> y < x
  BY DEF OpToRel
<1> HIDE DEF R
<1>3. PICK x \in D : \A y \in D : ~ (<<y, x>> \in R)
  BY <1>1, WFMin
<1>4. \A y \in D : ~ (y < x)
  BY <1>2, <1>3
<1>5. \A y \in D : x \in Nat /\ y \in Nat
  OBVIOUS
<1> QED
  BY <1>4, <1>5

\* Induction on the natural numbers.
LEMMA NaturalInduction ==
  ASSUME NEW D, 0 \in D, \A n \in Nat : n \in D => n + 1 \in D
  PROVE  Nat \subseteq D
<1> SUFFICES ASSUME Nat \ D # {} PROVE FALSE
  OBVIOUS
<1>1. PICK x \in Nat \ D : \A y \in Nat \ D : x <= y
  BY LeastNatural
<1>2. x # 0 /\ x - 1 \in Nat /\ x - 1 \notin Nat \ D
  BY <1>1
<1>3. (x - 1) + 1 \in D
  BY <1>2
<1> QED
  BY <1>1, <1>3

\* Induction on the subsets of a finite set, one element at a time.
LEMMA SubsetInduction ==
  ASSUME NEW D, IsFiniteSet(D), NEW P, {} \in P,
         \A s \in SUBSET D : s # {} /\ (\A x \in s : s \ {x} \in P) => s \in P
  PROVE  \A s \in SUBSET D : s \in P
<1> DEFINE N == {n \in Nat : \A s \in SUBSET D : Cardinality(s) = n => s \in P}
<1>1. \A s \in SUBSET D : IsFiniteSet(s) /\ Cardinality(s) \in Nat
  BY FS_Subset, FS_CardinalityType
<1>2. 0 \in N
  BY <1>1, FS_EmptySet
<1>3. ASSUME NEW n \in Nat, n \in N PROVE n + 1 \in N
  <2> SUFFICES ASSUME NEW s \in SUBSET D, Cardinality(s) = n + 1 PROVE s \in P
    OBVIOUS
  <2>1. s # {}
    <3>1. Cardinality({}) = 0
      BY FS_EmptySet
    <3>2. Cardinality(s) # 0
      OBVIOUS
    <3> QED
      BY <3>1, <3>2
  <2>2. ASSUME NEW x \in s PROVE s \ {x} \in P
    BY <1>1, FS_RemoveElement, <1>3
  <2> QED
    BY <2>1, <2>2
<1> HIDE DEF N
<1>4. Nat \subseteq N
  BY <1>2, <1>3, NaturalInduction
<1> QED
  BY <1>1, <1>4 DEF N

\* There is such a fold.
LEMMA FoldExists ==
  ASSUME NEW D, IsFiniteSet(D), NEW V, NEW base \in V,
         NEW pick, \A s \in SUBSET D : s # {} => pick[s] \in s,
         NEW step \in [D -> [V -> V]]
  PROVE  \E f : Folds(f, D, V, base, pick, step)
<1> DEFINE After(g, s) == IF s = {} THEN base ELSE step[pick[s]][g[s \ {pick[s]}]]
           Upto(n, g) == /\ g \in [SUBSET D -> V]
                         /\ \A s \in SUBSET D : Cardinality(s) <= n => g[s] = After(g, s)
           N == {n \in Nat : \E g : Upto(n, g)}
<1>1. \A s \in SUBSET D : IsFiniteSet(s) /\ Cardinality(s) \in Nat /\ Cardinality(s) <= Cardinality(D)
  BY FS_Subset, FS_CardinalityType
<1>2. 0 \in N
  <2> DEFINE g == [s \in SUBSET D |-> base]
  <2>1. \A s \in SUBSET D : Cardinality(s) <= 0 => s = {}
    BY <1>1, FS_EmptySet
  <2>2. Upto(0, g)
    BY <2>1
  <2> HIDE DEF g, Upto
  <2> QED
    BY <2>2
<1>3. ASSUME NEW n \in Nat, n \in N PROVE n + 1 \in N
  <2>1. PICK g : Upto(n, g)
    BY <1>3
  <2> DEFINE h == [s \in SUBSET D |-> After(g, s)]
  <2>2. h \in [SUBSET D -> V]
    BY <2>1
  <2>3. ASSUME NEW s \in SUBSET D, Cardinality(s) <= n + 1, s # {}
        PROVE  h[s] = step[pick[s]][h[s \ {pick[s]}]]
    <3> DEFINE t == s \ {pick[s]}
    <3>1. pick[s] \in s /\ t \in SUBSET D
      BY <2>3
    <3>2. Cardinality(t) <= n
      BY <1>1, <3>1, FS_RemoveElement, <2>3
    <3> HIDE DEF t
    <3>3. h[t] = g[t]
      BY <2>1, <3>1, <3>2
    <3>4. h[s] = step[pick[s]][g[t]]
      BY <2>3 DEF t
    <3> QED
      BY <3>3, <3>4 DEF t
  <2>4. Upto(n + 1, h)
    <3>1. \A s \in SUBSET D : s = {} => h[s] = base
      OBVIOUS
    <3> HIDE DEF h
    <3> QED
      BY <2>2, <2>3, <3>1
  <2> HIDE DEF h, Upto
  <2> QED
    BY <2>4
<1>4. Nat \subseteq N
  <2> HIDE DEF N
  <2> QED
    BY <1>2, <1>3, NaturalInduction
<1>5. Cardinality(D) \in Nat
  BY FS_CardinalityType
<1>6. PICK g : Upto(Cardinality(D), g)
  <2> HIDE DEF Upto
  <2> QED
    BY <1>4, <1>5
<1>7. Folds(g, D, V, base, pick, step)
  BY <1>1, <1>6 DEF Folds
<1> QED
  BY <1>7

(***************************************************************************)
(* Parity, and the qubits on which two rows anticommute.                   *)
(***************************************************************************)

\* The parity of a symmetric difference.
LEMMA OddSymDiff ==
  ASSUME NEW A, NEW B, IsFiniteSet(A), IsFiniteSet(B)
  PROVE  /\ IsFiniteSet(SymDiff(A, B))
         /\ Odd(SymDiff(A, B)) <=> ~(Odd(A) <=> Odd(B))
<1> DEFINE C == A \cap B
<1>1. /\ IsFiniteSet(C) /\ IsFiniteSet(A \ B) /\ IsFiniteSet(B \ A)
  BY FS_Subset
<1>2. /\ Cardinality(C) \in Nat /\ Cardinality(A \ B) \in Nat /\ Cardinality(B \ A) \in Nat
  BY <1>1, FS_CardinalityType
<1>3. Cardinality(A \ B) = Cardinality(A) - Cardinality(C) /\ Cardinality(A) \in Nat
  BY FS_Difference, FS_CardinalityType
<1>4. Cardinality(B \ A) = Cardinality(B) - Cardinality(C) /\ Cardinality(B) \in Nat
  <2>1. B \cap A = C
    OBVIOUS
  <2> QED
    BY <2>1, FS_Difference, FS_CardinalityType
<1>5. /\ IsFiniteSet(SymDiff(A, B))
      /\ Cardinality(SymDiff(A, B)) = Cardinality(A \ B) + Cardinality(B \ A)
  <2>1. (A \ B) \cap (B \ A) = {}
    OBVIOUS
  <2>2. /\ IsFiniteSet((A \ B) \cup (B \ A))
        /\ Cardinality((A \ B) \cup (B \ A))
             = Cardinality(A \ B) + Cardinality(B \ A) - Cardinality({})
    BY <1>1, <2>1, FS_Union
  <2> QED
    BY <1>2, <2>2, FS_EmptySet DEF SymDiff
<1> DEFINE a == Cardinality(A \ B)
           b == Cardinality(B \ A)
           c == Cardinality(C)
<1>6. \A i, j, k \in Nat : (i + j) % 2 = 1 <=> ~((i + k) % 2 = 1 <=> (j + k) % 2 = 1)
  OBVIOUS
<1>7. (a + b) % 2 = 1 <=> ~((a + c) % 2 = 1 <=> (b + c) % 2 = 1)
  BY <1>2, <1>6
<1>8. Cardinality(A) = a + c /\ Cardinality(B) = b + c
  BY <1>2, <1>3, <1>4
<1> QED
  BY <1>5, <1>7, <1>8 DEF Odd

\* Sets of qubits are finite.
LEMMA QubitSets == \A A \in SUBSET Qubits : IsFiniteSet(A)
<1>1. IsFiniteSet(Qubits)
  BY NumQubitsIsPositive, FS_Interval DEF Qubits
<1> QED
  BY <1>1, FS_Subset

\* Two rows anticommute if they do on an odd number of qubits.
LEMMA AnticommuteIs ==
  ASSUME NEW r \in Row, NEW s \in Row
  PROVE  /\ Clash(r, s) \in SUBSET Qubits
         /\ Anticommute(r, s) \in BOOLEAN
         /\ Anticommute(r, s) <=> Odd(Clash(r, s))
<1>1. r.x \cap s.z \in SUBSET Qubits /\ r.z \cap s.x \in SUBSET Qubits
  BY DEF Row
<1>2. Clash(r, s) \in SUBSET Qubits
  BY <1>1 DEF Clash, SymDiff
<1>3. Odd(Clash(r, s)) <=> ~(Odd(r.x \cap s.z) <=> Odd(r.z \cap s.x))
  BY <1>1, QubitSets, OddSymDiff DEF Clash
<1>4. \A A : Odd(A) \in BOOLEAN
  BY DEF Odd
<1> QED
  BY <1>2, <1>3, <1>4 DEF Anticommute

\* Whether a qubit is one of them.
LEMMA InClash ==
  ASSUME NEW r, NEW s, NEW p
  PROVE  p \in Clash(r, s) <=> ~((p \in r.x /\ p \in s.z) <=> (p \in r.z /\ p \in s.x))
BY DEF Clash, SymDiff

(***************************************************************************)
(* The product of two rows.                                                *)
(***************************************************************************)

\* The phase of the product of two Paulis is a power of i, odd if they anticommute.
LEMMA MulPauliIs ==
  ASSUME NEW r \in Row, NEW s \in Row, NEW q \in Qubits
  PROVE  /\ MulPauli(Letter(r, q), Letter(s, q)) \in {0, 1, 3}
         /\ MulPauli(Letter(r, q), Letter(s, q)) = 0 <=> q \notin Clash(r, s)
<1>1. ASSUME NEW t \in Row
      PROVE  /\ Letter(t, q) \in {0, 1, 2, 3}
             /\ q \in t.x <=> Letter(t, q) \in {1, 2}
             /\ q \in t.z <=> Letter(t, q) \in {2, 3}
  BY DEF Letter
<1>2. \A k, l \in {0, 1, 2, 3} :
        /\ MulPauli(k, l) \in {0, 1, 3}
        /\ MulPauli(k, l) = 0 <=> (k \in {1, 2} /\ l \in {2, 3} <=> k \in {2, 3} /\ l \in {1, 2})
  BY DEF MulPauli
<1> QED
  BY <1>1, <1>2, InClash

\* The phases of the qubits add up to a number that is odd if the rows anticommute.
LEMMA PhaseSum ==
  ASSUME NEW r \in Row, NEW s \in Row
  PROVE  LET sum == MapThenSumSet(LAMBDA q : MulPauli(Letter(r, q), Letter(s, q)), Qubits)
         IN sum \in Nat /\ (sum % 2 = 1 <=> Anticommute(r, s))
<1> DEFINE phase(q) == MulPauli(Letter(r, q), Letter(s, q))
           Is(g) == g = [A \in SUBSET Qubits |->
                           IF A = {} THEN 0
                           ELSE LET x == CHOOSE y \in A : TRUE IN phase(x) + g[A \ {x}]]
           sums == CHOOSE g : Is(g)
           C == Clash(r, s)
           pick == [A \in SUBSET Qubits |-> CHOOSE y \in A : TRUE]
           step == [q \in Qubits |-> [v \in Nat |-> phase(q) + v]]
<1>1. \A q \in Qubits : phase(q) \in {0, 1, 3} /\ (phase(q) = 0 <=> q \notin C)
  BY MulPauliIs
<1>2. C \in SUBSET Qubits
  BY AnticommuteIs
<1>3. IsFiniteSet(Qubits) /\ \A A \in SUBSET Qubits : IsFiniteSet(A)
  BY QubitSets
<1> HIDE DEF phase, C
<1>4. \A A \in SUBSET Qubits : A # {} => pick[A] \in A
  OBVIOUS
<1>5. step \in [Qubits -> [Nat -> Nat]] /\ \A q \in Qubits, v \in Nat : step[q][v] = phase(q) + v
  BY <1>1
<1>6. \A A \in SUBSET Qubits : pick[A] = CHOOSE y \in A : TRUE
  OBVIOUS
<1> HIDE DEF pick, step
<1>7. PICK f : Folds(f, Qubits, Nat, 0, pick, step)
  BY <1>3, <1>4, <1>5, FoldExists
<1>8. Is(f)
  <2>1. f \in [SUBSET Qubits -> Nat]
    BY <1>7 DEF Folds
  <2>2. ASSUME NEW A \in SUBSET Qubits
        PROVE  f[A] = IF A = {} THEN 0 ELSE LET x == CHOOSE y \in A : TRUE IN phase(x) + f[A \ {x}]
    <3>1. CASE A = {}
      BY <1>7, <3>1 DEF Folds
    <3>2. CASE A # {}
      <4>1. f[A] = step[pick[A]][f[A \ {pick[A]}]]
        BY <1>7, <3>2 DEF Folds
      <4>2. pick[A] \in Qubits /\ A \ {pick[A]} \in SUBSET Qubits
        BY <1>4, <3>2
      <4>3. f[A] = phase(pick[A]) + f[A \ {pick[A]}]
        BY <1>5, <2>1, <4>1, <4>2
      <4> QED
        BY <1>6, <3>2, <4>3
    <3> QED
      BY <3>1, <3>2
  <2> QED
    BY <2>1, <2>2
<1>9. Is(sums)
  <2> HIDE DEF Is
  <2> QED
    BY <1>8
<1> HIDE DEF sums
<1> DEFINE P == {A \in SUBSET Qubits : sums[A] \in Nat /\ (sums[A] % 2 = 1 <=> Odd(C \cap A))}
<1>10. {} \in P
  BY <1>9, FS_EmptySet DEF Odd
<1>11. ASSUME NEW A \in SUBSET Qubits, A # {}, \A x \in A : A \ {x} \in P
       PROVE  A \in P
  <2> DEFINE x == CHOOSE y \in A : TRUE
             B == A \ {x}
  <2>1. x \in A /\ x \in Qubits
    BY <1>11
  <2>2. sums[A] = phase(x) + sums[B]
    BY <1>9, <1>11
  <2> HIDE DEF x
  <2>3. sums[B] \in Nat /\ (sums[B] % 2 = 1 <=> Odd(C \cap B))
    BY <1>11, <2>1
  <2>4. Odd(C \cap A) <=> ~(Odd(C \cap B) <=> x \in C)
    <3>1. C \cap A = SymDiff(C \cap B, C \cap {x})
      BY <2>1 DEF SymDiff
    <3>2. IsFiniteSet(C \cap B) /\ IsFiniteSet(C \cap {x})
      BY <1>2, <1>3
    <3>3. Odd(C \cap {x}) <=> x \in C
      <4>1. CASE x \in C
        BY <4>1, FS_Singleton DEF Odd
      <4>2. CASE x \notin C
        BY <4>2, FS_EmptySet DEF Odd
      <4> QED
        BY <4>1, <4>2
    <3> QED
      BY <3>1, <3>2, <3>3, OddSymDiff
  <2>5. phase(x) \in {0, 1, 3} /\ (phase(x) = 0 <=> x \notin C)
    BY <1>1, <2>1
  <2> HIDE DEF B
  <2>6. sums[A] \in Nat /\ (sums[A] % 2 = 1 <=> ~(sums[B] % 2 = 1 <=> x \in C))
    BY <2>2, <2>3, <2>5
  <2> QED
    BY <2>3, <2>4, <2>6
<1>12. Qubits \in P
  <2> HIDE DEF P
  <2>1. \A A \in SUBSET Qubits : A # {} /\ (\A x \in A : A \ {x} \in P) => A \in P
    BY <1>11
  <2>2. \A A \in SUBSET Qubits : A \in P
    BY <1>3, <1>10, <2>1, SubsetInduction
  <2> QED
    BY <2>2
<1>13. sums[Qubits] \in Nat /\ (sums[Qubits] % 2 = 1 <=> Anticommute(r, s))
  BY <1>2, <1>12, AnticommuteIs DEF C
<1>14. MapThenSumSet(LAMBDA q : MulPauli(Letter(r, q), Letter(s, q)), Qubits) = sums[Qubits]
  BY DEF MapThenSumSet, MapThenFoldSet, sums, phase
<1> QED
  BY <1>13, <1>14

\* To anticommute is symmetric, and no row does so with itself.
LEMMA AnticommuteSymmetric ==
  ASSUME NEW r \in Row, NEW s \in Row
  PROVE  (Anticommute(r, s) <=> Anticommute(s, r)) /\ ~Anticommute(r, r)
<1>1. r.x \cap s.z = s.z \cap r.x /\ r.z \cap s.x = s.x \cap r.z /\ r.x \cap r.z = r.z \cap r.x
  OBVIOUS
<1>2. \A A : Odd(A) \in BOOLEAN
  BY DEF Odd
<1> QED
  BY <1>1, <1>2 DEF Anticommute

\* The product of two rows anticommutes with what one of them anticommutes with, but not both. Of
\* rows that commute and have real signs the product has a real sign.
LEMMA RowMultIs ==
  ASSUME NEW r \in Row, NEW s \in Row
  PROVE  /\ RowMult(r, s) \in Row
         /\ \A t \in Row : Anticommute(RowMult(r, s), t) <=> ~(Anticommute(r, t) <=> Anticommute(s, t))
         /\ r.phase % 2 = 0 /\ s.phase % 2 = 0 /\ ~Anticommute(r, s) => RowMult(r, s).phase % 2 = 0
<1> DEFINE sum == MapThenSumSet(LAMBDA q : MulPauli(Letter(r, q), Letter(s, q)), Qubits)
           m == RowMult(r, s)
<1>1. sum \in Nat /\ (sum % 2 = 1 <=> Anticommute(r, s))
  BY PhaseSum
<1>2. m = [x |-> SymDiff(r.x, s.x), z |-> SymDiff(r.z, s.z), phase |-> (r.phase + s.phase + sum) % 4]
  BY DEF RowMult
<1> HIDE DEF sum, m
<1>3. r.phase \in 0 .. 3 /\ s.phase \in 0 .. 3
  BY DEF Row
<1>4. m.x = SymDiff(r.x, s.x) /\ m.z = SymDiff(r.z, s.z) /\ m.phase = (r.phase + s.phase + sum) % 4
  BY <1>2
<1>5. m \in Row
  BY <1>1, <1>3, <1>2 DEF Row, SymDiff
<1>6. ASSUME NEW t \in Row
      PROVE  Anticommute(m, t) <=> ~(Anticommute(r, t) <=> Anticommute(s, t))
  <2>1. /\ Clash(r, t) \in SUBSET Qubits /\ Clash(s, t) \in SUBSET Qubits
        /\ Clash(m, t) \in SUBSET Qubits
    BY <1>5, AnticommuteIs
  <2>2. \A p : p \in Clash(m, t) <=> p \in SymDiff(Clash(r, t), Clash(s, t))
    BY <1>4, InClash DEF SymDiff
  <2>3. Clash(m, t) = SymDiff(Clash(r, t), Clash(s, t))
    BY <2>2
  <2>4. Odd(Clash(m, t)) <=> ~(Odd(Clash(r, t)) <=> Odd(Clash(s, t)))
    BY <2>1, <2>3, QubitSets, OddSymDiff
  <2> QED
    BY <1>5, <2>4, AnticommuteIs
<1>7. ASSUME r.phase % 2 = 0, s.phase % 2 = 0, ~Anticommute(r, s) PROVE m.phase % 2 = 0
  BY <1>1, <1>7, <1>3, <1>4
<1> QED
  BY <1>5, <1>6, <1>7 DEF m

(***************************************************************************)
(* The gates of the tableau.                                               *)
(***************************************************************************)

\* Phases.
LEMMA PhaseIs ==
  ASSUME NEW r \in Row
  PROVE  /\ r.phase \in 0 .. 3
         /\ (r.phase + 2) % 4 \in 0 .. 3
         /\ ((r.phase + 2) % 4) % 2 = r.phase % 2
<1>1. r.phase \in {0, 1, 2, 3}
  BY DEF Row
<1> QED
  BY <1>1

\* A sign changes nothing of this.
LEMMA SignedKept ==
  ASSUME NEW r \in Row, NEW s \in Row, NEW m, NEW n
  PROVE  Kept(r, s, Signed(r, m), Signed(s, n))
<1>1. \A t \in Row : \A b :
        /\ Signed(t, b) \in Row /\ Signed(t, b).x = t.x /\ Signed(t, b).z = t.z
        /\ Signed(t, b).phase % 2 = t.phase % 2
  BY PhaseIs DEF Signed, Row
<1> QED
  BY <1>1 DEF Kept, Anticommute

\* One thing done after another.
LEMMA KeptThen ==
  ASSUME NEW r, NEW s, NEW r2, NEW s2, NEW r3, NEW s3, Kept(r, s, r2, s2), Kept(r2, s2, r3, s3)
  PROVE  Kept(r, s, r3, s3)
BY DEF Kept

\* What is done on one qubit and keeps the set of qubits on which two rows anticommute.
LEMMA LocallyKept ==
  ASSUME NEW r \in Row, NEW s \in Row, NEW r2 \in Row, NEW s2 \in Row,
         r2.phase = r.phase, s2.phase = s.phase,
         \A p \in Qubits : p \in Clash(r2, s2) <=> p \in Clash(r, s)
  PROVE  Kept(r, s, r2, s2)
<1>1. Clash(r2, s2) = Clash(r, s)
  BY AnticommuteIs
<1> QED
  BY <1>1, AnticommuteIs DEF Kept

\* The parts that gates of one qubit are made of.
LEMMA PartsKept ==
  ASSUME NEW r \in Row, NEW s \in Row, NEW q \in Qubits
  PROVE  /\ Kept(r, s, Exchanged(r, q), Exchanged(s, q))
         /\ Kept(r, s, ZGainsX(r, q), ZGainsX(s, q))
         /\ Kept(r, s, XGainsZ(r, q), XGainsZ(s, q))
<1>1. Kept(r, s, Exchanged(r, q), Exchanged(s, q))
  <2>1. ASSUME NEW t \in Row
        PROVE  /\ Exchanged(t, q) \in Row /\ Exchanged(t, q).phase = t.phase
               /\ \A p \in Qubits : p \in Exchanged(t, q).x <=> IF p = q THEN p \in t.z ELSE p \in t.x
               /\ \A p \in Qubits : p \in Exchanged(t, q).z <=> IF p = q THEN p \in t.x ELSE p \in t.z
    <3> DEFINE d == (q \in t.x) # (q \in t.z)
    <3>1. /\ Exchanged(t, q).x = Toggle(t.x, q, d)
          /\ Exchanged(t, q).z = Toggle(t.z, q, d)
          /\ Exchanged(t, q).phase = t.phase
          /\ Toggle(t.x, q, d) \in SUBSET Qubits /\ Toggle(t.z, q, d) \in SUBSET Qubits
               => Exchanged(t, q) \in Row
      <4> DEFINE a == Toggle(t.x, q, d)
                 b == Toggle(t.z, q, d)
      <4>1. Exchanged(t, q) = [t EXCEPT !.x = a, !.z = b]
        BY DEF Exchanged
      <4> HIDE DEF a, b
      <4>2. /\ [t EXCEPT !.x = a, !.z = b].x = a
            /\ [t EXCEPT !.x = a, !.z = b].z = b
            /\ [t EXCEPT !.x = a, !.z = b].phase = t.phase
            /\ a \in SUBSET Qubits /\ b \in SUBSET Qubits => [t EXCEPT !.x = a, !.z = b] \in Row
        BY DEF Row
      <4> QED
        BY <4>1, <4>2 DEF a, b
    <3>2. \A A \in SUBSET Qubits :
            /\ Toggle(A, q, d) \in SUBSET Qubits
            /\ \A p \in Qubits : p \in Toggle(A, q, d) <=> IF p = q THEN ~(p \in A <=> d) ELSE p \in A
      BY DEF Toggle, SymDiff
    <3>3. d <=> ~(q \in t.x <=> q \in t.z)
      OBVIOUS
    <3> HIDE DEF d
    <3>4. t.x \in SUBSET Qubits /\ t.z \in SUBSET Qubits /\ t.phase \in 0 .. 3
      BY DEF Row
    <3>5. /\ \A p \in Qubits : p \in Exchanged(t, q).x <=> IF p = q THEN p \in t.z ELSE p \in t.x
          /\ \A p \in Qubits : p \in Exchanged(t, q).z <=> IF p = q THEN p \in t.x ELSE p \in t.z
      BY <3>1, <3>2, <3>3, <3>4
    <3>6. Exchanged(t, q) \in Row
      BY <3>1, <3>2, <3>4 DEF Row
    <3> QED
      BY <3>1, <3>5, <3>6
  <2>2. \A p \in Qubits : p \in Clash(Exchanged(r, q), Exchanged(s, q)) <=> p \in Clash(r, s)
    BY <2>1, InClash
  <2> QED
    BY <2>1, <2>2, LocallyKept
<1>2. Kept(r, s, ZGainsX(r, q), ZGainsX(s, q))
  <2>1. ASSUME NEW t \in Row
        PROVE  /\ ZGainsX(t, q) \in Row /\ ZGainsX(t, q).phase = t.phase
               /\ ZGainsX(t, q).x = t.x
               /\ \A p \in Qubits : p \in ZGainsX(t, q).z
                                      <=> IF p = q THEN ~(p \in t.x <=> p \in t.z) ELSE p \in t.z
    BY DEF ZGainsX, Row, Toggle, SymDiff
  <2>2. \A p \in Qubits : p \in Clash(ZGainsX(r, q), ZGainsX(s, q)) <=> p \in Clash(r, s)
    BY <2>1, InClash
  <2> QED
    BY <2>1, <2>2, LocallyKept
<1>3. Kept(r, s, XGainsZ(r, q), XGainsZ(s, q))
  <2>1. ASSUME NEW t \in Row
        PROVE  /\ XGainsZ(t, q) \in Row /\ XGainsZ(t, q).phase = t.phase
               /\ XGainsZ(t, q).z = t.z
               /\ \A p \in Qubits : p \in XGainsZ(t, q).x
                                      <=> IF p = q THEN ~(p \in t.x <=> p \in t.z) ELSE p \in t.x
    BY DEF XGainsZ, Row, Toggle, SymDiff
  <2>2. \A p \in Qubits : p \in Clash(XGainsZ(r, q), XGainsZ(s, q)) <=> p \in Clash(r, s)
    BY <2>1, InClash
  <2> QED
    BY <2>1, <2>2, LocallyKept
<1> QED
  BY <1>1, <1>2, <1>3

\* What is done on two qubits and changes both or neither in the set of qubits on which two rows
\* anticommute.
LEMMA PairwiseKept ==
  ASSUME NEW r \in Row, NEW s \in Row, NEW r2 \in Row, NEW s2 \in Row,
         r2.phase = r.phase, s2.phase = s.phase,
         NEW a \in Qubits, NEW b \in Qubits, a # b,
         \A p \in Qubits \ {a, b} : p \in Clash(r2, s2) <=> p \in Clash(r, s),
         (a \in Clash(r2, s2) <=> a \in Clash(r, s)) <=> (b \in Clash(r2, s2) <=> b \in Clash(r, s))
  PROVE  Kept(r, s, r2, s2)
<1>1. CASE a \in Clash(r2, s2) <=> a \in Clash(r, s)
  BY <1>1, LocallyKept
<1>2. CASE ~(a \in Clash(r2, s2) <=> a \in Clash(r, s))
  <2> DEFINE A == Clash(r, s)
             B == Clash(r2, s2)
  <2>1. A \in SUBSET Qubits /\ B \in SUBSET Qubits
    BY AnticommuteIs
  <2>2. B = SymDiff(A, {a, b})
    <3>1. \A p \in Qubits : p \in B <=> p \in SymDiff(A, {a, b})
      BY <1>2 DEF SymDiff
    <3>2. SymDiff(A, {a, b}) \in SUBSET Qubits
      BY <2>1 DEF SymDiff
    <3> HIDE DEF A, B
    <3> QED
      BY <2>1, <3>1, <3>2
  <2>3. ~Odd({a, b}) /\ IsFiniteSet({a, b})
    <3>1. IsFiniteSet({a}) /\ Cardinality({a}) = 1
      BY FS_Singleton
    <3>2. IsFiniteSet({a} \cup {b}) /\ Cardinality({a} \cup {b}) = 2
      <4>1. b \notin {a}
        OBVIOUS
      <4>2. /\ IsFiniteSet({a} \cup {b})
            /\ Cardinality({a} \cup {b}) = IF b \in {a} THEN Cardinality({a})
                                           ELSE Cardinality({a}) + 1
        BY <3>1, FS_AddElement, Zenon
      <4> QED
        BY <3>1, <4>1, <4>2
    <3>3. {a} \cup {b} = {a, b}
      OBVIOUS
    <3>4. Cardinality({a, b}) = 2
      BY <3>2, <3>3
    <3> QED
      BY <3>2, <3>3, <3>4 DEF Odd
  <2>4. Odd(B) <=> Odd(A)
    <3> HIDE DEF A, B
    <3>1. Odd(SymDiff(A, {a, b})) <=> ~(Odd(A) <=> Odd({a, b}))
      BY <2>1, <2>3, QubitSets, OddSymDiff
    <3>2. Odd(A) \in BOOLEAN
      BY DEF Odd
    <3> QED
      BY <2>2, <2>3, <3>1, <3>2
  <2> QED
    BY <2>4, AnticommuteIs DEF Kept
<1> QED
  BY <1>1, <1>2

\* The parts that gates of two qubits are made of.
LEMMA PairPartsKept ==
  ASSUME NEW r \in Row, NEW s \in Row, NEW a \in Qubits, NEW b \in Qubits, a # b
  PROVE  /\ Kept(r, s, Crossed(r, a, b), Crossed(s, a, b))
         /\ Kept(r, s, SWAP(r, a, b), SWAP(s, a, b))
<1>1. Kept(r, s, Crossed(r, a, b), Crossed(s, a, b))
  <2>1. ASSUME NEW t \in Row
        PROVE  /\ Crossed(t, a, b) \in Row /\ Crossed(t, a, b).phase = t.phase
               /\ Crossed(t, a, b).x = Toggle(t.x, b, a \in t.x)
               /\ Crossed(t, a, b).z = Toggle(t.z, a, b \in t.z)
    BY DEF Crossed, Row, Toggle, SymDiff
  <2>2. ASSUME NEW t \in Row, NEW p \in Qubits
        PROVE  /\ p \in Crossed(t, a, b).x <=> IF p = b THEN ~(p \in t.x <=> a \in t.x) ELSE p \in t.x
               /\ p \in Crossed(t, a, b).z <=> IF p = a THEN ~(p \in t.z <=> b \in t.z) ELSE p \in t.z
    BY <2>1 DEF Toggle, SymDiff
  <2>3. \A p \in Qubits \ {a, b} : p \in Clash(Crossed(r, a, b), Crossed(s, a, b)) <=> p \in Clash(r, s)
    BY <2>2, InClash
  <2>4. (a \in Clash(Crossed(r, a, b), Crossed(s, a, b)) <=> a \in Clash(r, s))
          <=> (b \in Clash(Crossed(r, a, b), Crossed(s, a, b)) <=> b \in Clash(r, s))
    BY <2>2, InClash
  <2> QED
    BY <2>1, <2>3, <2>4, PairwiseKept
<1>2. Kept(r, s, SWAP(r, a, b), SWAP(s, a, b))
  <2>1. ASSUME NEW t \in Row
        PROVE  /\ SWAP(t, a, b) \in Row /\ SWAP(t, a, b).phase = t.phase
    BY DEF SWAP, Row, Toggle, SymDiff
  <2>2. ASSUME NEW t \in Row, NEW p \in Qubits
        PROVE  /\ p \in SWAP(t, a, b).x
                    <=> IF p = a THEN b \in t.x ELSE IF p = b THEN a \in t.x ELSE p \in t.x
               /\ p \in SWAP(t, a, b).z
                    <=> IF p = a THEN b \in t.z ELSE IF p = b THEN a \in t.z ELSE p \in t.z
    BY DEF SWAP, Row, Toggle, SymDiff
  <2>3. \A p \in Qubits \ {a, b} : p \in Clash(SWAP(r, a, b), SWAP(s, a, b)) <=> p \in Clash(r, s)
    BY <2>2, InClash
  <2>4. (a \in Clash(SWAP(r, a, b), SWAP(s, a, b)) <=> a \in Clash(r, s))
          <=> (b \in Clash(SWAP(r, a, b), SWAP(s, a, b)) <=> b \in Clash(r, s))
    BY <2>2, InClash
  <2> QED
    BY <2>1, <2>3, <2>4, PairwiseKept
<1> QED
  BY <1>1, <1>2

\* A part followed by a sign.
LEMMA SignedAfter ==
  ASSUME NEW r, NEW s, NEW r2, NEW s2, Kept(r, s, r2, s2), NEW m, NEW n
  PROVE  Kept(r, s, Signed(r2, m), Signed(s2, n))
<1>1. Kept(r2, s2, Signed(r2, m), Signed(s2, n))
  BY SignedKept DEF Kept
<1> QED
  BY <1>1, KeptThen

\* The gates of one qubit that have rules of their own.
LEMMA OwnGatesKept ==
  ASSUME NEW r \in Row, NEW s \in Row, NEW q \in Qubits
  PROVE  /\ Kept(r, s, H(r, q), H(s, q))
         /\ Kept(r, s, S(r, q), S(s, q))
         /\ Kept(r, s, H_XY(r, q), H_XY(s, q))
         /\ Kept(r, s, H_YZ(r, q), H_YZ(s, q))
         /\ Kept(r, s, SQRT_Y(r, q), SQRT_Y(s, q))
         /\ Kept(r, s, SQRT_Y_DAG(r, q), SQRT_Y_DAG(s, q))
         /\ Kept(r, s, X(r, q), X(s, q))
         /\ Kept(r, s, Z(r, q), Z(s, q))
<1>1. Kept(r, s, H(r, q), H(s, q))
  BY PartsKept, SignedAfter DEF H
<1>2. Kept(r, s, S(r, q), S(s, q))
  BY PartsKept, SignedAfter DEF S
<1>3. Kept(r, s, H_XY(r, q), H_XY(s, q))
  BY PartsKept, SignedAfter DEF H_XY
<1>4. Kept(r, s, H_YZ(r, q), H_YZ(s, q))
  BY PartsKept, SignedAfter DEF H_YZ
<1>5. Kept(r, s, SQRT_Y(r, q), SQRT_Y(s, q))
  BY PartsKept, SignedAfter DEF SQRT_Y
<1>6. Kept(r, s, SQRT_Y_DAG(r, q), SQRT_Y_DAG(s, q))
  BY PartsKept, SignedAfter DEF SQRT_Y_DAG
<1>7. Kept(r, s, X(r, q), X(s, q))
  BY SignedKept DEF X
<1>8. Kept(r, s, Z(r, q), Z(s, q))
  BY SignedKept DEF Z
<1> QED
  BY <1>1, <1>2, <1>3, <1>4, <1>5, <1>6, <1>7, <1>8

\* The gates of one qubit that are sequences of these.
LEMMA SequencesKept ==
  ASSUME NEW r \in Row, NEW s \in Row, NEW q \in Qubits
  PROVE  /\ Kept(r, s, S_DAG(r, q), S_DAG(s, q))
         /\ Kept(r, s, Y(r, q), Y(s, q))
         /\ Kept(r, s, SQRT_X(r, q), SQRT_X(s, q))
         /\ Kept(r, s, SQRT_X_DAG(r, q), SQRT_X_DAG(s, q))
         /\ Kept(r, s, C_XYZ(r, q), C_XYZ(s, q))
         /\ Kept(r, s, C_ZYX(r, q), C_ZYX(s, q))
<1> USE OwnGatesKept, KeptThen
<1>1. \A t, u, t2, u2 : Kept(t, u, t2, u2) => t2 \in Row /\ u2 \in Row
  BY DEF Kept
<1>2. ASSUME NEW t \in Row, NEW u \in Row PROVE Kept(t, u, S_DAG(t, q), S_DAG(u, q))
  <2>1. Kept(t, u, S(S(t, q), q), S(S(u, q), q))
    BY <1>1
  <2> QED
    BY <1>1, <2>1 DEF S_DAG
<1>3. Kept(r, s, Y(r, q), Y(s, q))
  BY <1>1 DEF Y
<1>4. Kept(r, s, SQRT_X(r, q), SQRT_X(s, q))
  <2>1. Kept(r, s, S(H(r, q), q), S(H(s, q), q))
    BY <1>1
  <2> QED
    BY <1>1, <2>1 DEF SQRT_X
<1>5. Kept(r, s, SQRT_X_DAG(r, q), SQRT_X_DAG(s, q))
  <2>1. Kept(r, s, S_DAG(H(r, q), q), S_DAG(H(s, q), q))
    BY <1>1, <1>2
  <2> QED
    BY <1>1, <2>1 DEF SQRT_X_DAG
<1>6. Kept(r, s, C_XYZ(r, q), C_XYZ(s, q))
  BY <1>1, <1>2 DEF C_XYZ
<1>7. Kept(r, s, C_ZYX(r, q), C_ZYX(s, q))
  BY <1>1 DEF C_ZYX
<1> QED
  BY <1>2, <1>3, <1>4, <1>5, <1>6, <1>7

\* A gate of one qubit keeps which rows anticommute, and which signs are imaginary.
LEMMA GateKept ==
  ASSUME NEW r \in Row, NEW s \in Row, NEW q \in Qubits, NEW name \in OneQubitGates
  PROVE  Kept(r, s, Gate1(name, r, q), Gate1(name, s, q))
<1> USE OwnGatesKept, SequencesKept
<1>1. /\ Kept(r, s, r, s)
      /\ \A t, u, t2, u2 : Kept(t, u, t2, u2) => t2 \in Row /\ u2 \in Row
  BY DEF Kept
<1>2. ASSUME NEW t, NEW u, Kept(r, s, t, u)
      PROVE  /\ Kept(r, s, X(t, q), X(u, q))
             /\ Kept(r, s, Y(t, q), Y(u, q))
             /\ Kept(r, s, Z(t, q), Z(u, q))
  BY <1>1, <1>2, KeptThen
<1>3. CASE name = "I"
  BY <1>3, <1>1 DEF Gate1
<1>4. CASE name = "X"
  BY <1>4, <1>1 DEF Gate1
<1>5. CASE name = "Y"
  BY <1>5, <1>1 DEF Gate1
<1>6. CASE name = "Z"
  BY <1>6, <1>1 DEF Gate1
<1>7. CASE name = "H"
  BY <1>7, <1>1 DEF Gate1
<1>8. CASE name = "S"
  BY <1>8, <1>1 DEF Gate1
<1>9. CASE name = "S_DAG"
  BY <1>9, <1>1 DEF Gate1
<1>10. CASE name = "SQRT_X"
  BY <1>10, <1>1 DEF Gate1
<1>11. CASE name = "SQRT_X_DAG"
  BY <1>11, <1>1 DEF Gate1
<1>12. CASE name = "SQRT_Y"
  BY <1>12, <1>1 DEF Gate1
<1>13. CASE name = "SQRT_Y_DAG"
  BY <1>13, <1>1 DEF Gate1
<1>14. CASE name = "H_XY"
  BY <1>14, <1>1 DEF Gate1
<1>15. CASE name = "H_YZ"
  BY <1>15, <1>1 DEF Gate1
<1>16. CASE name = "H_NXY"
  BY <1>16, <1>1, <1>2 DEF Gate1
<1>17. CASE name = "H_NXZ"
  BY <1>17, <1>1, <1>2 DEF Gate1
<1>18. CASE name = "H_NYZ"
  BY <1>18, <1>1, <1>2 DEF Gate1
<1>19. CASE name = "C_XYZ"
  BY <1>19, <1>1 DEF Gate1
<1>20. CASE name = "C_NXYZ"
  BY <1>20, <1>1, <1>2 DEF Gate1
<1>21. CASE name = "C_XNYZ"
  BY <1>21, <1>1, <1>2 DEF Gate1
<1>22. CASE name = "C_XYNZ"
  BY <1>22, <1>1, <1>2 DEF Gate1
<1>23. CASE name = "C_ZYX"
  BY <1>23, <1>1 DEF Gate1
<1>24. CASE name = "C_NZYX"
  BY <1>24, <1>1, <1>2 DEF Gate1
<1>25. CASE name = "C_ZNYX"
  BY <1>25, <1>1, <1>2 DEF Gate1
<1>26. CASE name = "C_ZYNX"
  BY <1>26, <1>1, <1>2 DEF Gate1
<1> QED
  BY <1>3, <1>4, <1>5, <1>6, <1>7, <1>8, <1>9, <1>10, <1>11, <1>12, <1>13, <1>14, <1>15, <1>16,
     <1>17, <1>18, <1>19, <1>20, <1>21, <1>22, <1>23, <1>24, <1>25, <1>26 DEF OneQubitGates

\* The gates of two qubits that others are made of.
LEMMA PairGatesKept ==
  ASSUME NEW r \in Row, NEW s \in Row, NEW a \in Qubits, NEW b \in Qubits, a # b
  PROVE  /\ Kept(r, s, CX(r, a, b), CX(s, a, b))
         /\ Kept(r, s, CZ(r, a, b), CZ(s, a, b))
         /\ Kept(r, s, CY(r, a, b), CY(s, a, b))
<1>1. \A t, u, t2, u2 : Kept(t, u, t2, u2) => t2 \in Row /\ u2 \in Row
  BY DEF Kept
<1>2. ASSUME NEW t \in Row, NEW u \in Row PROVE Kept(t, u, CX(t, a, b), CX(u, a, b))
  BY PairPartsKept, SignedAfter DEF CX, Crossed
<1>3. Kept(r, s, CZ(r, a, b), CZ(s, a, b))
  <2>1. Kept(r, s, H(r, b), H(s, b))
    BY OwnGatesKept
  <2>2. Kept(r, s, CX(H(r, b), a, b), CX(H(s, b), a, b))
    BY <1>1, <1>2, <2>1, KeptThen
  <2> QED
    BY <1>1, <2>2, OwnGatesKept, KeptThen DEF CZ
<1>4. Kept(r, s, CY(r, a, b), CY(s, a, b))
  <2>1. Kept(r, s, S_DAG(r, b), S_DAG(s, b))
    BY SequencesKept
  <2>2. Kept(r, s, CX(S_DAG(r, b), a, b), CX(S_DAG(s, b), a, b))
    BY <1>1, <1>2, <2>1, KeptThen
  <2> QED
    BY <1>1, <2>2, OwnGatesKept, KeptThen DEF CY
<1> QED
  BY <1>2, <1>3, <1>4

\* The gates of two qubits that are one of these in another basis.
LEMMA RotatedPairsKept ==
  ASSUME NEW r \in Row, NEW s \in Row, NEW a \in Qubits, NEW b \in Qubits, a # b
  PROVE  /\ Kept(r, s, XCX(r, a, b), XCX(s, a, b))
         /\ Kept(r, s, XCY(r, a, b), XCY(s, a, b))
         /\ Kept(r, s, YCX(r, a, b), YCX(s, a, b))
         /\ Kept(r, s, YCY(r, a, b), YCY(s, a, b))
<1>1. \A t, u, t2, u2 : Kept(t, u, t2, u2) => t2 \in Row /\ u2 \in Row
  BY DEF Kept
<1>2. ASSUME NEW t, NEW u, Kept(r, s, t, u), NEW q \in Qubits
      PROVE  Kept(r, s, H(t, q), H(u, q)) /\ Kept(r, s, H_YZ(t, q), H_YZ(u, q))
  BY <1>1, <1>2, OwnGatesKept, KeptThen
<1>3. ASSUME NEW t, NEW u, Kept(r, s, t, u)
      PROVE  /\ Kept(r, s, CX(t, a, b), CX(u, a, b))
             /\ Kept(r, s, CX(t, b, a), CX(u, b, a))
             /\ Kept(r, s, CZ(t, a, b), CZ(u, a, b))
  BY <1>1, <1>3, PairGatesKept, KeptThen
<1>4. Kept(r, s, r, s)
  BY DEF Kept
<1>5. Kept(r, s, XCX(r, a, b), XCX(s, a, b))
  BY <1>2, <1>3, <1>4 DEF XCX
<1>6. Kept(r, s, XCY(r, a, b), XCY(s, a, b))
  BY <1>2, <1>3, <1>4 DEF XCY
<1>7. Kept(r, s, YCX(r, a, b), YCX(s, a, b))
  BY <1>2, <1>3, <1>4 DEF YCX
<1>8. Kept(r, s, YCY(r, a, b), YCY(s, a, b))
  <2> DEFINE t == H_YZ(H_YZ(r, a), b)
             u == H_YZ(H_YZ(s, a), b)
  <2>1. Kept(r, s, t, u)
    BY <1>2, <1>4
  <2> HIDE DEF t, u
  <2>2. Kept(r, s, CZ(t, a, b), CZ(u, a, b))
    BY <1>3, <2>1
  <2>3. Kept(r, s, H_YZ(CZ(t, a, b), b), H_YZ(CZ(u, a, b), b))
    BY <1>2, <2>2
  <2>4. Kept(r, s, H_YZ(H_YZ(CZ(t, a, b), b), a), H_YZ(H_YZ(CZ(u, a, b), b), a))
    BY <1>2, <2>3
  <2> QED
    BY <2>4 DEF YCY, t, u
<1> QED
  BY <1>5, <1>6, <1>7, <1>8

\* A gate of two qubits keeps which rows anticommute, and which signs are imaginary.
LEMMA PairGateKept ==
  ASSUME NEW r \in Row, NEW s \in Row, NEW a \in Qubits, NEW b \in Qubits, a # b,
         NEW name \in TwoQubitGates
  PROVE  Kept(r, s, Gate2(name, r, a, b), Gate2(name, s, a, b))
<1>1. /\ Kept(r, s, r, s)
      /\ \A t, u, t2, u2 : Kept(t, u, t2, u2) => t2 \in Row /\ u2 \in Row
  BY DEF Kept
<1>2. ASSUME NEW t, NEW u, Kept(r, s, t, u)
      PROVE  /\ Kept(r, s, CX(t, a, b), CX(u, a, b)) /\ Kept(r, s, CX(t, b, a), CX(u, b, a))
             /\ Kept(r, s, CY(t, a, b), CY(u, a, b)) /\ Kept(r, s, CY(t, b, a), CY(u, b, a))
             /\ Kept(r, s, CZ(t, a, b), CZ(u, a, b))
  BY <1>1, <1>2, PairGatesKept, KeptThen
<1>3. ASSUME NEW t, NEW u, Kept(r, s, t, u)
      PROVE  Kept(r, s, SWAP(t, a, b), SWAP(u, a, b))
  BY <1>1, <1>3, PairPartsKept, KeptThen
<1>4. ASSUME NEW t, NEW u, Kept(r, s, t, u), NEW q \in Qubits
      PROVE  Kept(r, s, S(t, q), S(u, q)) /\ Kept(r, s, S_DAG(t, q), S_DAG(u, q))
  BY <1>1, <1>4, OwnGatesKept, SequencesKept, KeptThen
<1>5. CASE name = "CX"
  BY <1>5, <1>1, <1>2 DEF Gate2
<1>6. CASE name = "CY"
  BY <1>6, <1>1, <1>2 DEF Gate2
<1>7. CASE name = "CZ"
  BY <1>7, <1>1, <1>2 DEF Gate2
<1>8. CASE name = "XCX"
  BY <1>8, RotatedPairsKept DEF Gate2
<1>9. CASE name = "XCY"
  BY <1>9, RotatedPairsKept DEF Gate2
<1>10. CASE name = "XCZ"
  BY <1>10, <1>1, <1>2 DEF Gate2
<1>11. CASE name = "YCX"
  BY <1>11, RotatedPairsKept DEF Gate2
<1>12. CASE name = "YCY"
  BY <1>12, RotatedPairsKept DEF Gate2
<1>13. CASE name = "YCZ"
  BY <1>13, <1>1, <1>2 DEF Gate2
<1>14. CASE name = "SWAP"
  BY <1>14, <1>1, <1>2, <1>3 DEF Gate2
<1>15. CASE name = "ISWAP"
  BY <1>15, <1>1, <1>4, <1>2, <1>3 DEF Gate2
<1>16. CASE name = "ISWAP_DAG"
  BY <1>16, <1>1, <1>4, <1>2, <1>3 DEF Gate2
<1>17. CASE name = "CXSWAP"
  BY <1>17, <1>1, <1>2 DEF Gate2
<1>18. CASE name = "SWAPCX"
  BY <1>18, <1>1, <1>2 DEF Gate2
<1>19. CASE name = "CZSWAP"
  BY <1>19, <1>1, <1>2, <1>3 DEF Gate2
<1> QED
  BY <1>5, <1>6, <1>7, <1>8, <1>9, <1>10, <1>11, <1>12, <1>13, <1>14, <1>15, <1>16, <1>17, <1>18,
     <1>19 DEF TwoQubitGates

(***************************************************************************)
(* Tableaux.                                                               *)
(***************************************************************************)

\* The rows, by their numbers.
LEMMA RowNumbers ==
  /\ NumQubits \in Nat \ {0}
  /\ \A i \in Rows : i \in Int
  /\ \A i : i \in Rows <=> i \in Nat /\ i < 2 * NumQubits
  /\ \A i : i \in Stabilizers <=> i \in Nat /\ NumQubits <= i /\ i < 2 * NumQubits
  /\ \A i \in Stabilizers : i \in Rows /\ i - NumQubits \in Rows /\ i - NumQubits \notin Stabilizers
  /\ \A q \in Qubits : q \in Nat /\ q < NumQubits
BY NumQubitsIsPositive DEF Rows, Stabilizers, Qubits

\* A sign is real if it is even.
LEMMA RealSigns == \A r \in Row : r.phase \in {0, 2} <=> r.phase % 2 = 0
<1>1. \A k \in {0, 1, 2, 3} : k \in {0, 2} <=> k % 2 = 0
  OBVIOUS
<1> QED
  BY <1>1 DEF Row

\* What keeps any two rows keeps a tableau.
LEMMA TableauCarried ==
  ASSUME NEW tab, IsTableau(tab), NEW tab2, tab2 = [i \in Rows |-> tab2[i]],
         \A i, j \in Rows : Kept(tab[i], tab[j], tab2[i], tab2[j])
  PROVE  IsTableau(tab2)
<1>1. tab2 \in [Rows -> Row]
  BY DEF Kept
<1>2. \A i, j \in Rows : Anticommute(tab2[i], tab2[j]) <=> (i - j \in {NumQubits, -NumQubits})
  BY DEF Kept, IsTableau
<1>3. \A i \in Stabilizers : tab2[i].phase \in {0, 2}
  <2> SUFFICES ASSUME NEW i \in Stabilizers PROVE tab2[i].phase \in {0, 2}
    OBVIOUS
  <2>1. i \in Rows
    BY RowNumbers
  <2>2. tab[i] \in Row /\ tab2[i] \in Row /\ tab[i].phase % 2 = 0
    BY <1>1, <2>1, RealSigns DEF IsTableau
  <2>3. tab2[i].phase % 2 = 0
    BY <2>1, <2>2 DEF Kept
  <2> QED
    BY <2>2, <2>3, RealSigns
<1> QED
  BY <1>1, <1>2, <1>3 DEF IsTableau

\* Whatever the gate, a tableau stays one: a gate of one qubit.
THEOREM GatesKeepTableaux ==
  ASSUME NEW tab, IsTableau(tab), NEW q \in Qubits, NEW name \in OneQubitGates
  PROVE  IsTableau(Conjugated(tab, LAMBDA r : Gate1(name, r, q)))
<1> DEFINE tab2 == [i \in Rows |-> Gate1(name, tab[i], q)]
<1>1. \A i, j \in Rows : Kept(tab[i], tab[j], tab2[i], tab2[j])
  BY GateKept DEF IsTableau
<1>2. tab2 = [i \in Rows |-> tab2[i]]
  OBVIOUS
<1> HIDE DEF tab2
<1>3. IsTableau(tab2)
  BY <1>1, <1>2, TableauCarried
<1> QED
  BY <1>3 DEF Conjugated, tab2

\* A gate of two qubits keeps a tableau, too.
THEOREM PairGatesKeepTableaux ==
  ASSUME NEW tab, IsTableau(tab), NEW a \in Qubits, NEW b \in Qubits, a # b,
         NEW name \in TwoQubitGates
  PROVE  IsTableau(Conjugated(tab, LAMBDA r : Gate2(name, r, a, b)))
<1> DEFINE tab2 == [i \in Rows |-> Gate2(name, tab[i], a, b)]
<1>1. \A i, j \in Rows : Kept(tab[i], tab[j], tab2[i], tab2[j])
  BY PairGateKept DEF IsTableau
<1>2. tab2 = [i \in Rows |-> tab2[i]]
  OBVIOUS
<1> HIDE DEF tab2
<1>3. IsTableau(tab2)
  BY <1>1, <1>2, TableauCarried
<1> QED
  BY <1>3 DEF Conjugated, tab2

\* A Z with a sign anticommutes with what has an X on its qubit.
LEMMA SignedZ ==
  ASSUME NEW q \in Qubits, NEW bit
  PROVE  /\ Signed(ZOn(q), bit) \in Row
         /\ Signed(ZOn(q), bit).phase \in {0, 2}
         /\ \A r \in Row : Anticommute(Signed(ZOn(q), bit), r) <=> q \in r.x
<1> DEFINE s == Signed(ZOn(q), bit)
<1>1. s.x = {} /\ s.z = {q} /\ s.phase \in {0, 2} /\ s \in Row
  <2>1. ZOn(q) = [x |-> {}, z |-> {q}, phase |-> 0]
    BY DEF ZOn, Row0
  <2>2. ZOn(q) \in Row /\ ZOn(q).x = {} /\ ZOn(q).z = {q} /\ ZOn(q).phase = 0
    BY <2>1 DEF Row
  <2> QED
    BY <2>2 DEF Signed, Row
<1> HIDE DEF s
<1>2. ASSUME NEW r \in Row PROVE Anticommute(s, r) <=> q \in r.x
  <2>1. CASE q \in r.x
    <3>1. Clash(s, r) = {q}
      BY <1>1, <2>1 DEF Clash, SymDiff
    <3>2. Cardinality({q}) = 1
      BY FS_Singleton
    <3>3. Odd({q})
      BY <3>2 DEF Odd
    <3> QED
      BY <1>1, <2>1, <3>1, <3>3, AnticommuteIs
  <2>2. CASE q \notin r.x
    BY <1>1, <2>2, FS_EmptySet, AnticommuteIs DEF Clash, SymDiff, Odd
  <2> QED
    BY <2>1, <2>2
<1> QED
  BY <1>1, <1>2 DEF s

\* A random measurement: the row p that anticommutes with Z gives way to Z with its sign, its
\* destabilizer becomes what it was, and the other rows that anticommute with Z are multiplied by it.
THEOREM CollapseKeepsTableaux ==
  ASSUME NEW tab, IsTableau(tab), NEW p \in Stabilizers, NEW q \in Qubits, q \in tab[p].x, NEW bit
  PROVE  IsTableau(Collapse(tab, p, q, bit))
<1> DEFINE d == p - NumQubits
           new == Collapse(tab, p, q, bit)
           sign == Signed(ZOn(q), bit)
           Others == Rows \ {p, d}
           Opposite(i, j) == i - j \in {NumQubits, -NumQubits}
<1>1. /\ p \in Rows /\ d \in Rows /\ d # p /\ d \notin Stabilizers
      /\ p = d + NumQubits /\ p \in Int /\ d \in Int /\ p >= NumQubits
  BY RowNumbers
<1>2. /\ \A i \in Rows : tab[i] \in Row
      /\ \A i, j \in Rows : Anticommute(tab[i], tab[j]) <=> Opposite(i, j)
      /\ \A i \in Stabilizers : tab[i].phase % 2 = 0
  BY RowNumbers, RealSigns DEF IsTableau
<1>3. /\ \A i \in Rows : i \in Int
      /\ Opposite(p, d) /\ Opposite(d, p) /\ ~Opposite(p, p) /\ ~Opposite(d, d)
      /\ \A i \in Others : ~Opposite(p, i) /\ ~Opposite(i, p) /\ ~Opposite(d, i) /\ ~Opposite(i, d)
      /\ \A i, j \in Others : Opposite(i, j) <=> Opposite(j, i)
  BY <1>1, RowNumbers
<1>4. /\ sign \in Row /\ sign.phase % 2 = 0
      /\ \A r \in Row : Anticommute(sign, r) <=> q \in r.x
  BY SignedZ, RealSigns
<1>5. /\ new = [i \in Rows |-> new[i]]
      /\ new[p] = sign
      /\ new[d] = tab[p]
      /\ \A i \in Others : new[i] = IF q \in tab[i].x THEN RowMult(tab[i], tab[p]) ELSE tab[i]
  BY <1>1 DEF Collapse
<1> HIDE DEF new, sign, Opposite, d
<1>6. \A i \in Others : ~Anticommute(tab[i], tab[p]) /\ ~Anticommute(tab[p], tab[i])
  BY <1>1, <1>2, <1>3
<1>7. ASSUME NEW i \in Others
      PROVE  /\ new[i] \in Row /\ q \notin new[i].x
             /\ \A r \in Row : Anticommute(new[i], r)
                                 <=> IF q \in tab[i].x
                                     THEN ~(Anticommute(tab[i], r) <=> Anticommute(tab[p], r))
                                     ELSE Anticommute(tab[i], r)
             /\ i \in Stabilizers => new[i].phase % 2 = 0
  <2>1. tab[i] \in Row /\ tab[p] \in Row
    BY <1>1, <1>2
  <2>2. CASE q \in tab[i].x
    <3>1. new[i] = RowMult(tab[i], tab[p])
      BY <1>5, <2>2
    <3>2. /\ new[i] \in Row
          /\ \A r \in Row : Anticommute(new[i], r)
                              <=> ~(Anticommute(tab[i], r) <=> Anticommute(tab[p], r))
          /\ tab[i].phase % 2 = 0 /\ tab[p].phase % 2 = 0 /\ ~Anticommute(tab[i], tab[p])
               => new[i].phase % 2 = 0
      <4> DEFINE r == tab[i]
                 s == tab[p]
      <4>1. r \in Row /\ s \in Row /\ new[i] = RowMult(r, s)
        BY <2>1, <3>1
      <4> HIDE DEF r, s
      <4> DEFINE m == RowMult(r, s)
      <4>2. /\ m \in Row
            /\ \A t \in Row : Anticommute(m, t) <=> ~(Anticommute(r, t) <=> Anticommute(s, t))
            /\ r.phase % 2 = 0 /\ s.phase % 2 = 0 /\ ~Anticommute(r, s) => m.phase % 2 = 0
        BY <4>1, RowMultIs
      <4> HIDE DEF m
      <4>3. new[i] = m
        BY <4>1 DEF m
      <4> QED
        BY <4>2, <4>3 DEF r, s
    <3>3. q \notin new[i].x
      BY <3>1, <2>2 DEF RowMult, SymDiff
    <3> QED
      BY <1>2, <1>6, <2>2, <3>2, <3>3
  <2>3. CASE q \notin tab[i].x
    BY <1>2, <1>5, <2>1, <2>3
  <2> QED
    BY <2>2, <2>3
<1>8. new \in [Rows -> Row]
  BY <1>1, <1>2, <1>4, <1>5, <1>7
<1>9. \A i \in Others : ~Anticommute(tab[p], new[i]) /\ ~Anticommute(new[i], tab[p])
  BY <1>1, <1>2, <1>6, <1>7, AnticommuteSymmetric
<1>10. \A i \in Others : ~Anticommute(sign, new[i]) /\ ~Anticommute(new[i], sign)
  BY <1>4, <1>7, AnticommuteSymmetric
<1>11. ASSUME NEW i \in Others, NEW j \in Others
       PROVE  Anticommute(new[i], new[j]) <=> Opposite(i, j)
  BY <1>7, <1>9, <1>2, AnticommuteSymmetric, <1>6, <1>3
<1>12. ASSUME NEW i \in Rows, NEW j \in Rows
       PROVE  Anticommute(new[i], new[j]) <=> Opposite(i, j)
  BY <1>1, <1>2, <1>4, AnticommuteSymmetric, <1>11, <1>3, <1>5, <1>9, <1>10
<1>13. \A i \in Stabilizers : new[i].phase \in {0, 2}
  <2> SUFFICES ASSUME NEW i \in Stabilizers PROVE new[i].phase \in {0, 2}
    OBVIOUS
  <2>1. i \in Rows /\ (i = p \/ i \in Others)
    BY <1>1, RowNumbers
  <2>2. new[i].phase % 2 = 0
    BY <1>4, <1>5, <1>7, <2>1
  <2> QED
    BY <1>8, <2>1, <2>2, RealSigns
<1>14. IsTableau(new)
  BY <1>8, <1>12, <1>13 DEF IsTableau, Opposite
<1> QED
  BY <1>14 DEF new

(***************************************************************************)
(* Sequences folded from the left.                                         *)
(***************************************************************************)

\* The last place of a set of places.
LEMMA LastPlace ==
  ASSUME NEW n \in Nat, NEW A \in SUBSET (1 .. n), A # {}
  PROVE  Max(A) \in A
<1> DEFINE B == {n - x : x \in A}
<1>1. \A x \in A : x \in Nat /\ n - x \in Nat
  OBVIOUS
<1>2. B \in SUBSET Nat /\ B # {}
  BY <1>1
<1>3. PICK y \in B : \A z \in B : y <= z
  BY <1>2, LeastNatural
<1>4. PICK x \in A : y = n - x
  BY <1>3
<1>5. ASSUME NEW z \in A PROVE x >= z
  <2>1. n - z \in B
    OBVIOUS
  <2>2. n - x <= n - z
    BY <1>3, <1>4, <2>1
  <2> QED
    BY <1>1, <2>2
<1> QED
  BY <1>5 DEF Max

\* There are folds from the left.
LEMMA FoldLeftExists ==
  ASSUME NEW n \in Nat, NEW V, NEW base \in V, NEW step \in [1 .. n -> [V -> V]]
  PROVE  \E f : Folds(f, 1 .. n, V, base, LastOf(n), step)
<1>1. IsFiniteSet(1 .. n)
  BY FS_Interval
<1>2. \A A \in SUBSET (1 .. n) : A # {} => LastOf(n)[A] \in A
  BY LastPlace DEF LastOf
<1> QED
  BY <1>1, <1>2, FoldExists

\* It is the same function.
LEMMA FoldLeftUnique ==
  ASSUME NEW n \in Nat, NEW f, NEW g, GoesOnAs(f, g, n)
  PROVE  g[1 .. n] = f[1 .. n]
<1> DEFINE P == {A \in SUBSET (1 .. n) : g[A] = f[A]}
<1>1. {} \in P
  BY DEF GoesOnAs
<1>2. ASSUME NEW A \in SUBSET (1 .. n), A # {}, \A x \in A : A \ {x} \in P
      PROVE  A \in P
  BY <1>2, LastPlace DEF GoesOnAs
<1> HIDE DEF P
<1>3. IsFiniteSet(1 .. n)
  BY FS_Interval
<1>4. \A A \in SUBSET (1 .. n) : A \in P
  BY <1>1, <1>2, <1>3, SubsetInduction
<1> QED
  BY <1>4 DEF P

\* They are a fold.
LEMMA TermsFolded ==
  ASSUME NEW terms \in Seq(Qubits \X Bases), NEW r \in Row
  PROVE  \E f :
           /\ Folds(f, 1 .. Len(terms), Row, r, LastOf(Len(terms)), TermSteps(terms))
           /\ FoldLeft(TermBasis, r, terms) = f[1 .. Len(terms)]
<1> DEFINE n == Len(terms)
           step == TermSteps(terms)
           Is(g) == g = [A \in SUBSET (1 .. n) |->
                           IF A = {} THEN r
                           ELSE LET x == Max(A) IN TermBasis(g[A \ {x}], terms[x])]
           it == CHOOSE g : Is(g)
<1>1. n \in Nat /\ DOMAIN terms = 1 .. n
  OBVIOUS
<1>2. \A i \in 1 .. n, t \in Row : TermBasis(t, terms[i]) \in Row
  <2> SUFFICES ASSUME NEW i \in 1 .. n, NEW t \in Row PROVE TermBasis(t, terms[i]) \in Row
    OBVIOUS
  <2>1. terms[i][1] \in Qubits /\ terms[i][2] \in Bases
    OBVIOUS
  <2>2. H(t, terms[i][1]) \in Row /\ H_YZ(t, terms[i][1]) \in Row
    BY <2>1, OwnGatesKept DEF Kept
  <2> QED
    BY <2>1, <2>2 DEF TermBasis, Bases
<1>3. step \in [1 .. n -> [Row -> Row]]
      /\ \A i \in 1 .. n, t \in Row : step[i][t] = TermBasis(t, terms[i])
  BY <1>2 DEF TermSteps
<1>4. FoldLeft(TermBasis, r, terms) = it[1 .. n]
  BY <1>1 DEF FoldLeft, MapThenFoldSet
<1> HIDE DEF n, step
<1>5. PICK f : Folds(f, 1 .. n, Row, r, LastOf(n), step)
  BY <1>1, <1>3, FoldLeftExists
<1>6. /\ f \in [SUBSET (1 .. n) -> Row]
      /\ \A A \in SUBSET (1 .. n) :
           f[A] = IF A = {} THEN r ELSE TermBasis(f[A \ {Max(A)}], terms[Max(A)])
  <2>1. f \in [SUBSET (1 .. n) -> Row]
    BY <1>5 DEF Folds
  <2>2. ASSUME NEW A \in SUBSET (1 .. n)
        PROVE  f[A] = IF A = {} THEN r ELSE TermBasis(f[A \ {Max(A)}], terms[Max(A)])
    BY <1>5, <1>1, LastPlace, <1>3, <2>1 DEF Folds, LastOf
  <2> QED
    BY <2>1, <2>2
<1>7. Is(f)
  BY <1>6
<1>8. Is(it)
  <2> HIDE DEF Is
  <2> QED
    BY <1>7
<1> HIDE DEF it
<1>9. it[1 .. n] = f[1 .. n]
  <2>1. GoesOnAs(f, it, n)
    BY <1>6, <1>8 DEF GoesOnAs
  <2> QED
    BY <1>1, <2>1, FoldLeftUnique
<1> QED
  BY <1>4, <1>5, <1>9 DEF n, step

\* They are a fold.
LEMMA CrossingsFolded ==
  ASSUME NEW terms \in Seq(Qubits \X Bases), NEW r \in Row, NEW anchor \in Qubits,
         Aside(terms, anchor)
  PROVE  \E f :
           /\ Folds(f, 1 .. Len(terms), Row, r, LastOf(Len(terms)), CrossingSteps(terms, anchor))
           /\ Crossings(r, terms, anchor) = f[1 .. Len(terms)]
<1> DEFINE n == Len(terms)
           step == CrossingSteps(terms, anchor)
           Is(g) == g = [A \in SUBSET (1 .. n) |->
                           IF A = {} THEN r
                           ELSE LET x == Max(A) IN CX(g[A \ {x}], terms[x][1], anchor)]
           it == CHOOSE g : Is(g)
<1>1. n \in Nat /\ DOMAIN terms = 1 .. n
  OBVIOUS
<1>2. \A i \in 1 .. n, t \in Row : CX(t, terms[i][1], anchor) \in Row
  <2> SUFFICES ASSUME NEW i \in 1 .. n, NEW t \in Row PROVE CX(t, terms[i][1], anchor) \in Row
    OBVIOUS
  <2>1. terms[i][1] \in Qubits /\ terms[i][1] # anchor
    BY DEF Aside
  <2> QED
    BY <2>1, PairGatesKept DEF Kept
<1>3. step \in [1 .. n -> [Row -> Row]]
      /\ \A i \in 1 .. n, t \in Row : step[i][t] = CX(t, terms[i][1], anchor)
  BY <1>2 DEF CrossingSteps
<1>4. Crossings(r, terms, anchor) = it[1 .. n]
  BY <1>1 DEF Crossings, FoldLeft, MapThenFoldSet
<1> HIDE DEF n, step
<1>5. PICK f : Folds(f, 1 .. n, Row, r, LastOf(n), step)
  BY <1>1, <1>3, FoldLeftExists
<1>6. /\ f \in [SUBSET (1 .. n) -> Row]
      /\ \A A \in SUBSET (1 .. n) :
           f[A] = IF A = {} THEN r ELSE CX(f[A \ {Max(A)}], terms[Max(A)][1], anchor)
  <2>1. f \in [SUBSET (1 .. n) -> Row]
    BY <1>5 DEF Folds
  <2>2. ASSUME NEW A \in SUBSET (1 .. n)
        PROVE  f[A] = IF A = {} THEN r ELSE CX(f[A \ {Max(A)}], terms[Max(A)][1], anchor)
    BY <1>5, <1>1, LastPlace, <1>3, <2>1 DEF Folds, LastOf
  <2> QED
    BY <2>1, <2>2
<1>7. Is(f)
  BY <1>6
<1>8. Is(it)
  <2> HIDE DEF Is
  <2> QED
    BY <1>7
<1> HIDE DEF it
<1>9. it[1 .. n] = f[1 .. n]
  <2>1. GoesOnAs(f, it, n)
    BY <1>6, <1>8 DEF GoesOnAs
  <2> QED
    BY <1>1, <2>1, FoldLeftUnique
<1> QED
  BY <1>4, <1>5, <1>9 DEF n, step

\* Two rows folded by steps that keep rows are kept.
LEMMA FoldsKept ==
  ASSUME NEW n \in Nat, NEW step,
         \A i \in 1 .. n, t, u \in Row : Kept(t, u, step[i][t], step[i][u]),
         NEW r \in Row, NEW f, Folds(f, 1 .. n, Row, r, LastOf(n), step),
         NEW s \in Row, NEW g, Folds(g, 1 .. n, Row, s, LastOf(n), step)
  PROVE  Kept(r, s, f[1 .. n], g[1 .. n])
<1> DEFINE P == {A \in SUBSET (1 .. n) : Kept(r, s, f[A], g[A])}
<1>1. {} \in P
  BY DEF Folds, Kept
<1>2. ASSUME NEW A \in SUBSET (1 .. n), A # {}, \A x \in A : A \ {x} \in P
      PROVE  A \in P
  <2> DEFINE x == Max(A)
             B == A \ {x}
  <2>1. x \in A /\ LastOf(n)[A] = x
    BY <1>2, LastPlace DEF LastOf
  <2>2. f[A] = step[x][f[B]] /\ g[A] = step[x][g[B]]
    BY <1>2, <2>1 DEF Folds
  <2>3. Kept(r, s, f[B], g[B])
    BY <1>2, <2>1
  <2> HIDE DEF x, B
  <2>4. Kept(f[B], g[B], step[x][f[B]], step[x][g[B]])
    BY <2>1, <2>3 DEF Kept
  <2> QED
    BY <2>2, <2>3, <2>4, KeptThen
<1> HIDE DEF P
<1>3. IsFiniteSet(1 .. n)
  BY FS_Interval
<1>4. \A A \in SUBSET (1 .. n) : A \in P
  BY <1>1, <1>2, <1>3, SubsetInduction
<1> QED
  BY <1>4 DEF P

\* Changes of basis keep two rows.
LEMMA TermsKept ==
  ASSUME NEW terms \in Seq(Qubits \X Bases), NEW r \in Row, NEW s \in Row
  PROVE  Kept(r, s, FoldLeft(TermBasis, r, terms), FoldLeft(TermBasis, s, terms))
<1> DEFINE step == TermSteps(terms)
<1>1. ASSUME NEW i \in 1 .. Len(terms), NEW t \in Row, NEW u \in Row
      PROVE  Kept(t, u, step[i][t], step[i][u])
  <2>1. terms[i][1] \in Qubits /\ terms[i][2] \in Bases
    OBVIOUS
  <2>2. Kept(t, u, t, u)
    BY DEF Kept
  <2>3. step[i][t] = TermBasis(t, terms[i]) /\ step[i][u] = TermBasis(u, terms[i])
    BY DEF TermSteps
  <2> HIDE DEF step
  <2>4. Kept(t, u, TermBasis(t, terms[i]), TermBasis(u, terms[i]))
    BY <2>1, <2>2, OwnGatesKept DEF TermBasis, Bases
  <2> QED
    BY <2>3, <2>4
<1> HIDE DEF step
<1>2. PICK f : /\ Folds(f, 1 .. Len(terms), Row, r, LastOf(Len(terms)), step)
               /\ FoldLeft(TermBasis, r, terms) = f[1 .. Len(terms)]
  BY TermsFolded DEF step
<1>3. PICK g : /\ Folds(g, 1 .. Len(terms), Row, s, LastOf(Len(terms)), step)
               /\ FoldLeft(TermBasis, s, terms) = g[1 .. Len(terms)]
  BY TermsFolded DEF step
<1>4. Len(terms) \in Nat
  OBVIOUS
<1> QED
  BY <1>1, <1>2, <1>3, <1>4, FoldsKept

\* So do CX onto an anchor.
LEMMA CrossingsKept ==
  ASSUME NEW terms \in Seq(Qubits \X Bases), NEW r \in Row, NEW s \in Row, NEW anchor \in Qubits,
         Aside(terms, anchor)
  PROVE  Kept(r, s, Crossings(r, terms, anchor), Crossings(s, terms, anchor))
<1> DEFINE step == CrossingSteps(terms, anchor)
<1>1. ASSUME NEW i \in 1 .. Len(terms), NEW t \in Row, NEW u \in Row
      PROVE  Kept(t, u, step[i][t], step[i][u])
  <2>1. terms[i][1] \in Qubits /\ terms[i][1] # anchor
    BY DEF Aside
  <2>2. step[i][t] = CX(t, terms[i][1], anchor) /\ step[i][u] = CX(u, terms[i][1], anchor)
    BY DEF CrossingSteps
  <2> HIDE DEF step
  <2>3. Kept(t, u, CX(t, terms[i][1], anchor), CX(u, terms[i][1], anchor))
    BY <2>1, PairGatesKept
  <2> QED
    BY <2>2, <2>3
<1> HIDE DEF step
<1>2. PICK f : /\ Folds(f, 1 .. Len(terms), Row, r, LastOf(Len(terms)), step)
               /\ Crossings(r, terms, anchor) = f[1 .. Len(terms)]
  BY CrossingsFolded DEF step
<1>3. PICK g : /\ Folds(g, 1 .. Len(terms), Row, s, LastOf(Len(terms)), step)
               /\ Crossings(s, terms, anchor) = g[1 .. Len(terms)]
  BY CrossingsFolded DEF step
<1>4. Len(terms) \in Nat
  OBVIOUS
<1> QED
  BY <1>1, <1>2, <1>3, <1>4, FoldsKept

\* The parts of a product.
LEMMA ProductParts ==
  ASSUME NEW product \in PauliProducts
  PROVE  /\ product \in Seq(Qubits \X Bases)
         /\ Last(product)[1] \in Qubits
         /\ Front(product) \in Seq(Qubits \X Bases)
         /\ Aside(Front(product), Last(product)[1])
         /\ Reverse(Front(product)) \in Seq(Qubits \X Bases)
         /\ Aside(Reverse(Front(product)), Last(product)[1])
<1> DEFINE n == Len(product)
           front == Front(product)
           back == Reverse(front)
<1>1. /\ product \in Seq(Qubits \X Bases) /\ n \in Nat \ {0}
      /\ \A i, j \in 1 .. n : product[i][1] = product[j][1] => i = j
  BY DEF PauliProducts
<1>2. product[n] \in Qubits \X Bases
  BY <1>1
<1>3. /\ front \in Seq(Qubits \X Bases) /\ Len(front) = n - 1
      /\ \A i \in 1 .. n - 1 : front[i] = product[i]
  <2>1. front = SubSeq(product, 1, n - 1)
    BY DEF Front
  <2> HIDE DEF n, front
  <2>2. n = Len(product) /\ n - 1 \in Nat /\ n - 1 <= Len(product) /\ n - 1 + 1 - 1 = n - 1
    BY <1>1 DEF n
  <2>3. front \in Seq(Qubits \X Bases)
    BY <1>1, <2>1, <2>2
  <2>4. Len(front) = n - 1
    BY <1>1, <2>1, <2>2
  <2>5. \A i \in 1 .. n - 1 : front[i] = product[i]
    BY <1>1, <2>1, <2>2
  <2> QED
    BY <2>3, <2>4, <2>5
<1> HIDE DEF front
<1>4. /\ back \in Seq(Qubits \X Bases) /\ Len(back) = n - 1
      /\ \A i \in 1 .. n - 1 : back[i] = front[(n - 1 - i) + 1]
  BY <1>3, <1>1 DEF Reverse
<1> HIDE DEF back, n
<1>5. ASSUME NEW i \in 1 .. n - 1 PROVE front[i][1] # product[n][1]
  <2>1. i \in 1 .. n /\ n \in 1 .. n /\ i # n
    BY <1>1
  <2> QED
    BY <1>1, <1>3, <2>1
<1>6. ASSUME NEW i \in 1 .. n - 1 PROVE back[i][1] # product[n][1]
  <2>1. (n - 1 - i) + 1 \in 1 .. n - 1
    BY <1>1
  <2> QED
    BY <1>4, <1>5, <2>1
<1>7. Last(product) = product[n]
  BY DEF Last, n
<1>8. Aside(front, product[n][1]) /\ Aside(back, product[n][1])
  BY <1>3, <1>4, <1>5, <1>6 DEF Aside
<1> QED
  BY <1>1, <1>2, <1>3, <1>4, <1>7, <1>8 DEF front, back

\* A product is folded onto its anchor, and unfolded, by what keeps rows.
LEMMA ProductsKept ==
  ASSUME NEW product \in PauliProducts, NEW r \in Row, NEW s \in Row
  PROVE  /\ Kept(r, s, Fold(r, product), Fold(s, product))
         /\ Kept(r, s, Unfold(r, product), Unfold(s, product))
<1> DEFINE Cross(t, terms) == Crossings(t, terms, Last(product)[1])
           Turn(t) == FoldLeft(TermBasis, t, product)
<1>1. \A t, u \in Row : Kept(t, u, Turn(t), Turn(u))
  BY ProductParts, TermsKept
<1>2. \A t, u \in Row : Kept(t, u, Cross(t, Front(product)), Cross(u, Front(product)))
  BY ProductParts, CrossingsKept
<1>3. \A t, u \in Row : Kept(t, u, Cross(t, Reverse(Front(product))), Cross(u, Reverse(Front(product))))
  BY ProductParts, CrossingsKept
<1>4. \A t : /\ Fold(t, product) = Cross(Turn(t), Front(product))
             /\ Unfold(t, product) = Turn(Cross(t, Reverse(Front(product))))
  BY DEF Fold, Unfold, Crossings
<1> HIDE DEF Cross, Turn
<1>5. \A t, u, t2, u2 : Kept(t, u, t2, u2) => t2 \in Row /\ u2 \in Row
  BY DEF Kept
<1>6. Kept(r, s, Cross(Turn(r), Front(product)), Cross(Turn(s), Front(product)))
  BY <1>1, <1>2, <1>5, KeptThen
<1>7. Kept(r, s, Turn(Cross(r, Reverse(Front(product)))), Turn(Cross(s, Reverse(Front(product)))))
  BY <1>1, <1>3, <1>5, KeptThen
<1> QED
  BY <1>4, <1>6, <1>7

(***************************************************************************)
(* Measurements, resets and products.                                      *)
(***************************************************************************)

\* A measurement of Z gives a result and a tableau, or one for each result that may be drawn.
LEMMA MeasureZKeeps ==
  ASSUME NEW tab \in Tableaux, NEW q \in Qubits, NEW coin \in Coins
  PROVE  MeasureZ(tab, q, coin) \in Outcomes
<1> DEFINE A == {i \in Stabilizers : q \in tab[i].x}
<1>1. CASE A = {}
  <2>1. MeasureZ(tab, q, coin) = {<<ZProduct(tab, q).phase = 2, tab>>}
    BY <1>1 DEF MeasureZ
  <2>2. (ZProduct(tab, q).phase = 2) \in BOOLEAN
    OBVIOUS
  <2>3. <<ZProduct(tab, q).phase = 2, tab>> \in BOOLEAN \X Tableaux
    BY <2>2
  <2> QED
    BY <2>1, <2>3 DEF Outcomes
<1>2. CASE A # {}
  <2>1. MeasureZ(tab, q, coin) = {<<bit, Collapse(tab, Min(A), q, bit)>> : bit \in coin}
    BY <1>2 DEF MeasureZ
  <2>2. A \in SUBSET Nat
    BY RowNumbers, NumQubitsIsPositive DEF Stabilizers
  <2> HIDE DEF A
  <2>3. Min(A) \in A
    BY <1>2, <2>2, LeastNatural DEF Min
  <2>4. Min(A) \in Stabilizers /\ q \in tab[Min(A)].x
    BY <2>3 DEF A
  <2> DEFINE p == Min(A)
             new(bit) == Collapse(tab, p, q, bit)
  <2>5. ASSUME NEW bit PROVE new(bit) \in Tableaux
    BY <2>4, CollapseKeepsTableaux DEF Tableaux, IsTableau
  <2>6. MeasureZ(tab, q, coin) = {<<bit, new(bit)>> : bit \in coin}
    BY <2>1
  <2> HIDE DEF new, p
  <2>7. coin # {} /\ \A bit \in coin : <<bit, new(bit)>> \in BOOLEAN \X Tableaux
    BY <2>5 DEF Coins
  <2>8. MeasureZ(tab, q, coin) \in SUBSET (BOOLEAN \X Tableaux)
    BY <2>6, <2>7
  <2>9. MeasureZ(tab, q, coin) # {}
    BY <2>6, <2>7
  <2> QED
    BY <2>8, <2>9 DEF Outcomes
<1> QED
  BY <1>1, <1>2

\* A tableau on which something is done that keeps rows.
LEMMA KeptTableaux ==
  ASSUME NEW tab \in Tableaux, NEW new, new = [i \in Rows |-> new[i]],
         \A i, j \in Rows : Kept(tab[i], tab[j], new[i], new[j])
  PROVE  new \in Tableaux
BY TableauCarried DEF Tableaux, IsTableau

\* A Pauli on a qubit.
LEMMA PaulisKeep ==
  ASSUME NEW tab \in Tableaux, NEW q \in Qubits, NEW pauli \in Bases \cup {"I"}
  PROVE  ApplyPauli(tab, q, pauli) \in Tableaux
<1>1. pauli \in OneQubitGates
  BY DEF Bases, OneQubitGates
<1>2. IsTableau(Conjugated(tab, LAMBDA r : Gate1(pauli, r, q)))
  BY <1>1, GatesKeepTableaux DEF Tableaux
<1> QED
  BY <1>2 DEF ApplyPauli, Tableaux, IsTableau

\* The changes of basis around a measurement.
LEMMA BasesKeep ==
  ASSUME NEW tab \in Tableaux, NEW q \in Qubits, NEW basis \in Bases
  PROVE  Into(tab, q, basis) \in Tableaux /\ Back(tab, q, basis) \in Tableaux
<1>1. /\ Conjugated(tab, LAMBDA r : Gate1("H", r, q)) \in Tableaux
      /\ Conjugated(tab, LAMBDA r : Gate1("C_XYZ", r, q)) \in Tableaux
      /\ Conjugated(tab, LAMBDA r : Gate1("C_ZYX", r, q)) \in Tableaux
  <2>1. {"H", "C_XYZ", "C_ZYX"} \subseteq OneQubitGates
    BY DEF OneQubitGates
  <2>2. ASSUME NEW name \in OneQubitGates
        PROVE  Conjugated(tab, LAMBDA r : Gate1(name, r, q)) \in Tableaux
    <3>1. IsTableau(Conjugated(tab, LAMBDA r : Gate1(name, r, q)))
      BY GatesKeepTableaux DEF Tableaux
    <3> QED
      BY <3>1 DEF Tableaux, IsTableau
  <2> QED
    BY <2>1, <2>2
<1>2. \A r : /\ Gate1("H", r, q) = H(r, q)
             /\ Gate1("C_XYZ", r, q) = H(S_DAG(r, q), q)
             /\ Gate1("C_ZYX", r, q) = S(H(r, q), q)
  BY DEF Gate1, C_XYZ, C_ZYX
<1>3. /\ Into(tab, q, "X") \in Tableaux /\ Back(tab, q, "X") \in Tableaux
      /\ Into(tab, q, "Y") \in Tableaux /\ Back(tab, q, "Y") \in Tableaux
  BY <1>1, <1>2 DEF Into, Back, Conjugated
<1>4. Into(tab, q, "Z") = tab /\ Back(tab, q, "Z") = tab
  BY DEF Into, Back
<1> QED
  BY <1>3, <1>4 DEF Bases

\* Measurements and resets in any basis.
LEMMA MeasurementsKeep ==
  ASSUME NEW tab \in Tableaux, NEW q \in Qubits, NEW basis \in Bases, NEW coin \in Coins
  PROVE  /\ MeasureQubit(tab, q, basis, coin) \in Outcomes
         /\ MeasureResetQubit(tab, q, basis, coin) \in Outcomes
<1> DEFINE M == MeasureZ(Into(tab, q, basis), q, coin)
<1>1. M \in Outcomes
  BY BasesKeep, MeasureZKeeps
<1>2. \A m \in M : m[1] \in BOOLEAN /\ m[2] \in Tableaux
  BY <1>1 DEF Outcomes
<1>3. M # {}
  BY <1>1 DEF Outcomes
<1>4. \A t \in Tableaux : Back(t, q, basis) \in Tableaux
  BY BasesKeep
<1>5. \A t \in Tableaux : ApplyPauli(t, q, "X") \in Tableaux
  BY PaulisKeep DEF Bases
<1>6. MeasureQubit(tab, q, basis, coin) = {<<m[1], Back(m[2], q, basis)>> : m \in M}
  BY DEF MeasureQubit
<1>7. MeasureResetQubit(tab, q, basis, coin)
        = {<<m[1], Back(IF m[1] THEN ApplyPauli(m[2], q, "X") ELSE m[2], q, basis)>> : m \in M}
  BY DEF MeasureResetQubit
<1> HIDE DEF M
<1>8. \A m \in M : <<m[1], Back(m[2], q, basis)>> \in BOOLEAN \X Tableaux
  BY <1>2, <1>4
<1>9. \A m \in M : <<m[1], Back(IF m[1] THEN ApplyPauli(m[2], q, "X") ELSE m[2], q, basis)>>
                     \in BOOLEAN \X Tableaux
  BY <1>2, <1>4, <1>5
<1>10. MeasureQubit(tab, q, basis, coin) \in Outcomes
  BY <1>3, <1>6, <1>8 DEF Outcomes
<1>11. MeasureResetQubit(tab, q, basis, coin) \in Outcomes
  <2>1. MeasureResetQubit(tab, q, basis, coin) \in SUBSET (BOOLEAN \X Tableaux)
    BY <1>7, <1>9
  <2>2. MeasureResetQubit(tab, q, basis, coin) # {}
    BY <1>3, <1>7
  <2> QED
    BY <2>1, <2>2 DEF Outcomes
<1> QED
  BY <1>10, <1>11

\* Products.
LEMMA FoldingsKeep ==
  ASSUME NEW tab \in Tableaux, NEW product \in PauliProducts
  PROVE  /\ Conjugated(tab, LAMBDA r : Fold(r, product)) \in Tableaux
         /\ Conjugated(tab, LAMBDA r : Unfold(r, product)) \in Tableaux
<1> DEFINE into == [i \in Rows |-> Fold(tab[i], product)]
           back == [i \in Rows |-> Unfold(tab[i], product)]
<1>1. \A i \in Rows : tab[i] \in Row
  BY DEF Tableaux
<1>2. \A i, j \in Rows : Kept(tab[i], tab[j], into[i], into[j])
  BY <1>1, ProductsKept
<1>3. \A i, j \in Rows : Kept(tab[i], tab[j], back[i], back[j])
  BY <1>1, ProductsKept
<1>4. into = [i \in Rows |-> into[i]] /\ back = [i \in Rows |-> back[i]]
  OBVIOUS
<1> HIDE DEF into, back
<1>5. into \in Tableaux
  BY <1>2, <1>4, KeptTableaux
<1>6. back \in Tableaux
  BY <1>3, <1>4, KeptTableaux
<1> QED
  BY <1>5, <1>6 DEF Conjugated, into, back

\* The measurement of a product.
LEMMA ProductMeasurementsKeep ==
  ASSUME NEW tab \in Tableaux, NEW product \in PauliProducts, NEW coin \in Coins
  PROVE  MeasureProduct(tab, product, coin) \in Outcomes
<1> DEFINE folded == Conjugated(tab, LAMBDA r : Fold(r, product))
           unfolded(t) == Conjugated(t, LAMBDA r : Unfold(r, product))
           M == MeasureZ(folded, Last(product)[1], coin)
<1>1. folded \in Tableaux
  BY FoldingsKeep
<1>2. \A t \in Tableaux : unfolded(t) \in Tableaux
  BY FoldingsKeep
<1>3. MeasureProduct(tab, product, coin) = {<<m[1], unfolded(m[2])>> : m \in M}
  BY DEF MeasureProduct
<1> HIDE DEF folded, unfolded
<1>4. M \in Outcomes
  BY <1>1, ProductParts, MeasureZKeeps
<1> HIDE DEF M
<1>5. M # {} /\ \A m \in M : m[1] \in BOOLEAN /\ m[2] \in Tableaux
  BY <1>4 DEF Outcomes
<1>6. \A m \in M : <<m[1], unfolded(m[2])>> \in BOOLEAN \X Tableaux
  BY <1>2, <1>5
<1> QED
  BY <1>3, <1>5, <1>6 DEF Outcomes

\* The gate of a product.
LEMMA SppKeeps ==
  ASSUME NEW tab \in Tableaux, NEW product \in PauliProducts, NEW dagger
  PROVE  Spp(tab, product, dagger) \in Tableaux
<1> DEFINE anchor == Last(product)[1]
           Turned(r) == IF dagger THEN S_DAG(r, anchor) ELSE S(r, anchor)
           new == [i \in Rows |-> Unfold(Turned(Fold(tab[i], product)), product)]
<1>1. \A i \in Rows : tab[i] \in Row
  BY DEF Tableaux
<1>2. ASSUME NEW r \in Row, NEW s \in Row
      PROVE  Kept(r, s, Unfold(Turned(Fold(r, product)), product),
                        Unfold(Turned(Fold(s, product)), product))
  <2> DEFINE fr == Fold(r, product)
             fs == Fold(s, product)
  <2>1. Kept(r, s, fr, fs) /\ fr \in Row /\ fs \in Row
    BY ProductsKept DEF Kept
  <2> HIDE DEF fr, fs
  <2>2. anchor \in Qubits
    BY ProductParts
  <2> HIDE DEF anchor
  <2>3. Kept(fr, fs, fr, fs)
    BY <2>1 DEF Kept
  <2>4. Kept(fr, fs, S(fr, anchor), S(fs, anchor)) /\ Kept(fr, fs, S_DAG(fr, anchor), S_DAG(fs, anchor))
    BY <2>1, <2>2, <2>3, OwnGatesKept, SequencesKept
  <2> DEFINE tr == Turned(fr)
             ts == Turned(fs)
  <2>5. Kept(fr, fs, tr, ts)
    BY <2>4
  <2> HIDE DEF tr, ts
  <2>6. tr \in Row /\ ts \in Row
    BY <2>5 DEF Kept
  <2>7. Kept(tr, ts, Unfold(tr, product), Unfold(ts, product))
    BY <2>6, ProductsKept
  <2>8. Kept(r, s, Unfold(tr, product), Unfold(ts, product))
    BY <2>1, <2>5, <2>7, KeptThen
  <2> QED
    BY <2>8 DEF fr, fs, tr, ts
<1>3. Spp(tab, product, dagger) = new
  BY DEF Spp, Conjugated
<1> HIDE DEF Turned
<1>4. \A i, j \in Rows : Kept(tab[i], tab[j], new[i], new[j])
  BY <1>1, <1>2
<1>5. new = [i \in Rows |-> new[i]]
  OBVIOUS
<1> HIDE DEF new
<1> QED
  BY <1>3, <1>4, <1>5, KeptTableaux

\* The tableau of |0...0>.
LEMMA NewTableauIs == NewTableau \in Tableaux
<1> DEFINE x(q) == [Row0 EXCEPT !.x = {q}]
<1>1. ASSUME NEW q \in Qubits
      PROVE  /\ x(q) \in Row /\ x(q).x = {q} /\ x(q).z = {}
             /\ ZOn(q) \in Row /\ ZOn(q).x = {} /\ ZOn(q).z = {q} /\ ZOn(q).phase = 0
  BY DEF Row0, ZOn, Row
<1>2. \A i \in Rows : IF i < NumQubits THEN i \in Qubits /\ i \notin Stabilizers
                       ELSE i - NumQubits \in Qubits /\ i \in Stabilizers
  BY RowNumbers DEF Qubits
<1>3. \A i \in Rows : NewTableau[i] = IF i < NumQubits THEN x(i) ELSE ZOn(i - NumQubits)
  BY DEF NewTableau
<1> HIDE DEF x
<1>4. \A i \in Rows : NewTableau[i] \in Row
  BY <1>1, <1>2, <1>3
<1>5. NewTableau \in [Rows -> Row]
  BY <1>4 DEF NewTableau
<1>6. ASSUME NEW i \in Rows, NEW j \in Rows
      PROVE  Anticommute(NewTableau[i], NewTableau[j]) <=> (i - j \in {NumQubits, -NumQubits})
  <2> DEFINE r == NewTableau[i]
             s == NewTableau[j]
  <2>1. \A q \in Qubits, t \in Row : Anticommute(ZOn(q), t) <=> q \in t.x
    BY SignedZ DEF Signed
  <2>2. r \in Row /\ s \in Row /\ (Anticommute(r, s) <=> Anticommute(s, r))
    BY <1>4, AnticommuteSymmetric
  <2>3. i \in Int /\ j \in Int /\ NumQubits \in Nat \ {0} /\ i >= 0 /\ j >= 0
        /\ i < 2 * NumQubits /\ j < 2 * NumQubits
    BY RowNumbers
  <2>4. CASE i >= NumQubits
    BY <1>2, <1>3, <2>3, <2>4, <2>1, <2>2, <1>1
  <2>5. CASE i < NumQubits /\ j >= NumQubits
    BY <1>2, <1>3, <2>3, <2>5, <2>1, <2>2, <1>1
  <2>6. CASE i < NumQubits /\ j < NumQubits
    <3>1. r.z = {} /\ s.z = {}
      BY <1>1, <1>2, <1>3, <2>6
    <3>2. ~Anticommute(r, s)
      BY <3>1 DEF Anticommute
    <3> QED
      BY <2>3, <2>6, <3>2
  <2> QED
    BY <2>3, <2>4, <2>5, <2>6
<1>7. \A i \in Stabilizers : NewTableau[i].phase \in {0, 2}
  BY RowNumbers, <1>1, <1>3 DEF Qubits
<1> QED
  BY <1>5, <1>6, <1>7 DEF Tableaux, IsTableau

(***************************************************************************)
(* Instructions.                                                           *)
(***************************************************************************)

\* What is known of a valid instruction; without its noise it is one, too.
LEMMA InstructionIs ==
  ASSUME NEW op, Valid(op)
  PROVE  /\ op.name \in InstructionNames /\ op.on \in Seq(Groups(op.name)) /\ op.arg \in Nat
         /\ Valid(Quiet(op)) /\ Quiet(op).name = op.name
<1> DEFINE n == op.name
           D == Seq(Groups(n))
           Set == [name : {n}, on : D, inv : SUBSET Nat, arg : Nat]
<1>1. op \in Set /\ n \in InstructionNames
  BY DEF Valid
<1>2. op.on \in D /\ op.arg \in Nat
  <2> HIDE DEF D
  <2> QED
    BY <1>1
<1>3. [op EXCEPT !.arg = 0] \in Set /\ [op EXCEPT !.arg = 0].name = n
  <2> HIDE DEF D
  <2> QED
    BY <1>1
<1>4. Quiet(op) \in Set /\ Quiet(op).name = n
  <2> HIDE DEF Set
  <2> QED
    BY <1>1, <1>3 DEF Quiet
<1> QED
  BY <1>1, <1>2, <1>4 DEF Valid

\* What noise may do to a result.
LEMMA BitsAre == \A op : Bits(op) \in Coins
  BY DEF Bits, Coins

\* A result recorded.
LEMMA RecordedKeeps ==
  ASSUME NEW shot \in Shots, NEW measured \in Outcomes, NEW inverted \in BOOLEAN, NEW op
  PROVE  Recorded(shot, measured, inverted, op) \in ShotSets
<1> DEFINE new(m, flip) ==
             [shot EXCEPT !.tab = m[2], !.record = Append(@, (m[1] # inverted) # flip),
                          !.clean = @ /\ ~flip]
<1>1. ASSUME NEW m \in measured, NEW flip \in Bits(op) PROVE new(m, flip) \in Shots
  <2>1. m[1] \in BOOLEAN /\ m[2] \in Tableaux /\ flip \in BOOLEAN
    BY BitsAre DEF Outcomes, Coins
  <2>2. ((m[1] # inverted) # flip) \in BOOLEAN /\ (shot.clean /\ ~flip) \in BOOLEAN
    OBVIOUS
  <2> DEFINE b == ((m[1] # inverted) # flip)
             c == (shot.clean /\ ~flip)
  <2>3. Append(shot.record, b) \in Seq(BOOLEAN)
    BY <2>2 DEF Shots
  <2>4. new(m, flip) = [shot EXCEPT !.tab = m[2], !.record = Append(shot.record, b), !.clean = c]
    OBVIOUS
  <2> DEFINE a == Append(shot.record, b)
  <2> HIDE DEF b, c, new, a
  <2> QED
    BY <2>1, <2>2, <2>3, <2>4 DEF Shots, a, c
<1>2. measured # {} /\ Bits(op) # {}
  BY BitsAre DEF Outcomes, Coins
<1>3. Recorded(shot, measured, inverted, op) = {new(m, flip) : m \in measured, flip \in Bits(op)}
  BY DEF Recorded
<1> HIDE DEF new
<1>4. Recorded(shot, measured, inverted, op) \subseteq Shots
  BY <1>1, <1>3
<1>5. Recorded(shot, measured, inverted, op) # {}
  BY <1>2, <1>3
<1> QED
  BY <1>4, <1>5 DEF ShotSets

\* Another tableau in a shot.
LEMMA WithTableau ==
  ASSUME NEW shot \in Shots, NEW tab \in Tableaux
  PROVE  [shot EXCEPT !.tab = tab] \in Shots
  BY DEF Shots

\* Noise on a qubit.
LEMMA DisturbedKeeps ==
  ASSUME NEW shot \in Shots, NEW q \in Qubits, NEW name
  PROVE  Disturbed(shot, q, Paulis(name)) \in ShotSets
<1> DEFINE P == Paulis(name)
           new(pauli) == [shot EXCEPT !.tab = ApplyPauli(@, q, pauli), !.clean = @ /\ pauli = "I"]
<1>1. P \in SUBSET (Bases \cup {"I"}) /\ P # {}
  BY DEF Paulis, Bases
<1> HIDE DEF P
<1>2. ASSUME NEW pauli \in P PROVE new(pauli) \in Shots
  <2>1. shot.tab \in Tableaux
    BY DEF Shots
  <2>2. ApplyPauli(shot.tab, q, pauli) \in Tableaux
    BY <1>1, <2>1, PaulisKeep
  <2>3. (shot.clean /\ pauli = "I") \in BOOLEAN
    OBVIOUS
  <2> DEFINE t == ApplyPauli(shot.tab, q, pauli)
             c == (shot.clean /\ pauli = "I")
  <2>4. new(pauli) = [shot EXCEPT !.tab = t, !.clean = c]
    OBVIOUS
  <2> HIDE DEF t, c, new
  <2> QED
    BY <2>2, <2>3, <2>4 DEF Shots, t, c
<1>3. Disturbed(shot, q, P) = {new(pauli) : pauli \in P}
  BY DEF Disturbed
<1> HIDE DEF new
<1> QED
  BY <1>1, <1>2, <1>3 DEF ShotSets, P

\* What all the shots may become.
LEMMA UnionKeeps ==
  ASSUME NEW D \in ShotSets, NEW f, \A a \in D : f[a] \in ShotSets
  PROVE  UNION {f[a] : a \in D} \in ShotSets
  BY DEF ShotSets

\* One shot.
LEMMA SingletonKeeps == \A shot \in Shots : {shot} \in ShotSets
  BY DEF ShotSets

\* One of the shots in which noise may have happened, heralded.
LEMMA HeraldedKeeps ==
  ASSUME NEW shot \in Shots, NEW noisy \in ShotSets, NEW b \in BOOLEAN
  PROVE  {[shot EXCEPT !.record = Append(@, FALSE)]}
           \cup (IF b THEN {[a EXCEPT !.record = Append(@, TRUE), !.clean = FALSE] : a \in noisy} ELSE {})
           \in ShotSets
<1> DEFINE quiet == [shot EXCEPT !.record = Append(@, FALSE)]
           new(a) == [a EXCEPT !.record = Append(@, TRUE), !.clean = FALSE]
<1>1. \A s \in Shots, c \in BOOLEAN : Append(s.record, c) \in Seq(BOOLEAN)
  BY DEF Shots
<1>2. quiet \in Shots
  <2> DEFINE r == Append(shot.record, FALSE)
  <2>1. quiet = [shot EXCEPT !.record = r] /\ r \in Seq(BOOLEAN)
    BY <1>1
  <2> HIDE DEF r, quiet
  <2> QED
    BY <2>1 DEF Shots
<1>3. ASSUME NEW a \in Shots PROVE new(a) \in Shots
  <2> DEFINE r == Append(a.record, TRUE)
  <2>1. new(a) = [a EXCEPT !.record = r, !.clean = FALSE] /\ r \in Seq(BOOLEAN)
    BY <1>1
  <2> HIDE DEF r, new
  <2> QED
    BY <2>1 DEF Shots
<1> HIDE DEF quiet, new
<1>4. {quiet} \cup (IF b THEN {new(a) : a \in noisy} ELSE {}) \in ShotSets
  BY <1>2, <1>3 DEF ShotSets
<1> QED
  BY <1>4 DEF quiet, new

\* The groups, kind by kind.
LEMMA GroupsAre ==
  ASSUME NEW name \in InstructionNames
  PROVE  /\ name \in OneQubitGates \cup Measurements \cup MeasureResets \cup Resets
                       \cup OneQubitNoise \cup Heralded => Groups(name) = Qubits
         /\ name \in TwoQubitGates => Groups(name) \subseteq DistinctPairs \cup (Lookbacks \X Qubits)
         /\ name \in TwoQubitGates /\ name \notin {"CX", "CY", "CZ"} => Groups(name) = DistinctPairs
         /\ name \in PairMeasurements => Groups(name) = DistinctPairs
         /\ name \in TwoQubitNoise => Groups(name) = Qubits \X Qubits
         /\ name \in {"MPP", "SPP", "SPP_DAG"} => Groups(name) = PauliProducts
         /\ name \in CorrelatedNoise => Groups(name) = Qubits \X Bases
         /\ name = "MPAD" => Groups(name) = BOOLEAN
         /\ name \in {"DETECTOR", "OBSERVABLE_INCLUDE"} => Groups(name) = Nat \ {0}
<1> USE DEF OneQubitGates, TwoQubitGates, Measurements, MeasureResets, Resets, OneQubitNoise,
            TwoQubitNoise, Heralded, PairMeasurements, CorrelatedNoise, Groups
<1>1. name \in OneQubitGates \cup Measurements \cup MeasureResets \cup Resets
                 \cup OneQubitNoise \cup Heralded => Groups(name) = Qubits
  OBVIOUS
<1>2. name \in {"CX", "CY", "CZ"} => Groups(name) = DistinctPairs \cup (Lookbacks \X Qubits)
  OBVIOUS
<1>3. name \in TwoQubitGates /\ name \notin {"CX", "CY", "CZ"} => Groups(name) = DistinctPairs
  OBVIOUS
<1>4. /\ name \in PairMeasurements => Groups(name) = DistinctPairs
      /\ name \in TwoQubitNoise => Groups(name) = Qubits \X Qubits
  OBVIOUS
<1>5. /\ name \in {"MPP", "SPP", "SPP_DAG"} => Groups(name) = PauliProducts
      /\ name \in CorrelatedNoise => Groups(name) = Qubits \X Bases
      /\ name = "MPAD" => Groups(name) = BOOLEAN
      /\ name \in {"DETECTOR", "OBSERVABLE_INCLUDE"} => Groups(name) = Nat \ {0}
  OBVIOUS
<1>6. name \in TwoQubitGates => Groups(name) \subseteq DistinctPairs \cup (Lookbacks \X Qubits)
  BY <1>2, <1>3
<1> QED
  BY <1>1, <1>3, <1>4, <1>5, <1>6

\* The kinds of the instructions are apart, and none is left out.
LEMMA Kinds ==
  ASSUME NEW name \in Stepwise
  PROVE  \/ name \in OneQubitGates
         \/ name \in TwoQubitGates
         \/ name \in Measurements
         \/ name \in MeasureResets
         \/ name \in Resets
         \/ name \in PairMeasurements
         \/ name = "MPP"
         \/ name = "SPP"
         \/ name = "SPP_DAG"
         \/ name = "MPAD"
         \/ name \in OneQubitNoise
         \/ name \in TwoQubitNoise
         \/ name \in Heralded
BY DEF Stepwise, InstructionNames

\* What a stepwise instruction does to one of its groups makes shots of a shot.
LEMMA TargetsKeep ==
  ASSUME NEW shot \in Shots, NEW op, Valid(op), op.name \in Stepwise,
         NEW i \in DOMAIN op.on, NEW coin \in Coins
  PROVE  ExecuteTarget(shot, op, i, coin) \in ShotSets
<1> DEFINE t == op.on[i]
           inverted == i \in op.inv
           tab == shot.tab
           after == ExecuteTarget(shot, op, i, coin)
<1>1. /\ op.name \in InstructionNames /\ t \in Groups(op.name) /\ op.arg \in Nat
      /\ inverted \in BOOLEAN /\ tab \in Tableaux /\ Basis(op.name) \in Bases
  BY InstructionIs DEF Basis, Bases, Shots
<1>2. IsTableau(tab)
  BY <1>1 DEF Tableaux
<1>3. \A new : IsTableau(new) => new \in Tableaux
  BY DEF Tableaux, IsTableau
<1>4. ASSUME op.name \in OneQubitGates PROVE after \in ShotSets
  <2>1. t \in Qubits
    BY <1>1, <1>4, GroupsAre
  <2> DEFINE new == Conjugated(tab, LAMBDA r : Gate1(op.name, r, t))
  <2>2. new \in Tableaux
    BY <1>2, <1>3, <1>4, <2>1, GatesKeepTableaux
  <2>3. after = {[shot EXCEPT !.tab = new]}
    BY <1>4 DEF ExecuteTarget, Conjugated, OneQubitGates, TwoQubitGates, Measurements,
           MeasureResets, Resets, PairMeasurements, OneQubitNoise, TwoQubitNoise, Heralded
  <2> HIDE DEF new, after
  <2> QED
    BY <2>2, <2>3, WithTableau, SingletonKeeps
<1>5. ASSUME op.name \in TwoQubitGates PROVE after \in ShotSets
  <2>1. CASE Controlled(t)
    <3>1. t[2] \in Qubits /\ op.name \in {"CX", "CY", "CZ"}
      BY <2>1, RowNumbers, <1>1, <1>5, GroupsAre DEF Controlled, DistinctPairs
    <3>2. ControlledPauli[op.name] \in Bases \cup {"I"}
      BY <3>1 DEF ControlledPauli, Bases
    <3> DEFINE new == ApplyPauli(tab, t[2], ControlledPauli[op.name])
    <3>3. new \in Tableaux
      BY <1>1, <3>1, <3>2, PaulisKeep
    <3>4. after = {IF shot.record[Len(shot.record) + 1 + t[1]] THEN [shot EXCEPT !.tab = new] ELSE shot}
      BY <1>5, <2>1 DEF ExecuteTarget, OneQubitGates, TwoQubitGates, Measurements,
           MeasureResets, Resets, PairMeasurements, OneQubitNoise, TwoQubitNoise, Heralded
    <3> HIDE DEF new, after
    <3> QED
      BY <3>3, <3>4, WithTableau, SingletonKeeps
  <2>2. CASE ~Controlled(t)
    <3>1. t \in DistinctPairs
      BY <1>1, <1>5, <2>2, GroupsAre DEF Controlled, Lookbacks
    <3>2. t[1] \in Qubits /\ t[2] \in Qubits /\ t[1] # t[2]
      BY <3>1 DEF DistinctPairs
    <3> DEFINE new == Conjugated(tab, LAMBDA r : Gate2(op.name, r, t[1], t[2]))
    <3>3. new \in Tableaux
      BY <1>2, <1>3, <1>5, <3>2, PairGatesKeepTableaux
    <3>4. after = {[shot EXCEPT !.tab = new]}
      BY <1>5, <2>2 DEF ExecuteTarget, Conjugated, OneQubitGates, TwoQubitGates, Measurements,
           MeasureResets, Resets, PairMeasurements, OneQubitNoise, TwoQubitNoise, Heralded
    <3> HIDE DEF new, after
    <3> QED
      BY <3>3, <3>4, WithTableau, SingletonKeeps
  <2> QED
    BY <2>1, <2>2
<1>6. ASSUME op.name \in Measurements PROVE after \in ShotSets
  <2>1. t \in Qubits
    BY <1>1, <1>6, GroupsAre
  <2>2. after = Recorded(shot, MeasureQubit(tab, t, Basis(op.name), coin), inverted, op)
    BY <1>6 DEF ExecuteTarget, OneQubitGates, TwoQubitGates, Measurements,
           MeasureResets, Resets, PairMeasurements, OneQubitNoise, TwoQubitNoise, Heralded
  <2> QED
    BY <1>1, <2>1, <2>2, MeasurementsKeep, RecordedKeeps
<1>7. ASSUME op.name \in MeasureResets PROVE after \in ShotSets
  <2>1. t \in Qubits
    BY <1>1, <1>7, GroupsAre
  <2>2. after = Recorded(shot, MeasureResetQubit(tab, t, Basis(op.name), coin), inverted, op)
    BY <1>7 DEF ExecuteTarget, OneQubitGates, TwoQubitGates, Measurements,
           MeasureResets, Resets, PairMeasurements, OneQubitNoise, TwoQubitNoise, Heralded
  <2> QED
    BY <1>1, <2>1, <2>2, MeasurementsKeep, RecordedKeeps
<1>8. ASSUME op.name \in Resets PROVE after \in ShotSets
  <2>1. t \in Qubits
    BY <1>1, <1>8, GroupsAre
  <2> DEFINE M == MeasureResetQubit(tab, t, Basis(op.name), coin)
  <2>2. after = {[shot EXCEPT !.tab = m[2]] : m \in M}
    BY <1>8 DEF ExecuteTarget, OneQubitGates, TwoQubitGates, Measurements,
           MeasureResets, Resets, PairMeasurements, OneQubitNoise, TwoQubitNoise, Heralded
  <2>3. M \in Outcomes
    BY <1>1, <2>1, MeasurementsKeep
  <2> HIDE DEF M, after
  <2>4. M # {} /\ \A m \in M : m[2] \in Tableaux
    BY <2>3 DEF Outcomes
  <2>5. \A m \in M : [shot EXCEPT !.tab = m[2]] \in Shots
    BY <2>4, WithTableau
  <2> QED
    BY <2>2, <2>4, <2>5 DEF ShotSets
<1>9. ASSUME op.name \in PairMeasurements PROVE after \in ShotSets
  <2>1. t \in DistinctPairs
    BY <1>1, <1>9, GroupsAre
  <2>2. PairProduct(op.name, t) \in PauliProducts
    <3> DEFINE b == Basis(op.name)
    <3>1. t[1] \in Qubits /\ t[2] \in Qubits /\ t[1] # t[2] /\ b \in Bases
      BY <1>1, <2>1 DEF DistinctPairs
    <3>2. PairProduct(op.name, t) = <<<<t[1], b>>, <<t[2], b>>>>
      BY DEF PairProduct
    <3> HIDE DEF b
    <3> QED
      BY <3>1, <3>2 DEF PauliProducts
  <2>3. after = Recorded(shot, MeasureProduct(tab, PairProduct(op.name, t), coin), inverted, op)
    BY <1>9 DEF ExecuteTarget, OneQubitGates, TwoQubitGates, Measurements,
           MeasureResets, Resets, PairMeasurements, OneQubitNoise, TwoQubitNoise, Heralded
  <2> QED
    BY <1>1, <2>2, <2>3, ProductMeasurementsKeep, RecordedKeeps
<1>10. ASSUME op.name = "MPP" PROVE after \in ShotSets
  <2>1. t \in PauliProducts
    BY <1>1, <1>10, GroupsAre
  <2>2. after = Recorded(shot, MeasureProduct(tab, t, coin), inverted, op)
    BY <1>10 DEF ExecuteTarget, OneQubitGates, TwoQubitGates, Measurements,
           MeasureResets, Resets, PairMeasurements, OneQubitNoise, TwoQubitNoise, Heralded
  <2> QED
    BY <1>1, <2>1, <2>2, ProductMeasurementsKeep, RecordedKeeps
<1>11. ASSUME op.name \in {"SPP", "SPP_DAG"} PROVE after \in ShotSets
  <2>1. t \in PauliProducts
    BY <1>1, <1>11, GroupsAre
  <2> DEFINE one == Spp(tab, t, inverted)
             other == Spp(tab, t, ~inverted)
  <2>2. one \in Tableaux /\ other \in Tableaux
    BY <1>1, <2>1, SppKeeps
  <2>3. after = {[shot EXCEPT !.tab = one]} \/ after = {[shot EXCEPT !.tab = other]}
    BY <1>11 DEF ExecuteTarget, OneQubitGates, TwoQubitGates, Measurements,
           MeasureResets, Resets, PairMeasurements, OneQubitNoise, TwoQubitNoise, Heralded
  <2> HIDE DEF one, other, after
  <2> QED
    BY <2>2, <2>3, WithTableau, SingletonKeeps
<1>12. ASSUME op.name = "MPAD" PROVE after \in ShotSets
  <2>1. t \in BOOLEAN
    BY <1>1, <1>12, GroupsAre
  <2>2. {<<t, tab>>} \in Outcomes
    BY <1>1, <2>1 DEF Outcomes
  <2>3. after = Recorded(shot, {<<t, tab>>}, FALSE, op)
    BY <1>12 DEF ExecuteTarget, OneQubitGates, TwoQubitGates, Measurements,
           MeasureResets, Resets, PairMeasurements, OneQubitNoise, TwoQubitNoise, Heralded
  <2> QED
    BY <2>2, <2>3, RecordedKeeps
<1>13. ASSUME op.name \in OneQubitNoise PROVE after \in ShotSets
  <2>1. t \in Qubits
    BY <1>1, <1>13, GroupsAre
  <2>2. after = IF op.arg > 0 THEN Disturbed(shot, t, Paulis(op.name)) ELSE {shot}
    BY <1>13 DEF ExecuteTarget, OneQubitGates, TwoQubitGates, Measurements,
           MeasureResets, Resets, PairMeasurements, OneQubitNoise, TwoQubitNoise, Heralded
  <2> QED
    BY <2>1, <2>2, DisturbedKeeps, SingletonKeeps
<1>14. ASSUME op.name \in TwoQubitNoise PROVE after \in ShotSets
  <2>1. t[1] \in Qubits /\ t[2] \in Qubits
    BY <1>1, <1>14, GroupsAre
  <2> DEFINE first == Disturbed(shot, t[1], Paulis(op.name))
             second == [a \in first |-> Disturbed(a, t[2], Paulis(op.name))]
  <2>2. after = IF op.arg > 0 THEN UNION {second[a] : a \in first} ELSE {shot}
    BY <1>14 DEF ExecuteTarget, OneQubitGates, TwoQubitGates, Measurements,
           MeasureResets, Resets, PairMeasurements, OneQubitNoise, TwoQubitNoise, Heralded
  <2>3. first \in ShotSets
    BY <2>1, DisturbedKeeps
  <2>4. \A a \in first : second[a] \in ShotSets
    BY <2>1, <2>3, DisturbedKeeps DEF ShotSets
  <2> HIDE DEF first, second, after
  <2> QED
    BY <2>2, <2>3, <2>4, UnionKeeps, SingletonKeeps
<1>15. ASSUME op.name \in Heralded PROVE after \in ShotSets
  <2>1. t \in Qubits
    BY <1>1, <1>15, GroupsAre
  <2> DEFINE noisy == Disturbed(shot, t, Paulis(op.name))
             b == op.arg > 0
  <2>2. after = {[shot EXCEPT !.record = Append(@, FALSE)]}
                  \cup (IF b THEN {[a EXCEPT !.record = Append(@, TRUE), !.clean = FALSE] : a \in noisy}
                        ELSE {})
    BY <1>15 DEF ExecuteTarget, OneQubitGates, TwoQubitGates, Measurements,
           MeasureResets, Resets, PairMeasurements, OneQubitNoise, TwoQubitNoise, Heralded
  <2>3. noisy \in ShotSets /\ b \in BOOLEAN
    BY <2>1, DisturbedKeeps
  <2> HIDE DEF noisy, b, after
  <2> QED
    BY <2>2, <2>3, HeraldedKeeps
<1> QED
  BY <1>4, <1>5, <1>6, <1>7, <1>8, <1>9, <1>10, <1>11, <1>12, <1>13, <1>14, <1>15, Kinds

\* What is folded stays among the values that the steps are among.
LEMMA FoldStays ==
  ASSUME NEW n \in Nat, NEW V, NEW base, NEW step,
         NEW f, Folds(f, 1 .. n, V, base, LastOf(n), step), NEW g, GoesOnAs(f, g, n)
  PROVE  g[1 .. n] \in V
<1>1. g[1 .. n] = f[1 .. n]
  BY FoldLeftUnique
<1> QED
  BY <1>1 DEF Folds

\* A group of targets in any of the shots.
LEMMA AllTargetsKeep ==
  ASSUME NEW from \in ShotSets, NEW op, Valid(op), op.name \in Stepwise,
         NEW i \in DOMAIN op.on, NEW coin \in Coins
  PROVE  AllTargets(from, op, i, coin) \in ShotSets
<1> DEFINE f == [a \in from |-> ExecuteTarget(a, op, i, coin)]
<1>1. \A a \in from : f[a] \in ShotSets
  BY TargetsKeep DEF ShotSets
<1>2. AllTargets(from, op, i, coin) = UNION {f[a] : a \in from}
  BY DEF AllTargets
<1> HIDE DEF f
<1> QED
  BY <1>1, <1>2, UnionKeeps

\* An instruction that takes its groups one by one.
LEMMA StepwiseKeeps ==
  ASSUME NEW shot \in Shots, NEW op, Valid(op), op.name \in Stepwise, NEW coin \in Coins
  PROVE  FoldLeftDomain(LAMBDA from, i : UNION {ExecuteTarget(a, op, i, coin) : a \in from},
                        {shot}, op.on) \in ShotSets
<1> DEFINE n == Len(op.on)
           base == {shot}
           places == [i \in DOMAIN op.on |-> i]
           step == TargetSteps(op, coin)
           Is(g) == g = [A \in SUBSET (1 .. n) |->
                           IF A = {} THEN base
                           ELSE LET x == Max(A) IN AllTargets(g[A \ {x}], op, places[x], coin)]
           it == CHOOSE g : Is(g)
           result == FoldLeftDomain(LAMBDA from, i : UNION {ExecuteTarget(a, op, i, coin) : a \in from},
                                    {shot}, op.on)
<1>1. n \in Nat /\ DOMAIN op.on = 1 .. n
  BY InstructionIs
<1>2. \A i \in 1 .. n, D \in ShotSets : AllTargets(D, op, i, coin) \in ShotSets
  BY <1>1, AllTargetsKeep
<1>3. step \in [1 .. n -> [ShotSets -> ShotSets]]
      /\ \A i \in 1 .. n, D \in ShotSets : step[i][D] = AllTargets(D, op, i, coin)
  BY <1>2 DEF TargetSteps
<1>4. result = it[1 .. n]
  BY <1>1 DEF FoldLeftDomain, FoldLeft, MapThenFoldSet, AllTargets
<1>5. \A i \in 1 .. n : places[i] = i
  BY <1>1
<1>6. base \in ShotSets
  BY SingletonKeeps
<1> HIDE DEF n, step, places, base, result
<1>7. PICK f : Folds(f, 1 .. n, ShotSets, base, LastOf(n), step)
  BY <1>1, <1>3, <1>6, FoldLeftExists
<1>8. /\ f \in [SUBSET (1 .. n) -> ShotSets]
      /\ \A A \in SUBSET (1 .. n) :
           f[A] = IF A = {} THEN base ELSE AllTargets(f[A \ {Max(A)}], op, places[Max(A)], coin)
  <2>1. f \in [SUBSET (1 .. n) -> ShotSets]
    BY <1>7 DEF Folds
  <2>2. ASSUME NEW A \in SUBSET (1 .. n)
        PROVE  f[A] = IF A = {} THEN base ELSE AllTargets(f[A \ {Max(A)}], op, places[Max(A)], coin)
    <3>1. CASE A = {}
      BY <1>7, <3>1 DEF Folds
    <3>2. CASE A # {}
      <4>1. Max(A) \in 1 .. n /\ LastOf(n)[A] = Max(A)
        BY <1>1, <3>2, LastPlace DEF LastOf
      <4>2. f[A] = step[Max(A)][f[A \ {Max(A)}]]
        BY <1>7, <3>2, <4>1 DEF Folds
      <4> QED
        BY <1>3, <1>5, <2>1, <3>2, <4>1, <4>2
    <3> QED
      BY <3>1, <3>2
  <2> QED
    BY <2>1, <2>2
<1>9. Is(f)
  BY <1>8
<1>10. Is(it)
  <2> HIDE DEF Is
  <2> QED
    BY <1>9
<1> HIDE DEF it
<1>11. GoesOnAs(f, it, n)
  BY <1>8, <1>10 DEF GoesOnAs
<1>12. it[1 .. n] \in ShotSets
  BY <1>1, <1>7, <1>11, FoldStays
<1> QED
  BY <1>4, <1>12 DEF result

\* They are a fold over tableaux.
LEMMA CorrelatedPaulisKeep ==
  ASSUME NEW start \in Tableaux, NEW terms \in Seq(Qubits \X Bases)
  PROVE  FoldLeft(LAMBDA tab, term : ApplyPauli(tab, term[1], term[2]), start, terms) \in Tableaux
<1> DEFINE n == Len(terms)
           step == PauliSteps(terms)
           Is(g) == g = [A \in SUBSET (1 .. n) |->
                           IF A = {} THEN start
                           ELSE LET x == Max(A) IN ApplyPauli(g[A \ {x}], terms[x][1], terms[x][2])]
           it == CHOOSE g : Is(g)
           result == FoldLeft(LAMBDA tab, term : ApplyPauli(tab, term[1], term[2]), start, terms)
<1>1. n \in Nat /\ DOMAIN terms = 1 .. n
  OBVIOUS
<1>2. \A i \in 1 .. n, tab \in Tableaux : ApplyPauli(tab, terms[i][1], terms[i][2]) \in Tableaux
  BY PaulisKeep
<1>3. step \in [1 .. n -> [Tableaux -> Tableaux]]
      /\ \A i \in 1 .. n, tab \in Tableaux :
           step[i][tab] = ApplyPauli(tab, terms[i][1], terms[i][2])
  BY <1>2 DEF PauliSteps
<1>4. result = it[1 .. n]
  BY <1>1 DEF FoldLeft, MapThenFoldSet
<1> HIDE DEF n, step, result
<1>5. PICK f : Folds(f, 1 .. n, Tableaux, start, LastOf(n), step)
  BY <1>1, <1>3, FoldLeftExists
<1>6. /\ f \in [SUBSET (1 .. n) -> Tableaux]
      /\ \A A \in SUBSET (1 .. n) :
           f[A] = IF A = {} THEN start
                  ELSE ApplyPauli(f[A \ {Max(A)}], terms[Max(A)][1], terms[Max(A)][2])
  <2>1. f \in [SUBSET (1 .. n) -> Tableaux]
    BY <1>5 DEF Folds
  <2>2. ASSUME NEW A \in SUBSET (1 .. n)
        PROVE  f[A] = IF A = {} THEN start
                      ELSE ApplyPauli(f[A \ {Max(A)}], terms[Max(A)][1], terms[Max(A)][2])
    BY <1>5, <1>1, LastPlace, <1>3, <2>1 DEF Folds, LastOf
  <2> QED
    BY <2>1, <2>2
<1>7. Is(f)
  BY <1>6
<1>8. Is(it)
  <2> HIDE DEF Is
  <2> QED
    BY <1>7
<1> HIDE DEF it
<1>9. GoesOnAs(f, it, n)
  BY <1>6, <1>8 DEF GoesOnAs
<1>10. it[1 .. n] \in Tableaux
  BY <1>1, <1>5, <1>9, FoldStays
<1> QED
  BY <1>4, <1>10 DEF result

\* A correlated error and its else branches.
LEMMA CorrelatedKeeps ==
  ASSUME NEW shot \in Shots, NEW op, Valid(op), op.name \in CorrelatedNoise
  PROVE  ExecuteCorrelated(shot, op) \in ShotSets
<1>1. op.on \in Seq(Qubits \X Bases)
  BY InstructionIs, GroupsAre
<1> DEFINE tab == FoldLeft(LAMBDA tab, term : ApplyPauli(tab, term[1], term[2]), shot.tab, op.on)
           occurred == Occurs(shot, op)
           missed == [shot EXCEPT !.corr = FALSE]
<1>2. occurred \in Shots
  <2>1. tab \in Tableaux
    BY <1>1, CorrelatedPaulisKeep DEF Shots
  <2>2. occurred = [shot EXCEPT !.tab = tab, !.corr = TRUE, !.clean = FALSE]
    BY DEF Occurs
  <2> HIDE DEF tab, occurred
  <2> QED
    BY <2>1, <2>2 DEF Shots
<1>3. missed \in Shots
  BY DEF Shots
<1>4. Bits(op) # {} /\ Bits(op) \subseteq BOOLEAN
  BY BitsAre DEF Coins
<1>5. \/ ExecuteCorrelated(shot, op) = {IF occurs THEN occurred ELSE missed : occurs \in Bits(op)}
      \/ ExecuteCorrelated(shot, op) = {shot}
      \/ ExecuteCorrelated(shot, op) = {IF occurs THEN occurred ELSE shot : occurs \in Bits(op)}
  BY DEF Shots, ExecuteCorrelated
<1> HIDE DEF occurred, missed
<1> QED
  BY <1>2, <1>3, <1>4, <1>5 DEF ShotSets

\* A detector or an observable recorded.
LEMMA AnnotationsKeep ==
  ASSUME NEW shot \in Shots, NEW op, Valid(op), NEW b \in BOOLEAN
  PROVE  /\ [shot EXCEPT !.detectors = Append(@, b)] \in Shots
         /\ [shot EXCEPT !.observables = Append(@, <<op.arg, b>>)] \in Shots
<1> DEFINE d == Append(shot.detectors, b)
           o == Append(shot.observables, <<op.arg, b>>)
<1>1. d \in Seq(BOOLEAN) /\ o \in Seq(Nat \X BOOLEAN)
  BY InstructionIs DEF Shots
<1>2. /\ [shot EXCEPT !.detectors = Append(@, b)] = [shot EXCEPT !.detectors = d]
      /\ [shot EXCEPT !.observables = Append(@, <<op.arg, b>>)] = [shot EXCEPT !.observables = o]
  OBVIOUS
<1> HIDE DEF d, o
<1>3. [shot EXCEPT !.detectors = d] \in Shots /\ [shot EXCEPT !.observables = o] \in Shots
  BY <1>1 DEF Shots
<1> QED
  BY <1>2, <1>3

\* Every instruction makes shots of a shot, at least one: the tableau stays a tableau and the records
\* stay bits, whatever is measured, reset, fed back or disturbed (executor.rs, execute_op).
THEOREM InstructionsKeepShots ==
  ASSUME NEW shot \in Shots, NEW op, Valid(op), NEW coin \in Coins
  PROVE  ExecuteOp(shot, op, coin) \in ShotSets
<1> DEFINE after == ExecuteOp(shot, op, coin)
           b == Parity(shot.record, op)
<1>1. b \in BOOLEAN
  BY DEF Parity, Odd
<1>2. ASSUME op.name \in CorrelatedNoise PROVE after \in ShotSets
  BY <1>2, CorrelatedKeeps DEF ExecuteOp, CorrelatedNoise
<1>3. ASSUME op.name \in Annotations PROVE after \in ShotSets
  <2>1. \/ after = {[shot EXCEPT !.detectors = Append(@, b)]}
        \/ after = {[shot EXCEPT !.observables = Append(@, <<op.arg, b>>)]}
        \/ after = {shot}
    BY <1>3 DEF ExecuteOp, CorrelatedNoise, Annotations
  <2> HIDE DEF after, b
  <2> QED
    BY <1>1, <2>1, AnnotationsKeep, SingletonKeeps
<1>4. ASSUME op.name \in Stepwise PROVE after \in ShotSets
  BY <1>4, StepwiseKeeps DEF ExecuteOp, Stepwise, CorrelatedNoise, Annotations
<1>5. op.name \in CorrelatedNoise \/ op.name \in Annotations \/ op.name \in Stepwise
  BY InstructionIs DEF Stepwise
<1> QED
  BY <1>2, <1>3, <1>4, <1>5

\* So does an instruction in the reference sample, which is without noise and whose random results
\* are 0 (ref_sample_instrs).
THEOREM ReferencesKeepShots ==
  ASSUME NEW shot \in Shots, NEW op, Valid(op)
  PROVE  RefSampleOp(shot, op) \in Shots
<1>1. {FALSE} \in Coins /\ Valid(Quiet(op))
  BY InstructionIs DEF Coins
<1> DEFINE D == ExecuteOp(shot, Quiet(op), {FALSE})
<1>2. D \in ShotSets
  BY <1>1, InstructionsKeepShots
<1>3. RefSampleOp(shot, op) = shot \/ RefSampleOp(shot, op) = CHOOSE after \in D : TRUE
  BY DEF RefSampleOp
<1> HIDE DEF D
<1>4. (CHOOSE after \in D : TRUE) \in Shots
  BY <1>2 DEF ShotSets
<1> QED
  BY <1>3, <1>4

(***************************************************************************)
(* Circuits.                                                               *)
(***************************************************************************)

\* It holds of |0...0> and no results.
LEMMA StartsWellFormed == Init => Invariance
<1> SUFFICES ASSUME Init PROVE Invariance
  OBVIOUS
<1>1. NewShot \in Shots
  BY NewTableauIs DEF NewShot, Shots
<1>2. ValidCircuit(circuit)
  BY CircuitsAreValid DEF Init
<1>3. Len(circuit) \in Nat \ {0}
  BY <1>2 DEF ValidCircuit
<1> QED
  BY <1>1, <1>2, <1>3, SingletonKeeps DEF Init, Invariance

\* Each step of a run, an instruction executed or undone, keeps it.
LEMMA StepsKeepWellFormed == Invariance /\ [Next]_vars => Invariance'
<1> SUFFICES ASSUME Invariance, [Next]_vars PROVE Invariance'
  OBVIOUS
<1> DEFINE op == circuit[pc + 1]
<1>1. Len(circuit) \in Nat \ {0} /\ \A i \in 1 .. Len(circuit) : Valid(circuit[i])
  BY DEF Invariance, ValidCircuit
<1>2. stage \in {"reference", "shots"} => Valid(op)
  BY <1>1 DEF Invariance
<1>3. ASSUME NEW next \in {"shots", "frames", "analysis"}, Proceed(next), circuit' = circuit,
             stage \in {"reference", "shots"}
      PROVE  stage' \in {"reference", "shots"} => pc' \in 0 .. Len(circuit') - 1
  BY <1>1, <1>3 DEF Proceed, Invariance
<1>4. CASE RefSample
  BY <1>2, <1>4, ReferencesKeepShots, <1>3 DEF RefSample, Invariance
<1>5. CASE Execute
  <2> DEFINE after == [shot \in shots |-> ExecuteOp(shot, op, BOOLEAN)]
  <2>1. BOOLEAN \in Coins
    BY DEF Coins
  <2>2. shots \in ShotSets /\ \A shot \in shots : after[shot] \in ShotSets
    BY <1>2, <1>5, <2>1, InstructionsKeepShots DEF Execute, Invariance, ShotSets
  <2>3. shots' = UNION {after[shot] : shot \in shots}
    BY <1>5 DEF Execute
  <2> HIDE DEF after
  <2>4. shots' \in ShotSets
    BY <2>2, <2>3, UnionKeeps
  <2>5. stage' \in {"reference", "shots"} => pc' \in 0 .. Len(circuit') - 1
    <3>1. PICK next \in {"analysis", "frames"} : Proceed(next)
      BY <1>5 DEF Execute
    <3> QED
      BY <1>3, <1>5, <3>1 DEF Execute
  <2> QED
    BY <1>5, <2>4, <2>5 DEF Execute, Invariance
<1>6. CASE RunFrames
  BY <1>6 DEF RunFrames, Proceed, Invariance
<1>7. ASSUME NEW a, NEW n, Undone(a, n) PROVE Invariance'
  BY <1>7 DEF Undone, Invariance
<1>8. CASE Undo
  BY <1>7, <1>8 DEF Undo
<1>9. CASE UndoElse
  BY <1>7, <1>9 DEF UndoElse
<1>10. CASE UNCHANGED vars
  BY <1>10 DEF vars, Invariance
<1> QED
  BY <1>4, <1>5, <1>6, <1>8, <1>9, <1>10 DEF Next

\* In every shot of every circuit, and in its reference sample, the tableau stays a tableau: the
\* destabilizers and stabilizers anticommute in pairs and with nothing else, and the stabilizers'
\* signs are real, on any number of qubits and whatever is drawn (sim/tableau.rs, executor.rs).
THEOREM TableauxStayWellFormed == Spec => []WellFormed
<1>1. Invariance => WellFormed
  BY DEF Invariance, WellFormed, Shots, ShotSets, Tableaux
<1> QED
  BY <1>1, StartsWellFormed, StepsKeepWellFormed, PTL DEF Spec

(***************************************************************************)
(* Frames and sensitivities.                                               *)
(***************************************************************************)

(***************************************************************************)
(* The primitive rules keep to their types.                                *)
(***************************************************************************)

\* The rules of one qubit make frames of frames.
LEMMA FrameTypes ==
  ASSUME NEW f \in Frames, NEW q \in Qubits
  PROVE  /\ do_h(f, q) \in Frames
         /\ do_s(f, q) \in Frames
         /\ do_sqrt_x(f, q) \in Frames
         /\ do_c_xyz(f, q) \in Frames
         /\ do_c_zyx(f, q) \in Frames
BY DEF do_h, do_s, do_sqrt_x, do_c_xyz, do_c_zyx, Toggle, SymDiff, Frames

\* So do those of two qubits.
LEMMA FramePairTypes ==
  ASSUME NEW f \in Frames, NEW p \in Qubits, NEW q \in Qubits
  PROVE  /\ do_cx(f, p, q) \in Frames
         /\ do_cz(f, p, q) \in Frames
         /\ do_swap(f, p, q) \in Frames
BY DEF do_cx, do_cz, do_swap, Toggle, SymDiff, Frames

\* The backward rules of one qubit make states of an analysis of such states.
LEMMA AnalysisTypes ==
  ASSUME NEW a \in Analyses, NEW q \in Qubits
  PROVE  /\ undo_h(a, q) \in Analyses
         /\ undo_s(a, q) \in Analyses
         /\ undo_sqrt_x(a, q) \in Analyses
         /\ undo_c_xyz(a, q) \in Analyses
         /\ undo_c_zyx(a, q) \in Analyses
BY DEF undo_h, undo_s, undo_sqrt_x, undo_c_xyz, undo_c_zyx, SymDiff, Analyses

\* So do those of two qubits.
LEMMA AnalysisPairTypes ==
  ASSUME NEW a \in Analyses, NEW p \in Qubits, NEW q \in Qubits
  PROVE  /\ undo_cx(a, p, q) \in Analyses
         /\ undo_cz(a, p, q) \in Analyses
         /\ undo_swap(a, p, q) \in Analyses
BY DEF undo_cx, undo_cz, undo_swap, SymDiff, Analyses

(***************************************************************************)
(* The primitive rules are adjoint.                                        *)
(***************************************************************************)

\* undo_h and do_h are adjoint on every qubit.
LEMMA HAgrees ==
  ASSUME NEW a \in Analyses, NEW f \in Frames, NEW q \in Qubits, NEW r \in Qubits, NEW d
  PROVE  Feels(undo_h(a, q), f, r, d) <=> Feels(a, do_h(f, q), r, d)
<1>1. CASE r = q
  BY <1>1 DEF Feels, do_h, undo_h, Toggle, SymDiff, Frames, Analyses
<1>2. CASE r # q
  BY <1>2 DEF Feels, do_h, undo_h, Toggle, SymDiff, Frames, Analyses
<1>3. QED
  BY <1>1, <1>2

\* undo_s and do_s.
LEMMA SAgrees ==
  ASSUME NEW a \in Analyses, NEW f \in Frames, NEW q \in Qubits, NEW r \in Qubits, NEW d
  PROVE  Feels(undo_s(a, q), f, r, d) <=> Feels(a, do_s(f, q), r, d)
<1>1. CASE r = q
  BY <1>1 DEF Feels, do_s, undo_s, Toggle, SymDiff, Frames, Analyses
<1>2. CASE r # q
  BY <1>2 DEF Feels, do_s, undo_s, Toggle, SymDiff, Frames, Analyses
<1>3. QED
  BY <1>1, <1>2

\* undo_sqrt_x and do_sqrt_x.
LEMMA SqrtXAgrees ==
  ASSUME NEW a \in Analyses, NEW f \in Frames, NEW q \in Qubits, NEW r \in Qubits, NEW d
  PROVE  Feels(undo_sqrt_x(a, q), f, r, d) <=> Feels(a, do_sqrt_x(f, q), r, d)
<1>1. CASE r = q
  BY <1>1 DEF Feels, do_sqrt_x, undo_sqrt_x, Toggle, SymDiff, Frames, Analyses
<1>2. CASE r # q
  BY <1>2 DEF Feels, do_sqrt_x, undo_sqrt_x, Toggle, SymDiff, Frames, Analyses
<1>3. QED
  BY <1>1, <1>2

\* undo_c_xyz and do_c_xyz.
LEMMA CxyzAgrees ==
  ASSUME NEW a \in Analyses, NEW f \in Frames, NEW q \in Qubits, NEW r \in Qubits, NEW d
  PROVE  Feels(undo_c_xyz(a, q), f, r, d) <=> Feels(a, do_c_xyz(f, q), r, d)
<1>1. CASE r = q
  BY <1>1 DEF Feels, do_c_xyz, undo_c_xyz, Toggle, SymDiff, Frames, Analyses
<1>2. CASE r # q
  BY <1>2 DEF Feels, do_c_xyz, undo_c_xyz, Toggle, SymDiff, Frames, Analyses
<1>3. QED
  BY <1>1, <1>2

\* undo_c_zyx and do_c_zyx.
LEMMA CzyxAgrees ==
  ASSUME NEW a \in Analyses, NEW f \in Frames, NEW q \in Qubits, NEW r \in Qubits, NEW d
  PROVE  Feels(undo_c_zyx(a, q), f, r, d) <=> Feels(a, do_c_zyx(f, q), r, d)
<1>1. CASE r = q
  BY <1>1 DEF Feels, do_c_zyx, undo_c_zyx, Toggle, SymDiff, Frames, Analyses
<1>2. CASE r # q
  BY <1>2 DEF Feels, do_c_zyx, undo_c_zyx, Toggle, SymDiff, Frames, Analyses
<1>3. QED
  BY <1>1, <1>2

\* undo_cx and do_cx, on the pair together and on every other qubit.
LEMMA CxAgrees ==
  ASSUME NEW a \in Analyses, NEW f \in Frames, NEW p \in Qubits, NEW q \in Qubits, p # q
  PROVE  Agree(undo_cx(a, p, q), f, a, do_cx(f, p, q), p, q)
<1>1. ASSUME NEW d \in Targets
      PROVE  FeelsPair(undo_cx(a, p, q), f, p, q, d) <=> FeelsPair(a, do_cx(f, p, q), p, q, d)
  BY DEF Feels, FeelsPair, do_cx, undo_cx, Toggle, SymDiff, Frames, Analyses
<1>2. ASSUME NEW d \in Targets, NEW r \in Qubits \ {p, q}
      PROVE  Feels(undo_cx(a, p, q), f, r, d) <=> Feels(a, do_cx(f, p, q), r, d)
  BY DEF Feels, do_cx, undo_cx, Toggle, SymDiff, Frames, Analyses
<1>3. QED
  BY <1>1, <1>2 DEF Agree

\* undo_cz and do_cz.
LEMMA CzAgrees ==
  ASSUME NEW a \in Analyses, NEW f \in Frames, NEW p \in Qubits, NEW q \in Qubits, p # q
  PROVE  Agree(undo_cz(a, p, q), f, a, do_cz(f, p, q), p, q)
<1>1. ASSUME NEW d \in Targets
      PROVE  FeelsPair(undo_cz(a, p, q), f, p, q, d) <=> FeelsPair(a, do_cz(f, p, q), p, q, d)
  BY DEF Feels, FeelsPair, do_cz, undo_cz, Toggle, SymDiff, Frames, Analyses
<1>2. ASSUME NEW d \in Targets, NEW r \in Qubits \ {p, q}
      PROVE  Feels(undo_cz(a, p, q), f, r, d) <=> Feels(a, do_cz(f, p, q), r, d)
  BY DEF Feels, do_cz, undo_cz, Toggle, SymDiff, Frames, Analyses
<1>3. QED
  BY <1>1, <1>2 DEF Agree

\* undo_swap and do_swap.
LEMMA SwapAgrees ==
  ASSUME NEW a \in Analyses, NEW f \in Frames, NEW p \in Qubits, NEW q \in Qubits, p # q
  PROVE  Agree(undo_swap(a, p, q), f, a, do_swap(f, p, q), p, q)
<1>1. ASSUME NEW d \in Targets
      PROVE  FeelsPair(undo_swap(a, p, q), f, p, q, d) <=> FeelsPair(a, do_swap(f, p, q), p, q, d)
  BY DEF Feels, FeelsPair, do_swap, undo_swap, Toggle, SymDiff, Frames, Analyses
<1>2. ASSUME NEW d \in Targets, NEW r \in Qubits \ {p, q}
      PROVE  Feels(undo_swap(a, p, q), f, r, d) <=> Feels(a, do_swap(f, p, q), r, d)
  BY DEF Feels, do_swap, undo_swap, Toggle, SymDiff, Frames, Analyses
<1>3. QED
  BY <1>1, <1>2 DEF Agree

\* A rule for one qubit, seen from a pair.
LEMMA OneOfPair ==
  ASSUME NEW a \in Analyses, NEW f \in Frames, NEW p \in Qubits, NEW q \in Qubits,
         NEW s \in {p, q}
  PROVE  /\ Agree(undo_h(a, s), f, a, do_h(f, s), p, q)
         /\ Agree(undo_s(a, s), f, a, do_s(f, s), p, q)
         /\ Agree(undo_sqrt_x(a, s), f, a, do_sqrt_x(f, s), p, q)
<1>1. Agree(undo_h(a, s), f, a, do_h(f, s), p, q)
  BY HAgrees DEF Agree, FeelsPair
<1>2. Agree(undo_s(a, s), f, a, do_s(f, s), p, q)
  BY SAgrees DEF Agree, FeelsPair
<1>3. Agree(undo_sqrt_x(a, s), f, a, do_sqrt_x(f, s), p, q)
  BY SqrtXAgrees DEF Agree, FeelsPair
<1>4. QED
  BY <1>1, <1>2, <1>3

\* Rules that are adjoint one by one are adjoint in a row.
LEMMA InARow ==
  ASSUME NEW a, NEW f, NEW b, NEW g, NEW c, NEW h, NEW p, NEW q,
         Agree(a, f, b, g, p, q), Agree(b, g, c, h, p, q)
  PROVE  Agree(a, f, c, h, p, q)
BY DEF Agree

\* Which of the two qubits is named first does not matter.
LEMMA Symmetric ==
  ASSUME NEW a, NEW f, NEW b, NEW g, NEW p, NEW q, Agree(a, f, b, g, q, p)
  PROVE  Agree(a, f, b, g, p, q)
BY DEF Agree, FeelsPair

(***************************************************************************)
(* The gates.                                                              *)
(***************************************************************************)

\* Every one-qubit gate is undone by the analyzer as the frame simulator does it.
THEOREM OneQubitGatesAgree ==
  ASSUME NEW a \in Analyses, NEW f \in Frames, NEW q \in Qubits, NEW r \in Qubits, NEW d,
         NEW name \in OneQubitGates
  PROVE  Feels(UndoGate1(name, a, q), f, r, d) <=> Feels(a, FrameGate1(name, f, q), r, d)
<1>1. CASE name \in {"I", "X", "Y", "Z"}
  BY <1>1 DEF UndoGate1, FrameGate1
<1>2. CASE name \in {"H", "SQRT_Y", "SQRT_Y_DAG", "H_NXZ"}
  BY <1>2, HAgrees DEF UndoGate1, FrameGate1
<1>3. CASE name \in {"S", "S_DAG", "H_XY", "H_NXY"}
  BY <1>3, SAgrees DEF UndoGate1, FrameGate1
<1>4. CASE name \in {"SQRT_X", "SQRT_X_DAG", "H_YZ", "H_NYZ"}
  BY <1>4, SqrtXAgrees DEF UndoGate1, FrameGate1
<1>5. CASE name \in {"C_XYZ", "C_NXYZ", "C_XNYZ", "C_XYNZ"}
  BY <1>5, CxyzAgrees DEF UndoGate1, FrameGate1
<1>6. CASE name \in {"C_ZYX", "C_NZYX", "C_ZNYX", "C_ZYNX"}
  BY <1>6, CzyxAgrees DEF UndoGate1, FrameGate1
<1>7. QED
  BY <1>1, <1>2, <1>3, <1>4, <1>5, <1>6 DEF OneQubitGates

\* A swap commutes with a CZ and moves the S of both qubits, so it may be done first.
LEMMA SwapLast ==
  ASSUME NEW f \in Frames, NEW p \in Qubits, NEW q \in Qubits, p # q
  PROVE  /\ do_cz(do_swap(f, p, q), p, q) = do_swap(do_cz(f, p, q), p, q)
         /\ do_s(do_s(do_cz(do_swap(f, p, q), p, q), q), p)
              = do_swap(do_cz(do_s(do_s(f, p), q), p, q), p, q)
<1>1. do_cz(do_swap(f, p, q), p, q) = do_swap(do_cz(f, p, q), p, q)
  BY DEF do_cz, do_swap, Toggle, SymDiff, Frames
<1>2. ASSUME NEW g \in Frames
      PROVE  /\ do_s(do_swap(g, p, q), q) = do_swap(do_s(g, p), p, q)
             /\ do_s(do_swap(g, p, q), p) = do_swap(do_s(g, q), p, q)
  BY DEF do_swap, do_s, Toggle, SymDiff, Frames
<1>3. ASSUME NEW g \in Frames, NEW s \in {p, q}
      PROVE  do_s(do_cz(g, p, q), s) = do_cz(do_s(g, s), p, q)
  BY DEF do_cz, do_s, Toggle, SymDiff, Frames
<1>4. /\ do_cz(f, p, q) \in Frames
      /\ do_s(f, p) \in Frames
      /\ do_s(do_cz(f, p, q), p) \in Frames
  BY FrameTypes, FramePairTypes
<1>5. do_s(do_s(do_swap(do_cz(f, p, q), p, q), q), p)
        = do_swap(do_s(do_s(do_cz(f, p, q), p), q), p, q)
  BY <1>2, <1>4
<1>6. do_s(do_s(do_cz(f, p, q), p), q) = do_cz(do_s(do_s(f, p), q), p, q)
  BY <1>3, <1>4
<1>7. QED
  BY <1>1, <1>5, <1>6

\* So is every two-qubit gate, whose groups are undone one by one, but CXSWAP and SWAPCX: their two
\* steps do not commute, and the analyzer undoes the first one first.
THEOREM TwoQubitGatesAgree ==
  ASSUME NEW a \in Analyses, NEW f \in Frames, NEW p \in Qubits, NEW q \in Qubits, p # q,
         NEW name \in TwoQubitGates \ {"CXSWAP", "SWAPCX"}
  PROVE  Agree(UndoGate2(name, a, p, q), f, a, FrameGate2(name, f, p, q), p, q)
<1> USE FrameTypes, FramePairTypes, AnalysisTypes, AnalysisPairTypes
<1>1. Agree(undo_cx(a, q, p), f, a, do_cx(f, q, p), p, q)
  BY CxAgrees, Symmetric
<1>2. CASE name \in {"CX", "XCZ", "CZ", "SWAP"}
  BY <1>1, <1>2, CxAgrees, CzAgrees, SwapAgrees DEF UndoGate2, FrameGate2
<1>3. CASE name = "CY"
  <2> DEFINE a1 == undo_s(a, q)
             a2 == undo_cx(a1, p, q)
             f1 == do_s(f, q)
             f2 == do_cx(f1, p, q)
  <2>1. a1 \in Analyses /\ f1 \in Frames
    OBVIOUS
  <2>2. a2 \in Analyses /\ f2 \in Frames
    BY <2>1
  <2>3. Agree(undo_s(a2, q), f, a2, f1, p, q)
    BY <2>2, OneOfPair
  <2>4. Agree(a2, f1, a1, f2, p, q)
    BY <2>1, CxAgrees, Symmetric
  <2>5. Agree(a1, f2, a, do_s(f2, q), p, q)
    BY <2>2, OneOfPair
  <2>6. QED
    BY <1>3, <2>3, <2>4, <2>5, InARow DEF UndoGate2, FrameGate2
<1>4. CASE name = "XCX"
  <2> DEFINE a1 == undo_h(a, p)
             a2 == undo_cx(a1, p, q)
             f1 == do_h(f, p)
             f2 == do_cx(f1, p, q)
  <2>1. a1 \in Analyses /\ f1 \in Frames
    OBVIOUS
  <2>2. a2 \in Analyses /\ f2 \in Frames
    BY <2>1
  <2>3. Agree(undo_h(a2, p), f, a2, f1, p, q)
    BY <2>2, OneOfPair
  <2>4. Agree(a2, f1, a1, f2, p, q)
    BY <2>1, CxAgrees, Symmetric
  <2>5. Agree(a1, f2, a, do_h(f2, p), p, q)
    BY <2>2, OneOfPair
  <2>6. QED
    BY <1>4, <2>3, <2>4, <2>5, InARow DEF UndoGate2, FrameGate2
<1>5. CASE name = "XCY"
  <2> DEFINE a1 == undo_sqrt_x(a, q)
             a2 == undo_cx(a1, q, p)
             f1 == do_sqrt_x(f, q)
             f2 == do_cx(f1, q, p)
  <2>1. a1 \in Analyses /\ f1 \in Frames
    OBVIOUS
  <2>2. a2 \in Analyses /\ f2 \in Frames
    BY <2>1
  <2>3. Agree(undo_sqrt_x(a2, q), f, a2, f1, p, q)
    BY <2>2, OneOfPair
  <2>4. Agree(a2, f1, a1, f2, p, q)
    BY <2>1, CxAgrees, Symmetric
  <2>5. Agree(a1, f2, a, do_sqrt_x(f2, q), p, q)
    BY <2>2, OneOfPair
  <2>6. QED
    BY <1>5, <2>3, <2>4, <2>5, InARow DEF UndoGate2, FrameGate2
<1>6. CASE name = "YCX"
  <2> DEFINE a1 == undo_sqrt_x(a, p)
             a2 == undo_cx(a1, p, q)
             f1 == do_sqrt_x(f, p)
             f2 == do_cx(f1, p, q)
  <2>1. a1 \in Analyses /\ f1 \in Frames
    OBVIOUS
  <2>2. a2 \in Analyses /\ f2 \in Frames
    BY <2>1
  <2>3. Agree(undo_sqrt_x(a2, p), f, a2, f1, p, q)
    BY <2>2, OneOfPair
  <2>4. Agree(a2, f1, a1, f2, p, q)
    BY <2>1, CxAgrees, Symmetric
  <2>5. Agree(a1, f2, a, do_sqrt_x(f2, p), p, q)
    BY <2>2, OneOfPair
  <2>6. QED
    BY <1>6, <2>3, <2>4, <2>5, InARow DEF UndoGate2, FrameGate2
<1>7. CASE name = "YCZ"
  <2> DEFINE a1 == undo_s(a, p)
             a2 == undo_cx(a1, q, p)
             f1 == do_s(f, p)
             f2 == do_cx(f1, q, p)
  <2>1. a1 \in Analyses /\ f1 \in Frames
    OBVIOUS
  <2>2. a2 \in Analyses /\ f2 \in Frames
    BY <2>1
  <2>3. Agree(undo_s(a2, p), f, a2, f1, p, q)
    BY <2>2, OneOfPair
  <2>4. Agree(a2, f1, a1, f2, p, q)
    BY <2>1, CxAgrees, Symmetric
  <2>5. Agree(a1, f2, a, do_s(f2, p), p, q)
    BY <2>2, OneOfPair
  <2>6. QED
    BY <1>7, <2>3, <2>4, <2>5, InARow DEF UndoGate2, FrameGate2
<1>8. CASE name = "YCY"
  <2> DEFINE a1 == undo_sqrt_x(a, p)
             a2 == undo_sqrt_x(a1, q)
             a3 == undo_cz(a2, p, q)
             a4 == undo_sqrt_x(a3, q)
             f1 == do_sqrt_x(f, p)
             f2 == do_sqrt_x(f1, q)
             f3 == do_cz(f2, p, q)
             f4 == do_sqrt_x(f3, q)
  <2>1. a1 \in Analyses /\ f1 \in Frames
    OBVIOUS
  <2>2. a2 \in Analyses /\ f2 \in Frames
    BY <2>1
  <2>3. a3 \in Analyses /\ f3 \in Frames
    BY <2>2
  <2>4. a4 \in Analyses /\ f4 \in Frames
    BY <2>3
  <2>5. Agree(undo_sqrt_x(a4, p), f, a4, f1, p, q)
    BY <2>4, OneOfPair
  <2>6. Agree(a4, f1, a3, f2, p, q)
    BY <2>1, <2>3, OneOfPair
  <2>7. Agree(a3, f2, a2, f3, p, q)
    BY <2>2, CzAgrees
  <2>8. Agree(a2, f3, a1, f4, p, q)
    BY <2>1, <2>3, OneOfPair
  <2>9. Agree(a1, f4, a, do_sqrt_x(f4, p), p, q)
    BY <2>4, OneOfPair
  <2>10. QED
    BY <1>8, <2>5, <2>6, <2>7, <2>8, <2>9, InARow DEF UndoGate2, FrameGate2
<1>9. CASE name \in {"ISWAP", "ISWAP_DAG"}
  <2> DEFINE a1 == undo_s(a, p)
             a2 == undo_s(a1, q)
             a3 == undo_cz(a2, p, q)
             f1 == do_swap(f, p, q)
             f2 == do_cz(f1, p, q)
             f3 == do_s(f2, q)
  <2>1. a1 \in Analyses /\ f1 \in Frames
    OBVIOUS
  <2>2. a2 \in Analyses /\ f2 \in Frames
    BY <2>1
  <2>3. a3 \in Analyses /\ f3 \in Frames
    BY <2>2
  <2>4. Agree(undo_swap(a3, p, q), f, a3, f1, p, q)
    BY <2>3, SwapAgrees
  <2>5. Agree(a3, f1, a2, f2, p, q)
    BY <2>1, <2>2, CzAgrees
  <2>6. Agree(a2, f2, a1, f3, p, q)
    BY <2>1, <2>2, OneOfPair
  <2>7. Agree(a1, f3, a, do_s(f3, p), p, q)
    BY <2>3, OneOfPair
  <2>8. do_s(f3, p) = FrameGate2(name, f, p, q)
    BY <1>9, SwapLast DEF FrameGate2
  <2>9. Agree(undo_swap(a3, p, q), f, a, do_s(f3, p), p, q)
    BY <2>4, <2>5, <2>6, <2>7, InARow
  <2>10. UndoGate2(name, a, p, q) = undo_swap(a3, p, q)
    BY <1>9 DEF UndoGate2
  <2>11. QED
    BY <2>8, <2>9, <2>10
<1>10. CASE name = "CZSWAP"
  <2> DEFINE a1 == undo_cz(a, p, q)
             f1 == do_swap(f, p, q)
  <2>1. Agree(undo_swap(a1, p, q), f, a1, f1, p, q)
    BY SwapAgrees
  <2>2. Agree(a1, f1, a, do_cz(f1, p, q), p, q)
    BY CzAgrees
  <2>3. QED
    BY <1>10, <2>1, <2>2, SwapLast, InARow DEF UndoGate2, FrameGate2
<1>11. QED
  BY <1>2, <1>3, <1>4, <1>5, <1>6, <1>7, <1>8, <1>9, <1>10 DEF TwoQubitGates

(***************************************************************************)
(* A frame is carried as the Pauli string of a row is.                     *)
(***************************************************************************)

\* A sign changes no Pauli string.
LEMMA SignsAside ==
  ASSUME NEW r \in Row, NEW negative
  PROVE  Signed(r, negative) \in Row /\ PauliOf(Signed(r, negative)) = PauliOf(r)
BY DEF Signed, Row, PauliOf

\* The parts that the gates of the tableau are made of.
LEMMA RowParts ==
  ASSUME NEW r \in Row, NEW q \in Qubits
  PROVE  /\ Exchanged(r, q) \in Row /\ PauliOf(Exchanged(r, q)) = do_h(PauliOf(r), q)
         /\ ZGainsX(r, q) \in Row /\ PauliOf(ZGainsX(r, q)) = do_s(PauliOf(r), q)
         /\ XGainsZ(r, q) \in Row /\ PauliOf(XGainsZ(r, q)) = do_sqrt_x(PauliOf(r), q)
<1>1. Exchanged(r, q) \in Row /\ PauliOf(Exchanged(r, q)) = do_h(PauliOf(r), q)
  BY DEF Exchanged, do_h, PauliOf, Row, Toggle, SymDiff
<1>2. ZGainsX(r, q) \in Row /\ PauliOf(ZGainsX(r, q)) = do_s(PauliOf(r), q)
  BY DEF ZGainsX, do_s, PauliOf, Row, Toggle, SymDiff
<1>3. XGainsZ(r, q) \in Row /\ PauliOf(XGainsZ(r, q)) = do_sqrt_x(PauliOf(r), q)
  BY DEF XGainsZ, do_sqrt_x, PauliOf, Row, Toggle, SymDiff
<1>4. QED
  BY <1>1, <1>2, <1>3

\* The gates of the tableau that have rules of their own.
LEMMA RowGates ==
  ASSUME NEW r \in Row, NEW q \in Qubits
  PROVE  /\ H(r, q) \in Row /\ PauliOf(H(r, q)) = do_h(PauliOf(r), q)
         /\ S(r, q) \in Row /\ PauliOf(S(r, q)) = do_s(PauliOf(r), q)
         /\ H_XY(r, q) \in Row /\ PauliOf(H_XY(r, q)) = do_s(PauliOf(r), q)
         /\ H_YZ(r, q) \in Row /\ PauliOf(H_YZ(r, q)) = do_sqrt_x(PauliOf(r), q)
         /\ SQRT_Y(r, q) \in Row /\ PauliOf(SQRT_Y(r, q)) = do_h(PauliOf(r), q)
         /\ SQRT_Y_DAG(r, q) \in Row /\ PauliOf(SQRT_Y_DAG(r, q)) = do_h(PauliOf(r), q)
         /\ X(r, q) \in Row /\ PauliOf(X(r, q)) = PauliOf(r)
         /\ Z(r, q) \in Row /\ PauliOf(Z(r, q)) = PauliOf(r)
<1> USE RowParts, SignsAside
<1>1. H(r, q) \in Row /\ PauliOf(H(r, q)) = do_h(PauliOf(r), q)
  BY DEF H
<1>2. S(r, q) \in Row /\ PauliOf(S(r, q)) = do_s(PauliOf(r), q)
  BY DEF S
<1>3. H_XY(r, q) \in Row /\ PauliOf(H_XY(r, q)) = do_s(PauliOf(r), q)
  BY DEF H_XY
<1>4. H_YZ(r, q) \in Row /\ PauliOf(H_YZ(r, q)) = do_sqrt_x(PauliOf(r), q)
  BY DEF H_YZ
<1>5. SQRT_Y(r, q) \in Row /\ PauliOf(SQRT_Y(r, q)) = do_h(PauliOf(r), q)
  BY DEF SQRT_Y
<1>6. SQRT_Y_DAG(r, q) \in Row /\ PauliOf(SQRT_Y_DAG(r, q)) = do_h(PauliOf(r), q)
  BY DEF SQRT_Y_DAG
<1>7. X(r, q) \in Row /\ PauliOf(X(r, q)) = PauliOf(r)
  BY DEF X
<1>8. Z(r, q) \in Row /\ PauliOf(Z(r, q)) = PauliOf(r)
  BY DEF Z
<1>9. QED
  BY <1>1, <1>2, <1>3, <1>4, <1>5, <1>6, <1>7, <1>8

\* So do the gates of two qubits that have rules of their own.
LEMMA RowPairGates ==
  ASSUME NEW r \in Row, NEW p \in Qubits, NEW q \in Qubits
  PROVE  /\ CX(r, p, q) \in Row /\ PauliOf(CX(r, p, q)) = do_cx(PauliOf(r), p, q)
         /\ SWAP(r, p, q) \in Row /\ PauliOf(SWAP(r, p, q)) = do_swap(PauliOf(r), p, q)
<1>1. CX(r, p, q) \in Row /\ PauliOf(CX(r, p, q)) = do_cx(PauliOf(r), p, q)
  <2> DEFINE moved == [r EXCEPT !.x = Toggle(@, q, p \in r.x), !.z = Toggle(@, p, q \in r.z)]
  <2>1. moved \in Row /\ PauliOf(moved) = do_cx(PauliOf(r), p, q)
    BY DEF do_cx, PauliOf, Row, Toggle, SymDiff
  <2>2. QED
    BY <2>1, SignsAside DEF CX
<1>2. SWAP(r, p, q) \in Row /\ PauliOf(SWAP(r, p, q)) = do_swap(PauliOf(r), p, q)
  BY DEF SWAP, do_swap, PauliOf, Row, Toggle, SymDiff
<1>3. QED
  BY <1>1, <1>2

\* The rules that the frame simulator has in one piece, made of those above.
LEMMA FrameIdentities ==
  ASSUME NEW f \in Frames, NEW q \in Qubits
  PROVE  /\ do_s(do_s(do_s(f, q), q), q) = do_s(f, q)
         /\ do_h(do_s(do_h(f, q), q), q) = do_sqrt_x(f, q)
         /\ do_h(do_s(f, q), q) = do_c_xyz(f, q)
         /\ do_s(do_h(f, q), q) = do_c_zyx(f, q)
<1>1. do_s(do_s(do_s(f, q), q), q) = do_s(f, q)
  BY DEF do_s, Toggle, SymDiff, Frames
<1>2. do_h(do_s(do_h(f, q), q), q) = do_sqrt_x(f, q)
  BY DEF do_h, do_s, do_sqrt_x, Toggle, SymDiff, Frames
<1>3. do_h(do_s(f, q), q) = do_c_xyz(f, q)
  BY DEF do_h, do_s, do_c_xyz, Toggle, SymDiff, Frames
<1>4. do_s(do_h(f, q), q) = do_c_zyx(f, q)
  BY DEF do_h, do_s, do_c_zyx, Toggle, SymDiff, Frames
<1>5. QED
  BY <1>1, <1>2, <1>3, <1>4

\* The frame of a CZ, which the tableau has as a CX between two H.
LEMMA FramePairIdentity ==
  ASSUME NEW f \in Frames, NEW p \in Qubits, NEW q \in Qubits, p # q
  PROVE  do_h(do_cx(do_h(f, q), p, q), q) = do_cz(f, p, q)
BY DEF do_h, do_cx, do_cz, Toggle, SymDiff, Frames

\* The Pauli string of a row is a frame.
LEMMA PauliIsFrame == \A r \in Row : PauliOf(r) \in Frames
BY DEF PauliOf, Row, Frames

\* Gates that the tableau has as a sequence of others.
LEMMA DerivedRowGates ==
  ASSUME NEW r \in Row, NEW q \in Qubits
  PROVE  /\ S_DAG(r, q) \in Row /\ PauliOf(S_DAG(r, q)) = do_s(PauliOf(r), q)
         /\ Y(r, q) \in Row /\ PauliOf(Y(r, q)) = PauliOf(r)
<1>1. S_DAG(r, q) \in Row /\ PauliOf(S_DAG(r, q)) = do_s(PauliOf(r), q)
  BY RowGates, FrameIdentities, PauliIsFrame DEF S_DAG
<1>2. Y(r, q) \in Row /\ PauliOf(Y(r, q)) = PauliOf(r)
  BY RowGates DEF Y
<1>3. QED
  BY <1>1, <1>2

\* More such gates.
LEMMA MoreRowGates ==
  ASSUME NEW r \in Row, NEW q \in Qubits
  PROVE  /\ SQRT_X(r, q) \in Row /\ PauliOf(SQRT_X(r, q)) = do_sqrt_x(PauliOf(r), q)
         /\ SQRT_X_DAG(r, q) \in Row /\ PauliOf(SQRT_X_DAG(r, q)) = do_sqrt_x(PauliOf(r), q)
         /\ C_XYZ(r, q) \in Row /\ PauliOf(C_XYZ(r, q)) = do_c_xyz(PauliOf(r), q)
         /\ C_ZYX(r, q) \in Row /\ PauliOf(C_ZYX(r, q)) = do_c_zyx(PauliOf(r), q)
<1> USE RowGates, DerivedRowGates, FrameIdentities, PauliIsFrame
<1>1. SQRT_X(r, q) \in Row /\ PauliOf(SQRT_X(r, q)) = do_sqrt_x(PauliOf(r), q)
  BY DEF SQRT_X
<1>2. SQRT_X_DAG(r, q) \in Row /\ PauliOf(SQRT_X_DAG(r, q)) = do_sqrt_x(PauliOf(r), q)
  BY DEF SQRT_X_DAG
<1>3. C_XYZ(r, q) \in Row /\ PauliOf(C_XYZ(r, q)) = do_c_xyz(PauliOf(r), q)
  BY DEF C_XYZ
<1>4. C_ZYX(r, q) \in Row /\ PauliOf(C_ZYX(r, q)) = do_c_zyx(PauliOf(r), q)
  BY DEF C_ZYX
<1>5. QED
  BY <1>1, <1>2, <1>3, <1>4

\* Whatever the gate, the frame simulator carries a frame as the tableau carries the Pauli string
\* of a row: a shot's frame stays the difference between the shot and the reference sample.
THEOREM FramesFollowRows ==
  ASSUME NEW r \in Row, NEW q \in Qubits, NEW name \in OneQubitGates
  PROVE  PauliOf(Gate1(name, r, q)) = FrameGate1(name, PauliOf(r), q)
<1>1. \A s \in Row : /\ PauliOf(X(s, q)) = PauliOf(s)
                    /\ PauliOf(Y(s, q)) = PauliOf(s)
                    /\ PauliOf(Z(s, q)) = PauliOf(s)
  BY RowGates, DerivedRowGates
<1>2. CASE name \in {"I", "X", "Y", "Z"}
  BY <1>1, <1>2 DEF Gate1, FrameGate1
<1>3. CASE name \in {"H", "SQRT_Y", "SQRT_Y_DAG", "H_NXZ"}
  <2>1. /\ H(r, q) \in Row
        /\ PauliOf(H(r, q)) = do_h(PauliOf(r), q)
        /\ PauliOf(SQRT_Y(r, q)) = do_h(PauliOf(r), q)
        /\ PauliOf(SQRT_Y_DAG(r, q)) = do_h(PauliOf(r), q)
    BY RowGates
  <2>2. QED
    BY <1>1, <1>3, <2>1 DEF Gate1, FrameGate1
<1>4. CASE name \in {"S", "S_DAG", "H_XY", "H_NXY"}
  <2>1. /\ H_XY(r, q) \in Row
        /\ PauliOf(H_XY(r, q)) = do_s(PauliOf(r), q)
        /\ PauliOf(S(r, q)) = do_s(PauliOf(r), q)
        /\ PauliOf(S_DAG(r, q)) = do_s(PauliOf(r), q)
    BY RowGates, DerivedRowGates
  <2>2. QED
    BY <1>1, <1>4, <2>1 DEF Gate1, FrameGate1
<1>5. CASE name \in {"SQRT_X", "SQRT_X_DAG", "H_YZ", "H_NYZ"}
  <2>1. /\ H_YZ(r, q) \in Row
        /\ PauliOf(H_YZ(r, q)) = do_sqrt_x(PauliOf(r), q)
        /\ PauliOf(SQRT_X(r, q)) = do_sqrt_x(PauliOf(r), q)
        /\ PauliOf(SQRT_X_DAG(r, q)) = do_sqrt_x(PauliOf(r), q)
    BY RowGates, MoreRowGates
  <2>2. QED
    BY <1>1, <1>5, <2>1 DEF Gate1, FrameGate1
<1>6. CASE name \in {"C_XYZ", "C_NXYZ", "C_XNYZ", "C_XYNZ"}
  <2>1. /\ C_XYZ(r, q) \in Row
        /\ PauliOf(C_XYZ(r, q)) = do_c_xyz(PauliOf(r), q)
    BY MoreRowGates
  <2>2. QED
    BY <1>1, <1>6, <2>1 DEF Gate1, FrameGate1
<1>7. CASE name \in {"C_ZYX", "C_NZYX", "C_ZNYX", "C_ZYNX"}
  <2>1. /\ C_ZYX(r, q) \in Row
        /\ PauliOf(C_ZYX(r, q)) = do_c_zyx(PauliOf(r), q)
    BY MoreRowGates
  <2>2. QED
    BY <1>1, <1>7, <2>1 DEF Gate1, FrameGate1
<1>8. QED
  BY <1>2, <1>3, <1>4, <1>5, <1>6, <1>7 DEF OneQubitGates

\* The CZ of the tableau.
LEMMA CzOfRow ==
  ASSUME NEW r \in Row, NEW p \in Qubits, NEW q \in Qubits, p # q
  PROVE  CZ(r, p, q) \in Row /\ PauliOf(CZ(r, p, q)) = do_cz(PauliOf(r), p, q)
<1> DEFINE h == H(r, q)
           c == CX(h, p, q)
<1>1. h \in Row /\ PauliOf(h) = do_h(PauliOf(r), q)
  BY RowGates
<1> HIDE DEF h
<1>2. c \in Row /\ PauliOf(c) = do_cx(PauliOf(h), p, q)
  BY <1>1, RowPairGates
<1> HIDE DEF c
<1>3. H(c, q) \in Row /\ PauliOf(H(c, q)) = do_h(PauliOf(c), q)
  BY <1>2, RowGates
<1>4. do_h(do_cx(do_h(PauliOf(r), q), p, q), q) = do_cz(PauliOf(r), p, q)
  BY FramePairIdentity, PauliIsFrame
<1> QED
  BY <1>1, <1>2, <1>3, <1>4 DEF CZ, c, h

\* The same of every gate on two qubits.
THEOREM FramesFollowRowsOfPairs ==
  ASSUME NEW r \in Row, NEW p \in Qubits, NEW q \in Qubits, p # q, NEW name \in TwoQubitGates
  PROVE  PauliOf(Gate2(name, r, p, q)) = FrameGate2(name, PauliOf(r), p, q)
<1>1. CASE name \in {"CX", "XCZ", "CZ", "SWAP"}
  BY <1>1, RowPairGates, CzOfRow DEF Gate2, FrameGate2
<1>2. CASE name = "CY"
  <2> DEFINE r1 == S_DAG(r, q)
             r2 == CX(r1, p, q)
  <2>1. r1 \in Row /\ PauliOf(r1) = do_s(PauliOf(r), q)
    BY DerivedRowGates
  <2>2. r2 \in Row /\ PauliOf(r2) = do_cx(PauliOf(r1), p, q)
    BY <2>1, RowPairGates
  <2>3. PauliOf(S(r2, q)) = do_s(PauliOf(r2), q)
    BY <2>2, RowGates
  <2>4. QED
    BY <1>2, <2>1, <2>2, <2>3 DEF Gate2, FrameGate2, CY
<1>3. CASE name = "YCZ"
  <2> DEFINE r1 == S_DAG(r, p)
             r2 == CX(r1, q, p)
  <2>1. r1 \in Row /\ PauliOf(r1) = do_s(PauliOf(r), p)
    BY DerivedRowGates
  <2>2. r2 \in Row /\ PauliOf(r2) = do_cx(PauliOf(r1), q, p)
    BY <2>1, RowPairGates
  <2>3. PauliOf(S(r2, p)) = do_s(PauliOf(r2), p)
    BY <2>2, RowGates
  <2>4. QED
    BY <1>3, <2>1, <2>2, <2>3 DEF Gate2, FrameGate2, CY
<1>4. CASE name = "XCX"
  <2> DEFINE r1 == H(r, p)
             r2 == CX(r1, p, q)
  <2>1. r1 \in Row /\ PauliOf(r1) = do_h(PauliOf(r), p)
    BY RowGates
  <2>2. r2 \in Row /\ PauliOf(r2) = do_cx(PauliOf(r1), p, q)
    BY <2>1, RowPairGates
  <2>3. PauliOf(H(r2, p)) = do_h(PauliOf(r2), p)
    BY <2>2, RowGates
  <2>4. QED
    BY <1>4, <2>1, <2>2, <2>3 DEF Gate2, FrameGate2, XCX
<1>5. CASE name = "XCY"
  <2> DEFINE r1 == H_YZ(r, q)
             r2 == CX(r1, q, p)
  <2>1. r1 \in Row /\ PauliOf(r1) = do_sqrt_x(PauliOf(r), q)
    BY RowGates
  <2>2. r2 \in Row /\ PauliOf(r2) = do_cx(PauliOf(r1), q, p)
    BY <2>1, RowPairGates
  <2>3. PauliOf(H_YZ(r2, q)) = do_sqrt_x(PauliOf(r2), q)
    BY <2>2, RowGates
  <2>4. QED
    BY <1>5, <2>1, <2>2, <2>3 DEF Gate2, FrameGate2, XCY
<1>6. CASE name = "YCX"
  <2> DEFINE r1 == H_YZ(r, p)
             r2 == CX(r1, p, q)
  <2>1. r1 \in Row /\ PauliOf(r1) = do_sqrt_x(PauliOf(r), p)
    BY RowGates
  <2>2. r2 \in Row /\ PauliOf(r2) = do_cx(PauliOf(r1), p, q)
    BY <2>1, RowPairGates
  <2>3. PauliOf(H_YZ(r2, p)) = do_sqrt_x(PauliOf(r2), p)
    BY <2>2, RowGates
  <2>4. QED
    BY <1>6, <2>1, <2>2, <2>3 DEF Gate2, FrameGate2, YCX
<1>7. CASE name = "YCY"
  <2> DEFINE r1 == H_YZ(r, p)
             r2 == H_YZ(r1, q)
             r3 == CZ(r2, p, q)
             r4 == H_YZ(r3, q)
  <2>1. r1 \in Row /\ PauliOf(r1) = do_sqrt_x(PauliOf(r), p)
    BY RowGates
  <2>2. r2 \in Row /\ PauliOf(r2) = do_sqrt_x(PauliOf(r1), q)
    BY <2>1, RowGates
  <2>3. r3 \in Row /\ PauliOf(r3) = do_cz(PauliOf(r2), p, q)
    BY <2>2, CzOfRow
  <2>4. r4 \in Row /\ PauliOf(r4) = do_sqrt_x(PauliOf(r3), q)
    BY <2>3, RowGates
  <2>5. PauliOf(H_YZ(r4, p)) = do_sqrt_x(PauliOf(r4), p)
    BY <2>4, RowGates
  <2>6. QED
    BY <1>7, <2>1, <2>2, <2>3, <2>4, <2>5 DEF Gate2, FrameGate2, YCY
<1>8. CASE name = "ISWAP"
  <2> DEFINE r1 == S(r, p)
             r2 == S(r1, q)
             r3 == CZ(r2, p, q)
  <2>1. r1 \in Row /\ PauliOf(r1) = do_s(PauliOf(r), p)
    BY RowGates
  <2>2. r2 \in Row /\ PauliOf(r2) = do_s(PauliOf(r1), q)
    BY <2>1, RowGates
  <2>3. r3 \in Row /\ PauliOf(r3) = do_cz(PauliOf(r2), p, q)
    BY <2>2, CzOfRow
  <2>4. PauliOf(SWAP(r3, p, q)) = do_swap(PauliOf(r3), p, q)
    BY <2>3, RowPairGates
  <2>5. QED
    BY <1>8, <2>1, <2>2, <2>3, <2>4 DEF Gate2, FrameGate2
<1>9. CASE name = "ISWAP_DAG"
  <2> DEFINE r1 == S_DAG(r, p)
             r2 == S_DAG(r1, q)
             r3 == CZ(r2, p, q)
  <2>1. r1 \in Row /\ PauliOf(r1) = do_s(PauliOf(r), p)
    BY DerivedRowGates
  <2>2. r2 \in Row /\ PauliOf(r2) = do_s(PauliOf(r1), q)
    BY <2>1, DerivedRowGates
  <2>3. r3 \in Row /\ PauliOf(r3) = do_cz(PauliOf(r2), p, q)
    BY <2>2, CzOfRow
  <2>4. PauliOf(SWAP(r3, p, q)) = do_swap(PauliOf(r3), p, q)
    BY <2>3, RowPairGates
  <2>5. QED
    BY <1>9, <2>1, <2>2, <2>3, <2>4 DEF Gate2, FrameGate2
<1>10. CASE name = "CXSWAP"
  <2> DEFINE r1 == CX(r, q, p)
  <2>1. r1 \in Row /\ PauliOf(r1) = do_cx(PauliOf(r), q, p)
    BY RowPairGates
  <2>2. PauliOf(CX(r1, p, q)) = do_cx(PauliOf(r1), p, q)
    BY <2>1, RowPairGates
  <2>3. QED
    BY <1>10, <2>1, <2>2 DEF Gate2, FrameGate2
<1>11. CASE name = "SWAPCX"
  <2> DEFINE r1 == CX(r, p, q)
  <2>1. r1 \in Row /\ PauliOf(r1) = do_cx(PauliOf(r), p, q)
    BY RowPairGates
  <2>2. PauliOf(CX(r1, q, p)) = do_cx(PauliOf(r1), q, p)
    BY <2>1, RowPairGates
  <2>3. QED
    BY <1>11, <2>1, <2>2 DEF Gate2, FrameGate2
<1>12. CASE name = "CZSWAP"
  <2> DEFINE r1 == CZ(r, p, q)
  <2>1. r1 \in Row /\ PauliOf(r1) = do_cz(PauliOf(r), p, q)
    BY CzOfRow
  <2>2. PauliOf(SWAP(r1, p, q)) = do_swap(PauliOf(r1), p, q)
    BY <2>1, RowPairGates
  <2>3. QED
    BY <1>12, <2>1, <2>2 DEF Gate2, FrameGate2
<1>13. QED
  BY <1>1, <1>2, <1>3, <1>4, <1>5, <1>6, <1>7, <1>8, <1>9, <1>10, <1>11, <1>12 DEF TwoQubitGates

(***************************************************************************)
(* Measurements and resets.                                                *)
(***************************************************************************)

\* What the analyzer takes a measurement for: a flip before it flips a target if it does so after
\* it, or else if it flips the result and the target looks back at the result.
THEOREM MeasurementsAgree ==
  ASSUME NEW a \in Analyses, NEW f \in Frames, NEW q \in Qubits, NEW r \in Qubits,
         NEW d \in Targets, NEW basis \in Bases
  PROVE  Feels(UndoMeasure(a, q, basis), f, r, d) <=>
           ~(Feels(a, f, r, d) <=>
               (r = q /\ Flips(f, q, basis) /\ d \in a.measurement[a.measured]))
<1>1. CASE basis = "X"
  BY <1>1 DEF Feels, UndoMeasure, Flips, SymDiff, Frames, Analyses
<1>2. CASE basis = "Y"
  BY <1>2 DEF Feels, UndoMeasure, Flips, SymDiff, Frames, Analyses
<1>3. CASE basis = "Z"
  BY <1>3 DEF Feels, UndoMeasure, Flips, SymDiff, Frames, Analyses
<1>4. QED
  BY <1>1, <1>2, <1>3 DEF Bases

\* Where the analyzer finds no gauge, nothing that the frame simulator leaves on a qubit reset in
\* the basis X or Z, its random bit included, flips a target; so the analyzer may clear the qubit.
\* In the basis Y the simulator draws x and z apart from each other, and this does not hold.
THEOREM ResetsAgree ==
  ASSUME NEW a \in Analyses, NEW f \in Frames, NEW q \in Qubits, NEW r \in Qubits,
         NEW d \in Targets, NEW basis \in {"X", "Z"}, NEW g \in Collapsed(f, q, basis),
         a.outcome = "analyzing", Ensured(a, q, basis).outcome = "analyzing"
  PROVE  Feels(Cleared(a, q), f, r, d) <=> Feels(a, g, r, d)
<1>1. Sensitivity(a, q, basis) = {}
  BY DEF Ensured, Analyses
<1>2. CASE basis = "Z"
  <2>1. /\ a.z[q] = {}
        /\ q \notin g.x
        /\ r # q => (r \in g.x <=> r \in f.x) /\ (r \in g.z <=> r \in f.z)
    BY <1>1, <1>2 DEF Sensitivity, Collapsed, Randomized, Frames
  <2>2. QED
    BY <2>1 DEF Feels, Cleared, Analyses
<1>3. CASE basis = "X"
  <2>1. /\ a.x[q] = {}
        /\ q \notin g.z
        /\ r # q => (r \in g.x <=> r \in f.x) /\ (r \in g.z <=> r \in f.z)
    BY <1>1, <1>3 DEF Sensitivity, Collapsed, Randomized, Frames
  <2>2. QED
    BY <2>1 DEF Feels, Cleared, Analyses
<1>4. QED
  BY <1>2, <1>3

(***************************************************************************)
(* Walks. A walk begins in one state and goes on from all states that it   *)
(* may have come to.                                                       *)
(***************************************************************************)

\* Symmetric differences are sums.
LEMMA SymDiffSums ==
  /\ \A A : SymDiff(A, {}) = A /\ SymDiff({}, A) = A
  /\ \A A, B, C : SymDiff(SymDiff(A, B), C) = SymDiff(A, SymDiff(B, C))
<1>1. ASSUME NEW A PROVE SymDiff(A, {}) = A /\ SymDiff({}, A) = A
  BY DEF SymDiff
<1>2. ASSUME NEW A, NEW B, NEW C PROVE SymDiff(SymDiff(A, B), C) = SymDiff(A, SymDiff(B, C))
  BY DEF SymDiff
<1> QED
  BY <1>1, <1>2

\* If each move adds to what is seen of a state what does not depend on the state, a walk does.
LEMMA WalksAdd ==
  ASSUME NEW n \in Nat, NEW states, NEW seen, NEW move, NEW added,
         \A k \in 1 .. n : \A s \in states[k - 1] :
           move[k][s] \subseteq states[k] /\ Adds(seen[k], move[k][s], seen[k - 1][s], added[k])
  PROVE  \E total :
           /\ (\A k \in 1 .. n : added[k] = {{}}) => total = {{}}
           /\ \A s \in states[0] : \A v :
                Walk(v, n, move, s) =>
                  v[n] \subseteq states[n] /\ Adds(seen[n], v[n], seen[0][s], total)
<1> DEFINE After(k, total) ==
             /\ (\A i \in 1 .. n : added[i] = {{}}) => total = {{}}
             /\ \A s \in states[0] : \A v :
                  Walk(v, n, move, s) =>
                    v[k] \subseteq states[k] /\ Adds(seen[k], v[k], seen[0][s], total)
           N == {k \in Nat : k <= n => \E total : After(k, total)}
<1>1. 0 \in N
  <2>1. ASSUME NEW s \in states[0], NEW v, Walk(v, n, move, s)
        PROVE  v[0] \subseteq states[0] /\ Adds(seen[0], v[0], seen[0][s], {{}})
    BY <2>1, SymDiffSums DEF Walk, Adds
  <2>2. After(0, {{}})
    BY <2>1
  <2> HIDE DEF After
  <2> QED
    BY <2>2
<1>2. ASSUME NEW k \in Nat, k \in N PROVE k + 1 \in N
  <2> HIDE DEF After
  <2> SUFFICES ASSUME k + 1 <= n PROVE \E total : After(k + 1, total)
    OBVIOUS
  <2>1. PICK total : After(k, total)
    BY <1>2
  <2> USE DEF After
  <2> DEFINE next == {SymDiff(y, x) : y \in total, x \in added[k + 1]}
  <2>2. k + 1 \in 1 .. n /\ (k + 1) - 1 = k
    OBVIOUS
  <2>3. ASSUME \A i \in 1 .. n : added[i] = {{}} PROVE next = {{}}
    <3>1. total = {{}} /\ added[k + 1] = {{}}
      BY <2>1, <2>2, <2>3
    <3>2. SymDiff({}, {}) = {}
      BY SymDiffSums
    <3>3. ASSUME NEW z \in next PROVE z = {}
      BY <3>1, <3>2
    <3>4. {} \in next
      BY <3>1, <3>2
    <3> HIDE DEF next
    <3> QED
      BY <3>3, <3>4
  <2>4. ASSUME NEW s \in states[0], NEW v, Walk(v, n, move, s)
        PROVE  v[k + 1] \subseteq states[k + 1] /\ Adds(seen[k + 1], v[k + 1], seen[0][s], next)
    <3>1. v[k] \subseteq states[k] /\ Adds(seen[k], v[k], seen[0][s], total)
      BY <2>1, <2>4
    <3>2. v[k + 1] = UNION {move[k + 1][t] : t \in v[k]}
      BY <2>2, <2>4 DEF Walk
    <3>3. \A t \in v[k] :
            /\ move[k + 1][t] \subseteq states[k + 1]
            /\ Adds(seen[k + 1], move[k + 1][t], seen[k][t], added[k + 1])
      BY <2>2, <3>1
    <3>4. v[k + 1] \subseteq states[k + 1]
      BY <3>2, <3>3
    <3>5. ASSUME NEW u \in v[k + 1]
          PROVE  \E x \in next : seen[k + 1][u] = SymDiff(seen[0][s], x)
      <4>1. PICK t \in v[k] : u \in move[k + 1][t]
        BY <3>2
      <4>2. PICK x \in added[k + 1] : seen[k + 1][u] = SymDiff(seen[k][t], x)
        BY <3>3, <4>1 DEF Adds
      <4>3. PICK y \in total : seen[k][t] = SymDiff(seen[0][s], y)
        BY <3>1, <4>1 DEF Adds
      <4>4. SymDiff(y, x) \in next
        OBVIOUS
      <4> QED
        BY <4>2, <4>3, <4>4, SymDiffSums
    <3>6. ASSUME NEW z \in next
          PROVE  \E u \in v[k + 1] : seen[k + 1][u] = SymDiff(seen[0][s], z)
      <4>1. PICK y \in total, x \in added[k + 1] : z = SymDiff(y, x)
        OBVIOUS
      <4>2. PICK t \in v[k] : seen[k][t] = SymDiff(seen[0][s], y)
        BY <3>1 DEF Adds
      <4>3. PICK u \in move[k + 1][t] : seen[k + 1][u] = SymDiff(seen[k][t], x)
        BY <3>3 DEF Adds
      <4>4. u \in v[k + 1]
        BY <3>2, <4>3
      <4> QED
        BY <4>1, <4>2, <4>3, <4>4, SymDiffSums
    <3> HIDE DEF next
    <3> QED
      BY <3>4, <3>5, <3>6 DEF Adds
  <2>5. After(k + 1, next)
    <3> HIDE DEF next
    <3> QED
      BY <2>3, <2>4
  <2> HIDE DEF After
  <2> QED
    BY <2>5
<1>3. n \in N
  <2> HIDE DEF N
  <2> QED
    BY <1>1, <1>2, NaturalInduction
<1>4. PICK total : After(n, total)
  <2> HIDE DEF After
  <2> QED
    BY <1>3
<1> QED
  BY <1>4

\* The last of the first i places.
LEMMA LastOfFirst ==
  ASSUME NEW i \in Nat \ {0}
  PROVE  Max(1 .. i) = i /\ (1 .. i) \ {i} = 1 .. (i - 1)
<1>1. Max(1 .. i) \in 1 .. i
  <2>1. i \in Nat /\ 1 .. i \in SUBSET (1 .. i) /\ 1 .. i # {}
    OBVIOUS
  <2> QED
    BY <2>1, LastPlace
<1>2. \E x \in 1 .. i : \A y \in 1 .. i : x >= y
  OBVIOUS
<1>3. \A y \in 1 .. i : Max(1 .. i) >= y
  BY <1>2 DEF Max
<1> QED
  BY <1>1, <1>3

\* There is such a fold.
LEMMA FoldsFromLeft ==
  ASSUME NEW n \in Nat, NEW V, NEW base \in V[{}], NEW step,
         \A A \in SUBSET (1 .. n) : A # {} =>
           \A y \in V[A \ {Max(A)}] : step[Max(A)][y] \in V[A]
  PROVE  \E f, v : FoldTrace(f, v, n, V, base, step)
<1> DEFINE W == UNION {V[A] : A \in SUBSET (1 .. n)}
           total == [x \in 1 .. n |->
                       [y \in W |-> IF step[x][y] \in W THEN step[x][y] ELSE base]]
<1>1. base \in W /\ total \in [1 .. n -> [W -> W]]
  OBVIOUS
<1>2. \A x \in 1 .. n : \A y \in W : step[x][y] \in W => total[x][y] = step[x][y]
  OBVIOUS
<1>3. \A A \in SUBSET (1 .. n) : V[A] \subseteq W
  OBVIOUS
<1> HIDE DEF total, W
<1>4. PICK f : Folds(f, 1 .. n, W, base, LastOf(n), total)
  BY <1>1, FoldLeftExists
<1>5. ASSUME NEW A \in SUBSET (1 .. n), A # {}
      PROVE  /\ Max(A) \in A /\ Max(A) \in 1 .. n
             /\ f[A] = total[Max(A)][f[A \ {Max(A)}]]
  BY <1>4, <1>5, LastPlace DEF Folds, LastOf
<1>6. f[{}] = base
  BY <1>4 DEF Folds
<1> DEFINE P == {A \in SUBSET (1 .. n) : f[A] \in V[A]}
<1>7. {} \in P
  BY <1>6
<1>8. ASSUME NEW A \in SUBSET (1 .. n), A # {}, \A x \in A : A \ {x} \in P
      PROVE  A \in P /\ f[A] = step[Max(A)][f[A \ {Max(A)}]]
  <2> DEFINE B == A \ {Max(A)}
  <2>1. f[B] \in V[B]
    BY <1>5, <1>8
  <2>2. step[Max(A)][f[B]] \in V[A]
    BY <1>8, <2>1
  <2>3. f[B] \in W /\ step[Max(A)][f[B]] \in W
    BY <1>3, <2>1, <2>2
  <2>4. f[A] = step[Max(A)][f[B]]
    BY <1>2, <1>5, <1>8, <2>3
  <2> QED
    BY <2>2, <2>4
<1> HIDE DEF P
<1>9. \A A \in SUBSET (1 .. n) : A \in P
  <2>1. IsFiniteSet(1 .. n)
    BY FS_Interval
  <2> QED
    BY <1>7, <1>8, <2>1, SubsetInduction
<1>10. \A A \in SUBSET (1 .. n) :
         A # {} => Max(A) \in A /\ f[A] = step[Max(A)][f[A \ {Max(A)}]]
  BY <1>5, <1>8, <1>9
<1> DEFINE v == [i \in 0 .. n |-> f[1 .. i]]
<1>11. Trace(v, n, base, step)
  <2>1. v[0] = base
    BY <1>6
  <2>2. ASSUME NEW i \in 1 .. n PROVE v[i] = step[i][v[i - 1]]
    <3>1. 1 .. i \in SUBSET (1 .. n) /\ 1 .. i # {} /\ i \in Nat \ {0}
      OBVIOUS
    <3>2. f[1 .. i] = step[Max(1 .. i)][f[(1 .. i) \ {Max(1 .. i)}]]
      BY <1>10, <3>1
    <3>3. f[1 .. i] = step[i][f[1 .. (i - 1)]]
      BY <3>1, <3>2, LastOfFirst
    <3> QED
      BY <3>3
  <2> QED
    BY <2>1, <2>2 DEF Trace
<1>12. \A i \in 0 .. n : v[i] \in V[1 .. i]
  BY <1>9 DEF P
<1>13. v[n] = f[1 .. n]
  OBVIOUS
<1> HIDE DEF v
<1>14. \A g : GoesOnAs(f, g, n) => g[1 .. n] = v[n]
  BY <1>13, FoldLeftUnique
<1>15. f = [A \in SUBSET (1 .. n) |-> f[A]]
  BY <1>4 DEF Folds
<1>16. \A A \in SUBSET (1 .. n) : f[A] \in V[A]
  BY <1>9 DEF P
<1>17. FoldTrace(f, v, n, V, base, step)
  BY <1>6, <1>10, <1>11, <1>12, <1>14, <1>15, <1>16 DEF FoldTrace
<1> QED
  BY <1>17

\* Steps that commute may be taken from the last to the first.
LEMMA Reordered ==
  ASSUME NEW n \in Nat, NEW V, NEW step, Stays(step, n, V), Commutes(step, n, V),
         NEW base \in V, NEW v, Trace(v, n, base, step)
  PROVE  \E w : Backwards(w, n, base, step, V, v[n])
<1> DEFINE Reverses(w, k, from, to) == Backwards(w, k, from, step, V, to)
           N == {k \in Nat : k <= n => \A from \in V : \A u :
                   Trace(u, k, from, step) => \E w : Reverses(w, k, from, u[k])}
<1>1. 0 \in N
  <2> SUFFICES ASSUME NEW from \in V, NEW u, Trace(u, 0, from, step)
               PROVE  \E w : Reverses(w, 0, from, u[0])
    OBVIOUS
  <2> DEFINE w == [i \in {0} |-> from]
  <2>1. Reverses(w, 0, from, u[0])
    BY DEF Trace, Backwards
  <2> HIDE DEF w, Reverses
  <2> QED
    BY <2>1
<1>2. ASSUME NEW k \in Nat, k \in N PROVE k + 1 \in N
  <2> SUFFICES ASSUME k + 1 <= n, NEW from \in V, NEW u, Trace(u, k + 1, from, step)
               PROVE  \E w : Reverses(w, k + 1, from, u[k + 1])
    OBVIOUS
  <2>1. k + 1 \in 1 .. n /\ k <= n
    OBVIOUS
  <2> DEFINE u2 == [i \in 0 .. k |-> step[k + 1][u[i]]]
             from2 == step[k + 1][from]
  <2>2. from2 \in V
    BY <2>1 DEF Stays
  <2>3. ASSUME NEW i \in 0 .. k PROVE u[i] \in V
    <3> DEFINE M == {j \in Nat : j <= k => u[j] \in V}
    <3>1. 0 \in M
      BY DEF Trace
    <3>2. ASSUME NEW j \in Nat, j \in M PROVE j + 1 \in M
      <4> SUFFICES ASSUME j + 1 <= k PROVE u[j + 1] \in V
        OBVIOUS
      <4>1. u[j] \in V /\ j + 1 \in 1 .. n /\ j + 1 \in 1 .. (k + 1) /\ (j + 1) - 1 = j
        BY <2>1, <3>2
      <4>2. u[j + 1] = step[j + 1][u[j]]
        BY <4>1 DEF Trace
      <4> QED
        BY <4>1, <4>2 DEF Stays
    <3> HIDE DEF M
    <3>3. i \in M
      BY <3>1, <3>2, NaturalInduction
    <3> QED
      BY <3>3 DEF M
  <2>4. Trace(u2, k, from2, step)
    <3>1. u2[0] = from2
      BY DEF Trace
    <3>2. ASSUME NEW i \in 1 .. k PROVE u2[i] = step[i][u2[i - 1]]
      BY <2>1, <2>3 DEF Trace, Commutes
    <3> HIDE DEF u2, from2
    <3> QED
      BY <3>1, <3>2 DEF Trace
  <2>5. u2[k] = u[k + 1]
    BY <2>1 DEF Trace
  <2> HIDE DEF u2, from2
  <2>6. PICK w2 : Reverses(w2, k, from2, u2[k])
    <3> HIDE DEF Reverses
    <3> QED
      BY <1>2, <2>1, <2>2, <2>4
  <2> DEFINE w == [i \in 0 .. (k + 1) |-> IF i = k + 1 THEN from ELSE w2[i]]
  <2>7. Reverses(w, k + 1, from, u[k + 1])
    <3>1. w[k + 1] = from /\ w[0] = u[k + 1]
      BY <2>5, <2>6 DEF Backwards
    <3>2. ASSUME NEW i \in 1 .. (k + 1) PROVE w[i - 1] = step[i][w[i]]
      BY <2>6 DEF from2, Backwards
    <3>3. \A i \in 0 .. (k + 1) : w[i] \in V
      BY <2>6 DEF Backwards
    <3> HIDE DEF w
    <3> QED
      BY <3>1, <3>2, <3>3 DEF Backwards
  <2> HIDE DEF w, Reverses
  <2> QED
    BY <2>7
<1>3. n \in N
  <2> HIDE DEF N
  <2> QED
    BY <1>1, <1>2, NaturalInduction
<1>4. \E w : Reverses(w, n, base, v[n])
  <2> HIDE DEF Reverses
  <2> QED
    BY <1>3
<1> QED
  BY <1>4

(***************************************************************************)
(* Products, folded onto their last qubit and unfolded.                    *)
(***************************************************************************)

\* What the rules leave as it is.
LEMMA UndoChanges ==
  ASSUME NEW a \in Analyses, NEW p \in Qubits, NEW q \in Qubits
  PROVE  /\ undo_h(a, q) \in ChangedOn(a, {q})
         /\ undo_s(a, q) \in ChangedOn(a, {q})
         /\ undo_sqrt_x(a, q) \in ChangedOn(a, {q})
         /\ undo_c_xyz(a, q) \in ChangedOn(a, {q})
         /\ undo_c_zyx(a, q) \in ChangedOn(a, {q})
         /\ undo_cx(a, p, q) \in ChangedOn(a, {p, q})
         /\ undo_cz(a, p, q) \in ChangedOn(a, {p, q})
         /\ undo_swap(a, p, q) \in ChangedOn(a, {p, q})
<1> DEFINE one == {undo_h(a, q), undo_s(a, q), undo_sqrt_x(a, q), undo_c_xyz(a, q), undo_c_zyx(a, q)}
           two == {undo_cx(a, p, q), undo_cz(a, p, q), undo_swap(a, p, q)}
<1>1. one \cup two \subseteq Analyses
  BY AnalysisTypes, AnalysisPairTypes
<1>2. ASSUME NEW b \in one
      PROVE  /\ b.measurement = a.measurement /\ b.measured = a.measured
             /\ b.detector = a.detector /\ b.outcome = a.outcome
  BY DEF undo_h, undo_s, undo_sqrt_x, undo_c_xyz, undo_c_zyx, Analyses
<1>3. ASSUME NEW b \in one, NEW r \in Qubits \ {q} PROVE b.x[r] = a.x[r] /\ b.z[r] = a.z[r]
  <2>1. a.x \in [Qubits -> SUBSET Targets] /\ a.z \in [Qubits -> SUBSET Targets] /\ r # q
    BY DEF Analyses
  <2>2. CASE b = undo_h(a, q)
    BY <2>1, <2>2 DEF undo_h, Analyses
  <2>3. CASE b = undo_s(a, q)
    BY <2>1, <2>3 DEF undo_s, Analyses
  <2>4. CASE b = undo_sqrt_x(a, q)
    BY <2>1, <2>4 DEF undo_sqrt_x, Analyses
  <2>5. CASE b = undo_c_xyz(a, q)
    BY <2>1, <2>5 DEF undo_c_xyz, Analyses
  <2>6. CASE b = undo_c_zyx(a, q)
    BY <2>1, <2>6 DEF undo_c_zyx, Analyses
  <2> QED
    BY <2>2, <2>3, <2>4, <2>5, <2>6
<1>4. ASSUME NEW b \in two
      PROVE  /\ b.measurement = a.measurement /\ b.measured = a.measured
             /\ b.detector = a.detector /\ b.outcome = a.outcome
  BY DEF undo_cx, undo_cz, undo_swap, Analyses
<1>5. ASSUME NEW b \in two, NEW r \in Qubits \ {p, q} PROVE b.x[r] = a.x[r] /\ b.z[r] = a.z[r]
  <2>1. a.x \in [Qubits -> SUBSET Targets] /\ a.z \in [Qubits -> SUBSET Targets] /\ r # q /\ r # p
    BY DEF Analyses
  <2>2. CASE b = undo_cx(a, p, q)
    BY <2>1, <2>2 DEF undo_cx, Analyses
  <2>3. CASE b = undo_cz(a, p, q)
    BY <2>1, <2>3 DEF undo_cz, Analyses
  <2>4. CASE b = undo_swap(a, p, q)
    BY <2>1, <2>4 DEF undo_swap, Analyses
  <2> QED
    BY <2>2, <2>3, <2>4
<1>6. \A b \in one : b \in ChangedOn(a, {q})
  <2> HIDE DEF one
  <2> QED
    BY <1>1, <1>2, <1>3 DEF ChangedOn
<1>7. \A b \in two : b \in ChangedOn(a, {p, q})
  <2> HIDE DEF two
  <2> QED
    BY <1>1, <1>4, <1>5 DEF ChangedOn
<1> QED
  BY <1>6, <1>7

\* Changes after changes.
LEMMA ChangedMore ==
  ASSUME NEW Q, NEW P \in SUBSET Q, NEW a, NEW b \in ChangedOn(a, Q), NEW c \in ChangedOn(b, P)
  PROVE  c \in ChangedOn(a, Q)
BY DEF ChangedOn

\* The basis of one term changed, in a frame and in an analysis.
LEMMA TermTypes ==
  ASSUME NEW term \in Qubits \X Bases
  PROVE  /\ \A f \in Frames : FoldTerm(f, term) \in Frames
         /\ \A Q, a : \A b \in ChangedOn(a, Q) :
              term[1] \in Q => UndoTerm(b, term) \in ChangedOn(a, Q)
<1>1. term[1] \in Qubits /\ term[2] \in Bases
  OBVIOUS
<1>2. ASSUME NEW f \in Frames PROVE FoldTerm(f, term) \in Frames
  BY <1>1, FrameTypes DEF FoldTerm, Bases
<1>3. ASSUME NEW Q, NEW a, NEW b \in ChangedOn(a, Q), term[1] \in Q
      PROVE  UndoTerm(b, term) \in ChangedOn(a, Q)
  <2> DEFINE q == term[1]
  <2>1. b \in Analyses /\ q \in Qubits
    BY <1>1 DEF ChangedOn
  <2>2. undo_h(b, q) \in ChangedOn(b, {q}) /\ undo_sqrt_x(b, q) \in ChangedOn(b, {q})
    BY <2>1, UndoChanges
  <2>3. undo_h(b, q) \in ChangedOn(a, Q) /\ undo_sqrt_x(b, q) \in ChangedOn(a, Q)
    <3>1. {q} \subseteq Q
      BY <1>3
    <3> HIDE DEF q
    <3> QED
      BY <2>2, <3>1, ChangedMore
  <2>4. b \in ChangedOn(a, Q)
    OBVIOUS
  <2> QED
    BY <1>1, <2>2, <2>3, <2>4 DEF UndoTerm, Bases
<1> QED
  BY <1>2, <1>3

\* One term crossed with the anchor.
LEMMA CrossingTypes ==
  ASSUME NEW c \in Qubits, NEW t \in Qubits
  PROVE  /\ \A f \in Frames : do_cx(f, c, t) \in Frames
         /\ \A Q, a : \A b \in ChangedOn(a, Q) :
              c \in Q /\ t \in Q => undo_cx(b, c, t) \in ChangedOn(a, Q)
<1>1. ASSUME NEW Q, NEW a, NEW b \in ChangedOn(a, Q), c \in Q, t \in Q
      PROVE  undo_cx(b, c, t) \in ChangedOn(a, Q)
  <2>1. b \in Analyses
    BY DEF ChangedOn
  <2> QED
    <3>1. undo_cx(b, c, t) \in ChangedOn(b, {c, t}) /\ {c, t} \subseteq Q
      BY <1>1, <2>1, UndoChanges
    <3> QED
      BY <3>1, ChangedMore
<1> QED
  BY <1>1, FramePairTypes

\* The changes of basis of a frame are a fold.
LEMMA FoldTermsFolded ==
  ASSUME NEW terms \in Seq(Qubits \X Bases), NEW f0 \in Frames
  PROVE  \E v : Follows(v, Len(terms), f0, FoldTermSteps(terms), Frames, FoldTerms(f0, terms))
<1> DEFINE n == Len(terms)
           U == Frames
           V == [A \in SUBSET (1 .. n) |-> U]
           step == FoldTermSteps(terms)
           Is(g) == g = [A \in SUBSET (1 .. n) |->
                           IF A = {} THEN f0
                           ELSE LET x == Max(A) IN FoldTerm(g[A \ {x}], terms[x])]
           it == CHOOSE g : Is(g)
<1>1. n \in Nat /\ DOMAIN terms = 1 .. n
  OBVIOUS
<1>2. ASSUME NEW i \in 1 .. n, NEW b \in U PROVE FoldTerm(b, terms[i]) \in U
  BY <1>1, TermTypes
<1>3. \A i \in 1 .. n : \A b \in U : step[i][b] = FoldTerm(b, terms[i]) /\ step[i][b] \in U
  BY <1>2 DEF FoldTermSteps
<1>4. FoldTerms(f0, terms) = it[1 .. n]
  BY <1>1 DEF FoldTerms, FoldLeft, MapThenFoldSet
<1>5. f0 \in V[{}] /\ \A A \in SUBSET (1 .. n) : V[A] = U
  BY <1>1
<1>6. ASSUME NEW A \in SUBSET (1 .. n), A # {}
      PROVE  \A y \in V[A \ {Max(A)}] : step[Max(A)][y] \in V[A]
  <2>1. Max(A) \in 1 .. n
    BY <1>1, <1>6, LastPlace
  <2> HIDE DEF step, U, V
  <2> QED
    BY <1>3, <1>5, <2>1
<1> HIDE DEF n, step, U, V
<1>7. PICK f, v : FoldTrace(f, v, n, V, f0, step)
  BY <1>1, <1>5, <1>6, FoldsFromLeft
<1>8. \A A \in SUBSET (1 .. n) :
        f[A] = IF A = {} THEN f0 ELSE FoldTerm(f[A \ {Max(A)}], terms[Max(A)])
  <2> SUFFICES ASSUME NEW A \in SUBSET (1 .. n)
               PROVE  f[A] = IF A = {} THEN f0 ELSE FoldTerm(f[A \ {Max(A)}], terms[Max(A)])
    OBVIOUS
  <2>1. CASE A = {}
    BY <1>7, <2>1 DEF FoldTrace
  <2>2. CASE A # {}
    <3> DEFINE B == A \ {Max(A)}
    <3>1. Max(A) \in 1 .. n /\ B \in SUBSET (1 .. n)
      BY <1>1, <2>2, LastPlace
    <3>2. f[A] = step[Max(A)][f[B]] /\ f[B] \in U
      BY <1>5, <1>7, <2>2, <3>1 DEF FoldTrace
    <3> HIDE DEF B
    <3>3. f[A] = FoldTerm(f[B], terms[Max(A)])
      BY <1>3, <3>1, <3>2
    <3> QED
      BY <2>2, <3>3 DEF B
  <2> QED
    BY <2>1, <2>2
<1>9. Is(f)
  <2>1. f = [A \in SUBSET (1 .. n) |-> f[A]]
    BY <1>7 DEF FoldTrace
  <2> QED
    BY <1>8, <2>1
<1>10. Is(it)
  <2> HIDE DEF Is
  <2> QED
    BY <1>9
<1> HIDE DEF it
<1>11. GoesOnAs(f, it, n)
  BY <1>8, <1>10 DEF GoesOnAs
<1>12. FoldTerms(f0, terms) = v[n]
  BY <1>4, <1>7, <1>11 DEF FoldTrace
<1>13. \A i \in 0 .. n : v[i] \in U
  BY <1>1, <1>5, <1>7 DEF FoldTrace
<1> QED
  BY <1>7, <1>12, <1>13 DEF FoldTrace, Follows, n, step, U

\* So are its crossings.
LEMMA FoldCrossingsFolded ==
  ASSUME NEW terms \in Seq(Qubits \X Bases), NEW anchor \in Qubits, NEW f0 \in Frames
  PROVE  \E v : Follows(v, Len(terms), f0, FoldCrossingSteps(terms, anchor), Frames,
                        FoldCrossings(f0, terms, anchor))
<1> DEFINE n == Len(terms)
           U == Frames
           V == [A \in SUBSET (1 .. n) |-> U]
           step == FoldCrossingSteps(terms, anchor)
           Is(g) == g = [A \in SUBSET (1 .. n) |->
                           IF A = {} THEN f0
                           ELSE LET x == Max(A) IN do_cx(g[A \ {x}], terms[x][1], anchor)]
           it == CHOOSE g : Is(g)
<1>1. n \in Nat /\ DOMAIN terms = 1 .. n
  OBVIOUS
<1>2. ASSUME NEW i \in 1 .. n, NEW b \in U PROVE do_cx(b, terms[i][1], anchor) \in U
  BY <1>1, CrossingTypes
<1>3. \A i \in 1 .. n : \A b \in U : step[i][b] = do_cx(b, terms[i][1], anchor) /\ step[i][b] \in U
  BY <1>2 DEF FoldCrossingSteps
<1>4. FoldCrossings(f0, terms, anchor) = it[1 .. n]
  BY <1>1 DEF FoldCrossings, FoldLeft, MapThenFoldSet
<1>5. f0 \in V[{}] /\ \A A \in SUBSET (1 .. n) : V[A] = U
  BY <1>1
<1>6. ASSUME NEW A \in SUBSET (1 .. n), A # {}
      PROVE  \A y \in V[A \ {Max(A)}] : step[Max(A)][y] \in V[A]
  <2>1. Max(A) \in 1 .. n
    BY <1>1, <1>6, LastPlace
  <2> HIDE DEF step, U, V
  <2>2. V[A] = U /\ V[A \ {Max(A)}] = U
    BY <1>5
  <2> QED
    BY <1>3, <2>1, <2>2
<1> HIDE DEF n, step, U, V
<1>7. PICK f, v : FoldTrace(f, v, n, V, f0, step)
  BY <1>1, <1>5, <1>6, FoldsFromLeft
<1>8. \A A \in SUBSET (1 .. n) :
        f[A] = IF A = {} THEN f0 ELSE do_cx(f[A \ {Max(A)}], terms[Max(A)][1], anchor)
  <2> SUFFICES ASSUME NEW A \in SUBSET (1 .. n)
               PROVE  f[A] = IF A = {} THEN f0 ELSE do_cx(f[A \ {Max(A)}], terms[Max(A)][1], anchor)
    OBVIOUS
  <2>1. CASE A = {}
    BY <1>7, <2>1 DEF FoldTrace
  <2>2. CASE A # {}
    <3> DEFINE B == A \ {Max(A)}
    <3>1. Max(A) \in 1 .. n /\ B \in SUBSET (1 .. n)
      BY <1>1, <2>2, LastPlace
    <3>2. f[A] = step[Max(A)][f[B]] /\ f[B] \in U
      BY <1>5, <1>7, <2>2, <3>1 DEF FoldTrace
    <3> HIDE DEF B
    <3>3. f[A] = do_cx(f[B], terms[Max(A)][1], anchor)
      BY <1>3, <3>1, <3>2
    <3> QED
      BY <2>2, <3>3 DEF B
  <2> QED
    BY <2>1, <2>2
<1>9. Is(f)
  <2>1. f = [A \in SUBSET (1 .. n) |-> f[A]]
    BY <1>7 DEF FoldTrace
  <2> QED
    BY <1>8, <2>1
<1>10. Is(it)
  <2> HIDE DEF Is
  <2> QED
    BY <1>9
<1> HIDE DEF it
<1>11. GoesOnAs(f, it, n)
  BY <1>8, <1>10 DEF GoesOnAs
<1>12. FoldCrossings(f0, terms, anchor) = v[n]
  BY <1>4, <1>7, <1>11 DEF FoldTrace
<1>13. \A i \in 0 .. n : v[i] \in U
  BY <1>1, <1>5, <1>7 DEF FoldTrace
<1> QED
  BY <1>7, <1>12, <1>13 DEF FoldTrace, Follows, n, step, U

\* The changes of basis of an analysis.
LEMMA UndoTermsFolded ==
  ASSUME NEW terms \in Seq(Qubits \X Bases), NEW Q, \A i \in 1 .. Len(terms) : terms[i][1] \in Q,
         NEW a0 \in Analyses
  PROVE  \E v : Follows(v, Len(terms), a0, UndoTermSteps(terms, ChangedOn(a0, Q)), ChangedOn(a0, Q),
                        UndoTerms(a0, terms))
<1> DEFINE n == Len(terms)
           U == ChangedOn(a0, Q)
           V == [A \in SUBSET (1 .. n) |-> U]
           step == UndoTermSteps(terms, ChangedOn(a0, Q))
           Is(g) == g = [A \in SUBSET (1 .. n) |->
                           IF A = {} THEN a0
                           ELSE LET x == Max(A) IN UndoTerm(g[A \ {x}], terms[x])]
           it == CHOOSE g : Is(g)
<1>1. n \in Nat /\ DOMAIN terms = 1 .. n
  OBVIOUS
<1>2. ASSUME NEW i \in 1 .. n, NEW b \in U PROVE UndoTerm(b, terms[i]) \in U
  BY <1>1, TermTypes
<1>3. \A i \in 1 .. n : \A b \in U : step[i][b] = UndoTerm(b, terms[i]) /\ step[i][b] \in U
  BY <1>2 DEF UndoTermSteps
<1>4. UndoTerms(a0, terms) = it[1 .. n]
  BY <1>1 DEF UndoTerms, FoldLeft, MapThenFoldSet
<1>5. a0 \in V[{}] /\ \A A \in SUBSET (1 .. n) : V[A] = U
  BY DEF ChangedOn
<1>6. ASSUME NEW A \in SUBSET (1 .. n), A # {}
      PROVE  \A y \in V[A \ {Max(A)}] : step[Max(A)][y] \in V[A]
  <2>1. Max(A) \in 1 .. n
    BY <1>1, <1>6, LastPlace
  <2> HIDE DEF step, U, V
  <2> QED
    BY <1>3, <1>5, <2>1
<1> HIDE DEF n, step, U, V
<1>7. PICK f, v : FoldTrace(f, v, n, V, a0, step)
  BY <1>1, <1>5, <1>6, FoldsFromLeft
<1>8. \A A \in SUBSET (1 .. n) :
        f[A] = IF A = {} THEN a0 ELSE UndoTerm(f[A \ {Max(A)}], terms[Max(A)])
  <2> SUFFICES ASSUME NEW A \in SUBSET (1 .. n)
               PROVE  f[A] = IF A = {} THEN a0 ELSE UndoTerm(f[A \ {Max(A)}], terms[Max(A)])
    OBVIOUS
  <2>1. CASE A = {}
    BY <1>7, <2>1 DEF FoldTrace
  <2>2. CASE A # {}
    <3> DEFINE B == A \ {Max(A)}
    <3>1. Max(A) \in 1 .. n /\ B \in SUBSET (1 .. n)
      BY <1>1, <2>2, LastPlace
    <3>2. f[A] = step[Max(A)][f[B]] /\ f[B] \in U
      BY <1>5, <1>7, <2>2, <3>1 DEF FoldTrace
    <3> HIDE DEF B
    <3>3. f[A] = UndoTerm(f[B], terms[Max(A)])
      BY <1>3, <3>1, <3>2
    <3> QED
      BY <2>2, <3>3 DEF B
  <2> QED
    BY <2>1, <2>2
<1>9. Is(f)
  <2>1. f = [A \in SUBSET (1 .. n) |-> f[A]]
    BY <1>7 DEF FoldTrace
  <2> QED
    BY <1>8, <2>1
<1>10. Is(it)
  <2> HIDE DEF Is
  <2> QED
    BY <1>9
<1> HIDE DEF it
<1>11. GoesOnAs(f, it, n)
  BY <1>8, <1>10 DEF GoesOnAs
<1>12. UndoTerms(a0, terms) = v[n]
  BY <1>4, <1>7, <1>11 DEF FoldTrace
<1>13. \A i \in 0 .. n : v[i] \in U
  BY <1>1, <1>5, <1>7 DEF FoldTrace
<1> QED
  BY <1>7, <1>12, <1>13 DEF FoldTrace, Follows, n, step, U

\* Its crossings.
LEMMA UndoCrossingsFolded ==
  ASSUME NEW terms \in Seq(Qubits \X Bases), NEW Q, \A i \in 1 .. Len(terms) : terms[i][1] \in Q,
         NEW anchor \in Qubits \cap Q, NEW a0 \in Analyses
  PROVE  \E v : Follows(v, Len(terms), a0, UndoCrossingSteps(terms, anchor, ChangedOn(a0, Q)),
                        ChangedOn(a0, Q), UndoCrossings(a0, terms, anchor))
<1> DEFINE n == Len(terms)
           U == ChangedOn(a0, Q)
           V == [A \in SUBSET (1 .. n) |-> U]
           step == UndoCrossingSteps(terms, anchor, ChangedOn(a0, Q))
           Is(g) == g = [A \in SUBSET (1 .. n) |->
                           IF A = {} THEN a0
                           ELSE LET x == Max(A) IN undo_cx(g[A \ {x}], terms[x][1], anchor)]
           it == CHOOSE g : Is(g)
<1>1. n \in Nat /\ DOMAIN terms = 1 .. n
  OBVIOUS
<1>2. ASSUME NEW i \in 1 .. n, NEW b \in U PROVE undo_cx(b, terms[i][1], anchor) \in U
  BY <1>1, CrossingTypes
<1>3. \A i \in 1 .. n : \A b \in U : step[i][b] = undo_cx(b, terms[i][1], anchor) /\ step[i][b] \in U
  BY <1>2 DEF UndoCrossingSteps
<1>4. UndoCrossings(a0, terms, anchor) = it[1 .. n]
  BY <1>1 DEF UndoCrossings, FoldLeft, MapThenFoldSet
<1>5. a0 \in V[{}] /\ \A A \in SUBSET (1 .. n) : V[A] = U
  BY DEF ChangedOn
<1>6. ASSUME NEW A \in SUBSET (1 .. n), A # {}
      PROVE  \A y \in V[A \ {Max(A)}] : step[Max(A)][y] \in V[A]
  <2>1. Max(A) \in 1 .. n
    BY <1>1, <1>6, LastPlace
  <2> HIDE DEF step, U, V
  <2> QED
    BY <1>3, <1>5, <2>1
<1> HIDE DEF n, step, U, V
<1>7. PICK f, v : FoldTrace(f, v, n, V, a0, step)
  BY <1>1, <1>5, <1>6, FoldsFromLeft
<1>8. \A A \in SUBSET (1 .. n) :
        f[A] = IF A = {} THEN a0 ELSE undo_cx(f[A \ {Max(A)}], terms[Max(A)][1], anchor)
  <2> SUFFICES ASSUME NEW A \in SUBSET (1 .. n)
               PROVE  f[A] = IF A = {} THEN a0 ELSE undo_cx(f[A \ {Max(A)}], terms[Max(A)][1], anchor)
    OBVIOUS
  <2>1. CASE A = {}
    BY <1>7, <2>1 DEF FoldTrace
  <2>2. CASE A # {}
    <3> DEFINE B == A \ {Max(A)}
    <3>1. Max(A) \in 1 .. n /\ B \in SUBSET (1 .. n)
      BY <1>1, <2>2, LastPlace
    <3>2. f[A] = step[Max(A)][f[B]] /\ f[B] \in U
      BY <1>5, <1>7, <2>2, <3>1 DEF FoldTrace
    <3> HIDE DEF B
    <3>3. f[A] = undo_cx(f[B], terms[Max(A)][1], anchor)
      BY <1>3, <3>1, <3>2
    <3> QED
      BY <2>2, <3>3 DEF B
  <2> QED
    BY <2>1, <2>2
<1>9. Is(f)
  <2>1. f = [A \in SUBSET (1 .. n) |-> f[A]]
    BY <1>7 DEF FoldTrace
  <2> QED
    BY <1>8, <2>1
<1>10. Is(it)
  <2> HIDE DEF Is
  <2> QED
    BY <1>9
<1> HIDE DEF it
<1>11. GoesOnAs(f, it, n)
  BY <1>8, <1>10 DEF GoesOnAs
<1>12. UndoCrossings(a0, terms, anchor) = v[n]
  BY <1>4, <1>7, <1>11 DEF FoldTrace
<1>13. \A i \in 0 .. n : v[i] \in U
  BY <1>1, <1>5, <1>7 DEF FoldTrace
<1> QED
  BY <1>7, <1>12, <1>13 DEF FoldTrace, Follows, n, step, U

(***************************************************************************)
(* What a whole frame flips.                                               *)
(***************************************************************************)

\* They do if they say the same of every qubit.
LEMMA SameMirrors ==
  ASSUME NEW b, NEW f, NEW a, NEW g,
         \A r \in Qubits, d \in Targets : Feels(b, f, r, d) <=> Feels(a, g, r, d)
  PROVE  Mirrors(b, f, a, g)
<1>1. ASSUME NEW d \in Targets
      PROVE  {q \in Qubits : Feels(b, f, q, d)} = {q \in Qubits : Feels(a, g, q, d)}
  OBVIOUS
<1> QED
  BY <1>1 DEF Mirrors, Touches

\* They do if they agree on a pair together and on every other qubit.
LEMMA AgreeMirrors ==
  ASSUME NEW b, NEW f, NEW a, NEW g, NEW p \in Qubits, NEW q \in Qubits, p # q,
         Agree(b, f, a, g, p, q)
  PROVE  Mirrors(b, f, a, g)
<1> SUFFICES ASSUME NEW d \in Targets PROVE Touches(b, f, d) <=> Touches(a, g, d)
  BY DEF Mirrors
<1> DEFINE B == {r \in Qubits : Feels(b, f, r, d)}
           A == {r \in Qubits : Feels(a, g, r, d)}
<1>1. /\ \A r \in Qubits \ {p, q} : r \in B <=> r \in A
      /\ ~(p \in B <=> q \in B) <=> ~(p \in A <=> q \in A)
  BY DEF Agree, FeelsPair
<1>2. B \in SUBSET Qubits /\ A \in SUBSET Qubits
  OBVIOUS
<1>3. Touches(b, f, d) <=> Odd(B)
  BY DEF Touches
<1>4. Touches(a, g, d) <=> Odd(A)
  BY DEF Touches
<1> HIDE DEF A, B
<1>5. SymDiff(B, A) = {} \/ SymDiff(B, A) = {p, q}
  BY <1>1, <1>2 DEF SymDiff
<1>6. ~Odd({}) /\ ~Odd({p, q})
  <2>1. Cardinality({}) = 0
    BY FS_EmptySet
  <2>2. Cardinality({p, q}) = 2
    <3>1. IsFiniteSet({p}) /\ Cardinality({p}) = 1 /\ q \notin {p} /\ {p} \cup {q} = {p, q}
      BY FS_Singleton
    <3>2. Cardinality({p} \cup {q}) = Cardinality({p}) + 1
      BY <3>1, FS_AddElement
    <3> QED
      BY <3>1, <3>2
  <2> QED
    BY <2>1, <2>2 DEF Odd
<1>7. Odd(SymDiff(B, A)) <=> ~(Odd(B) <=> Odd(A))
  BY <1>2, QubitSets, OddSymDiff
<1> QED
  BY <1>3, <1>4, <1>5, <1>6, <1>7

\* So they do at the ends of a chain.
LEMMA MirrorChain ==
  ASSUME NEW n \in Nat, NEW c, NEW g,
         \A k \in 1 .. n : Mirrors(c[k - 1], g[k - 1], c[k], g[k])
  PROVE  Mirrors(c[0], g[0], c[n], g[n])
<1> DEFINE N == {k \in Nat : k <= n => Mirrors(c[0], g[0], c[k], g[k])}
<1>1. 0 \in N
  BY DEF Mirrors
<1>2. ASSUME NEW k \in Nat, k \in N PROVE k + 1 \in N
  <2> SUFFICES ASSUME k + 1 <= n PROVE Mirrors(c[0], g[0], c[k + 1], g[k + 1])
    OBVIOUS
  <2>1. Mirrors(c[0], g[0], c[k], g[k]) /\ k + 1 \in 1 .. n /\ (k + 1) - 1 = k
    BY <1>2
  <2>2. Mirrors(c[k], g[k], c[k + 1], g[k + 1])
    BY <2>1
  <2> QED
    BY <2>1, <2>2 DEF Mirrors
<1> HIDE DEF N
<1>3. n \in N
  BY <1>1, <1>2, NaturalInduction
<1> QED
  BY <1>3 DEF N

\* The change of basis of one term.
LEMMA TermMirrors ==
  ASSUME NEW a \in Analyses, NEW f \in Frames, NEW term \in Qubits \X Bases
  PROVE  Mirrors(UndoTerm(a, term), f, a, FoldTerm(f, term))
<1>1. term[1] \in Qubits /\ term[2] \in Bases
  OBVIOUS
<1>2. ASSUME NEW r \in Qubits, NEW d \in Targets
      PROVE  Feels(UndoTerm(a, term), f, r, d) <=> Feels(a, FoldTerm(f, term), r, d)
  BY <1>1, HAgrees, SqrtXAgrees DEF UndoTerm, FoldTerm, Bases
<1> QED
  BY <1>2, SameMirrors

\* They are equal then.
LEMMA SameAnalyses ==
  ASSUME NEW a \in Analyses, NEW b \in Analyses, SameBut(a, b),
         \A r \in Qubits : SameAt(a, b, r)
  PROVE  a = b
<1>1. a.x = b.x /\ a.z = b.z
  BY DEF Analyses, SameAt
<1> QED
  BY <1>1 DEF Analyses, SameBut

\* The changes of the bases of different qubits commute.
LEMMA TermsCommute ==
  ASSUME NEW a \in Analyses, NEW s \in Qubits \X Bases, NEW t \in Qubits \X Bases, s[1] # t[1]
  PROVE  UndoTerm(UndoTerm(a, s), t) = UndoTerm(UndoTerm(a, t), s)
<1>1. s[1] \in Qubits /\ t[1] \in Qubits /\ s[2] \in Bases /\ t[2] \in Bases
  OBVIOUS
<1>2. ASSUME NEW p \in Qubits, NEW q \in Qubits, p # q
      PROVE  /\ undo_h(undo_h(a, p), q) = undo_h(undo_h(a, q), p)
             /\ undo_h(undo_sqrt_x(a, p), q) = undo_sqrt_x(undo_h(a, q), p)
             /\ undo_sqrt_x(undo_sqrt_x(a, p), q) = undo_sqrt_x(undo_sqrt_x(a, q), p)
  <2> DEFINE hh == undo_h(undo_h(a, p), q)
             hs == undo_h(undo_sqrt_x(a, p), q)
             ss == undo_sqrt_x(undo_sqrt_x(a, p), q)
             hh2 == undo_h(undo_h(a, q), p)
             hs2 == undo_sqrt_x(undo_h(a, q), p)
             ss2 == undo_sqrt_x(undo_sqrt_x(a, q), p)
  <2>1. {hh, hs, ss, hh2, hs2, ss2} \subseteq Analyses
    BY AnalysisTypes
  <2>2. /\ SameBut(hh, hh2) /\ SameBut(hs, hs2) /\ SameBut(ss, ss2)
    BY DEF undo_h, undo_sqrt_x, Analyses, SameBut
  <2>3. ASSUME NEW r \in Qubits PROVE SameAt(hh, hh2, r) /\ SameAt(hs, hs2, r) /\ SameAt(ss, ss2, r)
    BY <1>2 DEF Analyses, undo_h, SameAt, undo_sqrt_x
  <2> HIDE DEF hh, hs, ss, hh2, hs2, ss2
  <2>4. hh = hh2 /\ hs = hs2 /\ ss = ss2
    BY <2>1, <2>2, <2>3, SameAnalyses
  <2> QED
    BY <2>4 DEF hh, hs, ss, hh2, hs2, ss2
<1> QED
  BY <1>1, <1>2 DEF UndoTerm, Bases

\* The changes of the bases of a product's qubits, undone in the order in which they are made.
LEMMA TermsMirror ==
  ASSUME NEW terms \in PauliProducts, NEW a \in Analyses, NEW f \in Frames
  PROVE  Mirrors(UndoTerms(a, terms), f, a, FoldTerms(f, terms))
<1> DEFINE n == Len(terms)
           U == ChangedOn(a, Qubits)
           step == UndoTermSteps(terms, U)
<1>1. /\ terms \in Seq(Qubits \X Bases) /\ n \in Nat
      /\ \A i, j \in 1 .. n : terms[i][1] = terms[j][1] => i = j
  BY DEF PauliProducts
<1>2. \A i \in 1 .. n : terms[i] \in Qubits \X Bases /\ terms[i][1] \in Qubits
  BY <1>1
<1>3. a \in U /\ \A b \in U : b \in Analyses
  BY DEF ChangedOn
<1>4. \A i \in 1 .. n : \A b \in U : step[i][b] = UndoTerm(b, terms[i]) /\ step[i][b] \in U
  BY <1>2, TermTypes DEF UndoTermSteps
<1>5. PICK v : Follows(v, n, a, step, U, UndoTerms(a, terms))
  BY <1>2, <1>1, UndoTermsFolded
<1>6. PICK g : Follows(g, n, f, FoldTermSteps(terms), Frames, FoldTerms(f, terms))
  BY <1>1, FoldTermsFolded
<1>7. ASSUME NEW i \in 1 .. n
      PROVE  g[i - 1] \in Frames /\ g[i] = FoldTerm(g[i - 1], terms[i])
  <2>1. g[i - 1] \in Frames /\ g[i] = FoldTermSteps(terms)[i][g[i - 1]]
    BY <1>1, <1>6 DEF Follows, Trace
  <2> QED
    BY <2>1 DEF FoldTermSteps
<1>8. Commutes(step, n, U)
  <2> SUFFICES ASSUME NEW i \in 1 .. n, NEW j \in 1 .. n, NEW b \in U
               PROVE  step[i][step[j][b]] = step[j][step[i][b]]
    BY DEF Commutes
  <2> HIDE DEF step, U, n
  <2>1. CASE i = j
    BY <2>1
  <2>2. CASE i # j
    BY <1>1, <1>3, <2>2, <1>2, TermsCommute, <1>4
  <2> QED
    BY <2>1, <2>2
<1> HIDE DEF n, U, step
<1>9. PICK w : Backwards(w, n, a, step, U, v[n])
  BY <1>4, <1>5, <1>1, <1>3, <1>8, Reordered DEF Stays, Follows
<1>10. ASSUME NEW k \in 1 .. n PROVE Mirrors(w[k - 1], g[k - 1], w[k], g[k])
  <2>1. k \in 0 .. n /\ k - 1 \in 0 .. n
    BY <1>1
  <2>2. w[k] \in Analyses /\ w[k] \in U /\ g[k - 1] \in Frames /\ terms[k] \in Qubits \X Bases
    BY <1>2, <1>3, <1>7, <1>9, <2>1 DEF Backwards
  <2>3. w[k - 1] = UndoTerm(w[k], terms[k]) /\ g[k] = FoldTerm(g[k - 1], terms[k])
    BY <1>4, <1>7, <1>9, <2>2 DEF Backwards
  <2> QED
    BY <2>2, <2>3, TermMirrors
<1>11. Mirrors(w[0], g[0], w[n], g[n])
  BY <1>1, <1>10, MirrorChain
<1> QED
  BY <1>5, <1>6, <1>9, <1>11 DEF Follows, Trace, Backwards

\* Crossings, undone from the last to the first.
LEMMA CrossingsMirror ==
  ASSUME NEW terms \in Seq(Qubits \X Bases), NEW anchor \in Qubits, Aside(terms, anchor),
         NEW back \in Seq(Qubits \X Bases), Len(back) = Len(terms),
         \A i \in 1 .. Len(terms) : back[i] = terms[Len(terms) + 1 - i],
         NEW a \in Analyses, NEW f \in Frames
  PROVE  Mirrors(UndoCrossings(a, back, anchor), f, a, FoldCrossings(f, terms, anchor))
<1> DEFINE n == Len(terms)
           U == ChangedOn(a, Qubits)
<1>1. n \in Nat /\ \A i \in 1 .. n : terms[i][1] \in Qubits /\ terms[i][1] # anchor
  BY DEF Aside
<1>2. PICK v : Follows(v, n, a, UndoCrossingSteps(back, anchor, U), U, UndoCrossings(a, back, anchor))
  <2>1. \A i \in 1 .. Len(back) : back[i][1] \in Qubits
    OBVIOUS
  <2>2. anchor \in Qubits \cap Qubits
    OBVIOUS
  <2>3. \E v : Follows(v, Len(back), a, UndoCrossingSteps(back, anchor, ChangedOn(a, Qubits)),
                       ChangedOn(a, Qubits), UndoCrossings(a, back, anchor))
    BY <2>1, <2>2, UndoCrossingsFolded
  <2> QED
    BY <2>3
<1>3. ASSUME NEW i \in 1 .. n
      PROVE  v[i - 1] \in U /\ v[i] = undo_cx(v[i - 1], back[i][1], anchor)
  <2>1. v[i - 1] \in U /\ v[i] = UndoCrossingSteps(back, anchor, U)[i][v[i - 1]]
    BY <1>1, <1>2 DEF Follows, Trace
  <2> QED
    BY <2>1 DEF UndoCrossingSteps
<1>4. PICK g : Follows(g, n, f, FoldCrossingSteps(terms, anchor), Frames, FoldCrossings(f, terms, anchor))
  BY <1>1, FoldCrossingsFolded
<1>5. ASSUME NEW i \in 1 .. n
      PROVE  g[i - 1] \in Frames /\ g[i] = do_cx(g[i - 1], terms[i][1], anchor)
  <2>1. g[i - 1] \in Frames /\ g[i] = FoldCrossingSteps(terms, anchor)[i][g[i - 1]]
    BY <1>1, <1>4 DEF Follows, Trace
  <2> QED
    BY <2>1 DEF FoldCrossingSteps
<1> DEFINE w == [k \in 0 .. n |-> v[n - k]]
<1>6. ASSUME NEW k \in 1 .. n PROVE Mirrors(w[k - 1], g[k - 1], w[k], g[k])
  <2> DEFINE i == n - k + 1
  <2>1. /\ i \in 1 .. n /\ i - 1 = n - k /\ i = n - (k - 1) /\ n + 1 - i = k
        /\ i - 1 \in 0 .. n /\ k \in 0 .. n /\ k - 1 \in 0 .. n
    BY <1>1
  <2>2. back[i] = terms[k]
    BY <2>1
  <2> HIDE DEF i, n
  <2>3. w[k - 1] = v[i] /\ w[k] = v[i - 1]
    BY <2>1
  <2> HIDE DEF w
  <2>4. w[k - 1] = undo_cx(w[k], terms[k][1], anchor) /\ g[k] = do_cx(g[k - 1], terms[k][1], anchor)
    BY <1>3, <1>5, <2>1, <2>2, <2>3
  <2>5. w[k] \in Analyses /\ g[k - 1] \in Frames
    BY <1>3, <1>5, <2>1, <2>3 DEF ChangedOn
  <2>6. Agree(w[k - 1], g[k - 1], w[k], g[k], terms[k][1], anchor)
    BY <1>1, <2>4, <2>5, CxAgrees
  <2> QED
    BY <1>1, <2>6, AgreeMirrors
<1>7. w[0] = v[n] /\ w[n] = v[0]
  BY <1>1
<1> HIDE DEF w, n
<1>8. Mirrors(w[0], g[0], w[n], g[n])
  BY <1>1, <1>6, MirrorChain
<1> QED
  BY <1>2, <1>4, <1>7, <1>8 DEF Follows, Trace

\* What the steps keep, the values have at the end.
LEMMA FollowsKeeps ==
  ASSUME NEW n \in Nat, NEW v, NEW base, NEW step, NEW V, NEW end, Follows(v, n, base, step, V, end),
         NEW P, base \in P, \A i \in 1 .. n : \A y \in V \cap P : step[i][y] \in P
  PROVE  end \in P
<1> DEFINE N == {k \in Nat : k <= n => v[k] \in P}
<1>1. 0 \in N
  BY DEF Follows, Trace
<1>2. ASSUME NEW k \in Nat, k \in N PROVE k + 1 \in N
  <2> SUFFICES ASSUME k + 1 <= n PROVE v[k + 1] \in P
    OBVIOUS
  <2>1. v[k] \in P /\ k + 1 \in 1 .. n /\ (k + 1) - 1 = k /\ k \in 0 .. n
    BY <1>2
  <2>2. v[k + 1] = step[k + 1][v[k]] /\ v[k] \in V
    BY <2>1 DEF Follows, Trace
  <2> QED
    BY <2>1, <2>2
<1> HIDE DEF N
<1>3. n \in N
  BY <1>1, <1>2, NaturalInduction
<1> QED
  BY <1>3 DEF N, Follows

\* The parts of a product, the other way round, and where they are.
LEMMA ProductPlaces ==
  ASSUME NEW product \in PauliProducts
  PROVE  LET front == Front(product)
             back == Reverse(front)
         IN /\ Anchor(product) \in QubitsIn(product) \cap Qubits
            /\ \A i \in 1 .. Len(product) : product[i][1] \in QubitsIn(product)
            /\ \A i \in 1 .. Len(front) : front[i][1] \in QubitsIn(product)
            /\ \A i \in 1 .. Len(back) : back[i][1] \in QubitsIn(product)
            /\ Len(back) = Len(front)
            /\ \A i \in 1 .. Len(front) : back[i] = front[Len(front) + 1 - i]
            /\ \A i \in 1 .. Len(front) : front[i] = back[Len(front) + 1 - i]
<1> DEFINE n == Len(product)
           front == Front(product)
           back == Reverse(front)
<1>1. product \in Seq(Qubits \X Bases) /\ n \in Nat \ {0}
  BY DEF PauliProducts
<1>2. \A i \in 1 .. n : product[i] \in Range(product) /\ product[i][1] \in QubitsIn(product)
  BY <1>1 DEF QubitsIn, Range
<1>3. Anchor(product) \in QubitsIn(product) \cap Qubits
  BY <1>1, <1>2, ProductParts DEF Anchor, Last
<1>4. front = SubSeq(product, 1, n - 1)
  BY DEF Front
<1>5. Len(front) = n - 1 /\ \A i \in 1 .. n - 1 : front[i] = product[i]
  <2> HIDE DEF n, front
  <2>1. n = Len(product) /\ n - 1 \in Nat /\ n - 1 <= Len(product) /\ n - 1 + 1 - 1 = n - 1
    BY <1>1 DEF n
  <2>2. Len(front) = n - 1
    BY <1>1, <1>4, <2>1
  <2>3. \A i \in 1 .. n - 1 : front[i] = product[i]
    BY <1>1, <1>4, <2>1
  <2> QED
    BY <2>2, <2>3
<1> HIDE DEF front, n
<1>6. back = [i \in 1 .. n - 1 |-> front[(n - 1 - i) + 1]]
  BY <1>5 DEF Reverse
<1>7. Len(back) = n - 1
  <2>1. back \in Seq(Qubits \X Bases)
    BY ProductParts DEF front
  <2>2. DOMAIN back = 1 .. n - 1
    BY <1>6
  <2> HIDE DEF back
  <2> QED
    BY <1>1, <2>1, <2>2
<1>8. \A i \in 1 .. n - 1 : n - i \in 1 .. n - 1 /\ (n - 1 - i) + 1 = n - i /\ n - 1 + 1 - i = n - i
                            /\ n - (n - i) = i
  BY <1>1
<1>9. \A i \in 1 .. n - 1 : back[i] = front[n - i]
  BY <1>6, <1>8
<1>10. \A i \in 1 .. n - 1 : i \in 1 .. n
  BY <1>1
<1> HIDE DEF back
<1>11. \A i \in 1 .. Len(product) : product[i][1] \in QubitsIn(product)
  BY <1>2 DEF n
<1>12. /\ \A i \in 1 .. Len(front) : front[i][1] \in QubitsIn(product)
       /\ Len(back) = Len(front)
  BY <1>2, <1>5, <1>7, <1>10
<1>13. \A i \in 1 .. Len(back) : back[i][1] \in QubitsIn(product)
  <2> SUFFICES ASSUME NEW i \in 1 .. n - 1 PROVE back[i][1] \in QubitsIn(product)
    BY <1>7
  <2>1. back[i] = front[n - i] /\ n - i \in 1 .. n - 1
    BY <1>8, <1>9
  <2> QED
    BY <1>5, <1>12, <2>1
<1>14. /\ \A i \in 1 .. Len(front) : back[i] = front[Len(front) + 1 - i]
       /\ \A i \in 1 .. Len(front) : front[i] = back[Len(front) + 1 - i]
  BY <1>8, <1>9, <1>1, <1>5
<1> QED
  BY <1>3, <1>11, <1>12, <1>13, <1>14 DEF front, back

\* The analyzer folds a product as frames are unfolded, and unfolds it as they are folded.
LEMMA ProductsMirror ==
  ASSUME NEW product \in PauliProducts, NEW a \in Analyses, NEW f \in Frames
  PROVE  /\ UnfoldFrame(f, product) \in Frames /\ FoldFrame(f, product) \in Frames
         /\ UndoUnfold(a, product) \in ChangedOn(a, QubitsIn(product))
         /\ UndoFold(a, product) \in ChangedOn(a, QubitsIn(product))
         /\ Mirrors(UndoUnfold(a, product), f, a, UnfoldFrame(f, product))
         /\ Mirrors(UndoFold(a, product), f, a, FoldFrame(f, product))
         /\ a.x[Anchor(product)] = {} /\ a.z[Anchor(product)] = {} =>
              UndoUnfold(a, product).x[Anchor(product)] = {}
<1> DEFINE front == Front(product)
           back == Reverse(front)
           anchor == Anchor(product)
           Q == QubitsIn(product)
<1>1. /\ product \in Seq(Qubits \X Bases) /\ anchor \in Qubits \cap Q
      /\ front \in Seq(Qubits \X Bases) /\ Aside(front, anchor)
      /\ back \in Seq(Qubits \X Bases) /\ Aside(back, anchor)
      /\ Len(product) \in Nat /\ Len(front) \in Nat /\ Len(back) \in Nat
  BY ProductParts, ProductPlaces DEF Anchor
<1>2. /\ \A i \in 1 .. Len(product) : product[i][1] \in Q
      /\ \A i \in 1 .. Len(front) : front[i][1] \in Q
      /\ \A i \in 1 .. Len(back) : back[i][1] \in Q
      /\ Len(back) = Len(front)
      /\ \A i \in 1 .. Len(front) : back[i] = front[Len(front) + 1 - i]
      /\ \A i \in 1 .. Len(front) : front[i] = back[Len(front) + 1 - i]
  BY ProductPlaces
<1>3. \A b, g : /\ FoldFrame(g, product) = FoldCrossings(FoldTerms(g, product), front, anchor)
                /\ UnfoldFrame(g, product) = FoldTerms(FoldCrossings(g, back, anchor), product)
                /\ UndoUnfold(b, product) = UndoCrossings(UndoTerms(b, product), front, anchor)
                /\ UndoFold(b, product) = UndoTerms(UndoCrossings(b, back, anchor), product)
  BY DEF FoldFrame, UnfoldFrame, UndoFold, UndoUnfold, FoldTerms, FoldCrossings, UndoTerms,
         UndoCrossings, Anchor
<1> HIDE DEF front, back, anchor, Q
<1>4. ASSUME NEW g \in Frames
      PROVE  /\ FoldTerms(g, product) \in Frames
             /\ FoldCrossings(g, front, anchor) \in Frames
             /\ FoldCrossings(g, back, anchor) \in Frames
  <2>1. PICK v : Follows(v, Len(product), g, FoldTermSteps(product), Frames, FoldTerms(g, product))
    BY <1>1, FoldTermsFolded
  <2>2. PICK v2 : Follows(v2, Len(front), g, FoldCrossingSteps(front, anchor), Frames,
                         FoldCrossings(g, front, anchor))
    BY <1>1, FoldCrossingsFolded
  <2>3. PICK v3 : Follows(v3, Len(back), g, FoldCrossingSteps(back, anchor), Frames,
                         FoldCrossings(g, back, anchor))
    BY <1>1, FoldCrossingsFolded
  <2> QED
    BY <1>1, <2>1, <2>2, <2>3 DEF Follows
<1>5. ASSUME NEW b \in Analyses
      PROVE  /\ UndoTerms(b, product) \in ChangedOn(b, Q)
             /\ UndoCrossings(b, front, anchor) \in ChangedOn(b, Q)
             /\ UndoCrossings(b, back, anchor) \in ChangedOn(b, Q)
  <2> DEFINE U == ChangedOn(b, Q)
  <2>1. PICK v : Follows(v, Len(product), b, UndoTermSteps(product, U), U, UndoTerms(b, product))
    BY <1>1, <1>2, UndoTermsFolded
  <2>2. PICK v2 : Follows(v2, Len(front), b, UndoCrossingSteps(front, anchor, U), U,
                         UndoCrossings(b, front, anchor))
    BY <1>1, <1>2, UndoCrossingsFolded
  <2>3. PICK v3 : Follows(v3, Len(back), b, UndoCrossingSteps(back, anchor, U), U,
                         UndoCrossings(b, back, anchor))
    BY <1>1, <1>2, UndoCrossingsFolded
  <2> HIDE DEF U
  <2> QED
    BY <1>1, <2>1, <2>2, <2>3 DEF Follows, U
<1>6. \A b, c : b \in ChangedOn(c, Q) => b \in Analyses
  BY DEF ChangedOn
<1>7. /\ FoldFrame(f, product) \in Frames /\ UnfoldFrame(f, product) \in Frames
  BY <1>3, <1>4
<1>8. /\ UndoUnfold(a, product) \in ChangedOn(a, Q) /\ UndoFold(a, product) \in ChangedOn(a, Q)
  BY ChangedMore, <1>3, <1>5, <1>6
<1>9. Mirrors(UndoUnfold(a, product), f, a, UnfoldFrame(f, product))
  <2> DEFINE b == UndoTerms(a, product)
             g == FoldCrossings(f, back, anchor)
  <2>1. Mirrors(UndoCrossings(b, front, anchor), f, b, g)
    BY <1>1, <1>2, <1>5, <1>6, CrossingsMirror
  <2>2. Mirrors(b, g, a, FoldTerms(g, product))
    BY <1>4, TermsMirror
  <2> HIDE DEF b, g
  <2> QED
    BY <1>3, <2>1, <2>2 DEF Mirrors, b, g
<1>10. Mirrors(UndoFold(a, product), f, a, FoldFrame(f, product))
  <2> DEFINE b == UndoCrossings(a, back, anchor)
             g == FoldTerms(f, product)
  <2>1. Mirrors(UndoTerms(b, product), f, b, g)
    BY <1>5, <1>6, TermsMirror
  <2>2. Mirrors(b, g, a, FoldCrossings(g, front, anchor))
    BY <1>1, <1>2, <1>4, CrossingsMirror
  <2> HIDE DEF b, g
  <2> QED
    BY <1>3, <2>1, <2>2 DEF Mirrors, b, g
<1>11. ASSUME a.x[anchor] = {}, a.z[anchor] = {}
       PROVE  UndoUnfold(a, product).x[anchor] = {}
  <2> DEFINE U == ChangedOn(a, Q)
             P == {b \in Analyses : b.x[anchor] = {} /\ b.z[anchor] = {}}
             c == UndoTerms(a, product)
             U2 == ChangedOn(c, Q)
             P2 == {b \in Analyses : b.x[anchor] = {}}
  <2>1. PICK v : Follows(v, Len(product), a, UndoTermSteps(product, U), U, c)
    BY <1>1, <1>2, UndoTermsFolded
  <2>2. ASSUME NEW i \in 1 .. Len(product), NEW y \in U \cap P
        PROVE  UndoTermSteps(product, U)[i][y] \in P
    <3> DEFINE q == product[i][1]
    <3>1. product[i] \in Qubits \X Bases /\ q \in Qubits /\ product[i][2] \in Bases
      BY <1>1
    <3>2. UndoTermSteps(product, U)[i][y] = UndoTerm(y, product[i])
      BY DEF UndoTermSteps
    <3>3. undo_h(y, q) \in P
      <4>1. undo_h(y, q) \in Analyses
        BY <3>1, AnalysisTypes
      <4> QED
        BY <1>1, <3>1, <4>1 DEF undo_h, Analyses
    <3>4. undo_sqrt_x(y, q) \in P
      <4>1. undo_sqrt_x(y, q) \in Analyses
        BY <3>1, AnalysisTypes
      <4>2. SymDiff({}, {}) = {}
        BY SymDiffSums
      <4> QED
        BY <1>1, <3>1, <4>1, <4>2 DEF undo_sqrt_x, Analyses
    <3> HIDE DEF P, U
    <3> QED
      BY <3>1, <3>2, <3>3, <3>4 DEF UndoTerm, Bases
  <2>3. c \in P
    <3>1. a \in P
      BY <1>11
    <3> HIDE DEF P, c, U
    <3> QED
      BY <1>1, <2>1, <2>2, <3>1, FollowsKeeps
  <2>4. PICK v2 : Follows(v2, Len(front), c, UndoCrossingSteps(front, anchor, U2), U2,
                          UndoCrossings(c, front, anchor))
    <3>1. c \in Analyses
      BY <2>3
    <3> HIDE DEF c
    <3> QED
      BY <1>1, <1>2, <3>1, UndoCrossingsFolded
  <2>5. ASSUME NEW i \in 1 .. Len(front), NEW y \in U2 \cap P2
        PROVE  UndoCrossingSteps(front, anchor, U2)[i][y] \in P2
    <3> DEFINE q == front[i][1]
    <3>1. q \in Qubits /\ q # anchor
      BY <1>1 DEF Aside
    <3>2. UndoCrossingSteps(front, anchor, U2)[i][y] = undo_cx(y, q, anchor)
      BY DEF UndoCrossingSteps
    <3>3. undo_cx(y, q, anchor) \in Analyses
      BY <1>1, <3>1, AnalysisPairTypes
    <3> HIDE DEF q
    <3>4. undo_cx(y, q, anchor).x[anchor] = {}
      BY <1>1, <3>1 DEF undo_cx, Analyses
    <3> QED
      BY <3>2, <3>3, <3>4
  <2>6. UndoCrossings(c, front, anchor) \in P2
    <3>1. c \in P2
      BY <2>3
    <3> HIDE DEF P, P2, c, U2
    <3> QED
      BY <1>1, <2>4, <2>5, <3>1, FollowsKeeps
  <2> QED
    BY <1>3, <2>6
<1> QED
  BY <1>7, <1>8, <1>9, <1>10, <1>11 DEF anchor, Q

(***************************************************************************)
(* The states of the frame simulator, and what the analyzer expects them   *)
(* to fire in the end.                                                     *)
(***************************************************************************)

\* A state gets another frame.
LEMMA Moved ==
  ASSUME NEW a \in Analyses, NEW b, b.measurement = a.measurement, b.measured = a.measured,
         b.detector = a.detector, NEW s \in SimsAt(b), NEW g \in Frames,
         Mirrors(b, s.frame, a, g)
  PROVE  Framed(s, g) \in SimsAt(a) /\ Effect(a, Framed(s, g)) = Effect(b, s)
<1> DEFINE u == [s EXCEPT !.frame = g]
<1>1. /\ u \in Sims /\ u.flips = s.flips /\ u.detectors = s.detectors
      /\ u.observables = s.observables /\ u.frame = g
  BY DEF Sims, SimsAt
<1> HIDE DEF u
<1>2. u \in SimsAt(a)
  BY <1>1 DEF SimsAt
<1>3. Fired(u) = Fired(s)
  BY <1>1 DEF Fired
<1>4. \A d : Recalls(a, u.flips, d) <=> Recalls(b, s.flips, d)
  BY <1>1 DEF Recalls
<1>5. Effect(a, u) = Effect(b, s)
  BY <1>1, <1>3, <1>4 DEF Effect, Mirrors
<1> QED
  BY <1>2, <1>5 DEF u, Framed

\* One more result.
LEMMA RecalledMore ==
  ASSUME NEW flips \in Seq(BOOLEAN), NEW e \in BOOLEAN, NEW a, NEW b, NEW d,
         \A m \in 1 .. Len(flips) : d \in b.measurement[m] <=> d \in a.measurement[m]
  PROVE  Recalls(a, Append(flips, e), d) <=>
           ~(Recalls(b, flips, d) <=> (e /\ d \in a.measurement[Len(flips) + 1]))
<1> DEFINE n == Len(flips)
           more == Append(flips, e)
           B == {m \in DOMAIN flips : flips[m] /\ d \in b.measurement[m]}
           A == {m \in DOMAIN more : more[m] /\ d \in a.measurement[m]}
           C == IF e /\ d \in a.measurement[n + 1] THEN {n + 1} ELSE {}
<1>1. n \in Nat /\ DOMAIN flips = 1 .. n /\ DOMAIN more = 1 .. (n + 1)
      /\ more[n + 1] = e /\ \A m \in 1 .. n : more[m] = flips[m]
  OBVIOUS
<1>2. A = SymDiff(B, C)
  BY <1>1 DEF SymDiff
<1>3. IsFiniteSet(B) /\ IsFiniteSet(C)
  <2>1. IsFiniteSet(1 .. n) /\ B \in SUBSET (1 .. n)
    BY <1>1, FS_Interval
  <2>2. IsFiniteSet(B)
    BY <2>1, FS_Subset
  <2> QED
    BY <2>2, FS_EmptySet, FS_Singleton
<1>4. Odd(C) <=> (e /\ d \in a.measurement[n + 1])
  <2>1. Cardinality({}) = 0 /\ Cardinality({n + 1}) = 1
    BY FS_EmptySet, FS_Singleton
  <2> QED
    BY <2>1 DEF Odd
<1>5. Recalls(a, more, d) <=> Odd(A)
  BY DEF Recalls
<1>6. Recalls(b, flips, d) <=> Odd(B)
  BY DEF Recalls
<1> HIDE DEF A, B, C
<1>7. Odd(A) <=> ~(Odd(B) <=> Odd(C))
  BY <1>2, <1>3, OddSymDiff
<1> QED
  BY <1>4, <1>5, <1>6, <1>7

\* A state records a result, and x has been added to what it will fire.
LEMMA ResultAdds ==
  ASSUME NEW a \in Analyses, NEW b, NEW e \in BOOLEAN, NEW x \in SUBSET Targets,
         LessOne(a, b), NEW s \in SimsAt(b), NEW g \in Frames, Records(b, s.frame, a, g, e, x)
  PROVE  /\ Recording(s, g, e) \in SimsAt(a)
         /\ Effect(a, Recording(s, g, e)) = SymDiff(Effect(b, s), x)
<1> DEFINE more == Append(s.flips, e)
           u == [s EXCEPT !.frame = g, !.flips = more]
<1>1. s.flips \in Seq(BOOLEAN) /\ s \in Sims /\ Len(s.flips) = a.measured - 1 /\ a.measured \in Nat
  BY DEF SimsAt, Sims, Analyses, LessOne
<1>2. more \in Seq(BOOLEAN) /\ Len(more) = a.measured
  BY <1>1
<1> HIDE DEF more
<1>3. /\ u \in Sims /\ u.flips = more /\ u.detectors = s.detectors
      /\ u.observables = s.observables /\ u.frame = g
  BY <1>1, <1>2 DEF Sims
<1>4. u = Recording(s, g, e)
  BY <1>1 DEF more, Sims, Recording
<1> HIDE DEF u
<1>5. u \in SimsAt(a)
  BY <1>2, <1>3 DEF SimsAt, LessOne
<1>6. Fired(u) = Fired(s)
  BY <1>3 DEF Fired
<1>7. ASSUME NEW d \in Targets
      PROVE  Recalls(a, u.flips, d) <=>
               ~(Recalls(b, s.flips, d) <=> (e /\ d \in a.measurement[a.measured]))
  BY <1>1, RecalledMore, <1>3 DEF LessOne, more
<1>8. ASSUME NEW d \in Targets
      PROVE  d \in Effect(a, u) <=> ~(d \in Effect(b, s) <=> d \in x)
  BY <1>3, <1>6, <1>7 DEF Records, Effect
<1>9. Effect(a, u) \subseteq Targets /\ Effect(b, s) \subseteq Targets
  BY DEF Effect
<1>10. Effect(a, u) = SymDiff(Effect(b, s), x)
  BY <1>8, <1>9 DEF SymDiff
<1> QED
  BY <1>4, <1>5, <1>10

(***************************************************************************)
(* What a measurement or a reset leaves.                                   *)
(***************************************************************************)

\* The frames that it may leave.
LEMMA CollapsedAre ==
  ASSUME NEW f \in Frames, NEW q \in Qubits, NEW basis \in Bases
  PROVE  /\ \A g \in Collapsed(f, q, basis) :
              /\ g \in Frames
              /\ \A r \in Qubits \ {q} : (r \in g.x <=> r \in f.x) /\ (r \in g.z <=> r \in f.z)
              /\ basis = "Z" => q \notin g.x
              /\ basis = "X" => q \notin g.z
         /\ \E g \in Collapsed(f, q, basis) : TRUE
         /\ basis = "Z" => \A on \in BOOLEAN : \E g \in Collapsed(f, q, basis) : q \in g.z <=> on
<1>1. ASSUME NEW g \in Collapsed(f, q, basis)
      PROVE  /\ g \in Frames
             /\ \A r \in Qubits \ {q} : (r \in g.x <=> r \in f.x) /\ (r \in g.z <=> r \in f.z)
             /\ basis = "Z" => q \notin g.x
             /\ basis = "X" => q \notin g.z
  BY DEF Collapsed, Randomized, Frames, Bases
<1>2. \E g \in Collapsed(f, q, basis) : TRUE
  <2>1. \A h \in Frames, axes \in SUBSET {"X", "Z"} : Randomized(h, q, axes) # {}
    <3> SUFFICES ASSUME NEW h \in Frames, NEW axes \in SUBSET {"X", "Z"}
                 PROVE  Randomized(h, q, axes) # {}
      OBVIOUS
    <3> DEFINE new(xs, zs) ==
                 [x |-> IF xs THEN h.x \cup {q} ELSE IF "X" \in axes THEN h.x \ {q} ELSE h.x,
                  z |-> IF zs THEN h.z \cup {q} ELSE IF "Z" \in axes THEN h.z \ {q} ELSE h.z]
               Xs == IF "X" \in axes THEN BOOLEAN ELSE {FALSE}
               Zs == IF "Z" \in axes THEN BOOLEAN ELSE {FALSE}
    <3>1. Xs # {} /\ Zs # {}
      OBVIOUS
    <3>2. Randomized(h, q, axes) = {new(xs, zs) : xs \in Xs, zs \in Zs}
      BY DEF Randomized
    <3> HIDE DEF new, Xs, Zs
    <3>3. PICK xs \in Xs, zs \in Zs : TRUE
      BY <3>1
    <3>4. new(xs, zs) \in Randomized(h, q, axes)
      BY <3>2
    <3> QED
      BY <3>4
  <2>2. [f EXCEPT !.x = @ \ {q}] \in Frames /\ [f EXCEPT !.z = @ \ {q}] \in Frames
    BY DEF Frames
  <2>3. Collapsed(f, q, basis) # {}
    BY <2>1, <2>2 DEF Collapsed, Bases
  <2> QED
    BY <2>3
<1>3. ASSUME basis = "Z", NEW on \in BOOLEAN
      PROVE  \E g \in Collapsed(f, q, basis) : q \in g.z <=> on
  <2> DEFINE h == [f EXCEPT !.x = @ \ {q}]
             g == [x |-> h.x, z |-> IF on THEN h.z \cup {q} ELSE h.z \ {q}]
  <2>1. g \in Collapsed(f, q, basis)
    <3>1. h \in Frames /\ "X" \notin {"Z"}
      BY DEF Frames
    <3> HIDE DEF h
    <3>2. Collapsed(f, q, basis) = Randomized(h, q, {"Z"})
      BY <1>3 DEF Collapsed, h
    <3>3. g \in Randomized(h, q, {"Z"})
      BY <3>1 DEF Randomized
    <3> QED
      BY <3>2, <3>3
  <2>2. q \in g.z <=> on
    OBVIOUS
  <2> HIDE DEF g
  <2> QED
    BY <2>1, <2>2
<1> QED
  BY <1>1, <1>2, <1>3

\* What a measurement or a reset leaves on a qubit flips nothing, if the analyzer has found so or if
\* nothing flips anything there.
LEMMA LeftAgree ==
  ASSUME NEW a \in Analyses, NEW f \in Frames, NEW q \in Qubits, NEW r \in Qubits,
         NEW d, NEW basis \in Bases, NEW g \in Collapsed(f, q, basis),
         (basis \in {"X", "Z"} /\ Sensitivity(a, q, basis) = {}) \/ Idle(a, q)
  PROVE  Feels(Cleared(a, q), f, r, d) <=> Feels(a, g, r, d)
<1>1. /\ \A p \in Qubits \ {q} : (p \in g.x <=> p \in f.x) /\ (p \in g.z <=> p \in f.z)
      /\ basis = "Z" => q \notin g.x
      /\ basis = "X" => q \notin g.z
  BY CollapsedAre
<1>2. CASE r = q
  BY <1>1, <1>2 DEF Feels, Cleared, Analyses, Idle, Sensitivity
<1>3. CASE r # q
  BY <1>3, <1>1 DEF Cleared, Analyses, Feels
<1> QED
  BY <1>2, <1>3

\* If two frames differ on one qubit alone, and there on a condition.
LEMMA OneMore ==
  ASSUME NEW b, NEW f, NEW a, NEW g, NEW q \in Qubits, NEW d, NEW C \in BOOLEAN,
         \A r \in Qubits : Feels(b, f, r, d) <=> ~(Feels(a, g, r, d) <=> (r = q /\ C))
  PROVE  Touches(b, f, d) <=> ~(Touches(a, g, d) <=> C)
<1> DEFINE B == {r \in Qubits : Feels(b, f, r, d)}
           A == {r \in Qubits : Feels(a, g, r, d)}
           D == IF C THEN {q} ELSE {}
<1>1. B = SymDiff(A, D)
  BY DEF SymDiff
<1>2. A \in SUBSET Qubits /\ D \in SUBSET Qubits
  OBVIOUS
<1>3. Odd(D) <=> C
  <2>1. Cardinality({}) = 0 /\ Cardinality({q}) = 1
    BY FS_EmptySet, FS_Singleton
  <2> QED
    BY <2>1 DEF Odd
<1>4. (Touches(b, f, d) <=> Odd(B)) /\ (Touches(a, g, d) <=> Odd(A))
  BY DEF Touches
<1> HIDE DEF A, B, D
<1>5. Odd(SymDiff(A, D)) <=> ~(Odd(A) <=> Odd(D))
  BY <1>2, QubitSets, OddSymDiff
<1> QED
  BY <1>1, <1>3, <1>4, <1>5

(***************************************************************************)
(* Each kind of group, backwards and forwards.                             *)
(***************************************************************************)

\* No instruction is of two kinds.
LEMMA KindsApart ==
  ASSUME NEW name
  PROVE  /\ name \in TwoQubitGates =>
              /\ name \notin OneQubitGates
         /\ name \in Measurements =>
              /\ name \notin OneQubitGates \cup TwoQubitGates
         /\ name \in MeasureResets =>
              /\ name \notin OneQubitGates \cup TwoQubitGates \cup Measurements
         /\ name \in Resets =>
              /\ name \notin OneQubitGates \cup TwoQubitGates \cup Measurements \cup MeasureResets
         /\ name \in PairMeasurements =>
              /\ name \notin OneQubitGates \cup TwoQubitGates \cup Measurements \cup MeasureResets
              /\ name \notin Resets
         /\ name \in {"MPP"} =>
              /\ name \notin OneQubitGates \cup TwoQubitGates \cup Measurements \cup MeasureResets
              /\ name \notin Resets \cup PairMeasurements
         /\ name \in {"SPP", "SPP_DAG"} =>
              /\ name \notin OneQubitGates \cup TwoQubitGates \cup Measurements \cup MeasureResets
              /\ name \notin Resets \cup PairMeasurements \cup {"MPP"}
         /\ name \in {"MPAD"} =>
              /\ name \notin OneQubitGates \cup TwoQubitGates \cup Measurements \cup MeasureResets
              /\ name \notin Resets \cup PairMeasurements \cup {"MPP"} \cup {"SPP", "SPP_DAG"}
         /\ name \in Heralded =>
              /\ name \notin OneQubitGates \cup TwoQubitGates \cup Measurements \cup MeasureResets
              /\ name \notin Resets \cup PairMeasurements \cup {"MPP"} \cup {"SPP", "SPP_DAG"}
              /\ name \notin {"MPAD"}
         /\ name \in OneQubitNoise =>
              /\ name \notin OneQubitGates \cup TwoQubitGates \cup Measurements \cup MeasureResets
              /\ name \notin Resets \cup PairMeasurements \cup {"MPP"} \cup {"SPP", "SPP_DAG"}
              /\ name \notin {"MPAD"} \cup Heralded
         /\ name \in TwoQubitNoise =>
              /\ name \notin OneQubitGates \cup TwoQubitGates \cup Measurements \cup MeasureResets
              /\ name \notin Resets \cup PairMeasurements \cup {"MPP"} \cup {"SPP", "SPP_DAG"}
              /\ name \notin {"MPAD"} \cup Heralded \cup OneQubitNoise
<1>1. name \in TwoQubitGates => name \notin OneQubitGates
  BY DEF TwoQubitGates, OneQubitGates
<1>2. name \in Measurements => name \notin OneQubitGates
  BY DEF Measurements, OneQubitGates
<1>3. name \in Measurements => name \notin TwoQubitGates
  BY DEF Measurements, TwoQubitGates
<1>4. name \in MeasureResets => name \notin OneQubitGates
  BY DEF MeasureResets, OneQubitGates
<1>5. name \in MeasureResets => name \notin TwoQubitGates
  BY DEF MeasureResets, TwoQubitGates
<1>6. name \in MeasureResets => name \notin Measurements
  BY DEF MeasureResets, Measurements
<1>7. name \in Resets => name \notin OneQubitGates
  BY DEF Resets, OneQubitGates
<1>8. name \in Resets => name \notin TwoQubitGates
  BY DEF Resets, TwoQubitGates
<1>9. name \in Resets => name \notin Measurements
  BY DEF Resets, Measurements
<1>10. name \in Resets => name \notin MeasureResets
  BY DEF Resets, MeasureResets
<1>11. name \in PairMeasurements => name \notin OneQubitGates
  BY DEF PairMeasurements, OneQubitGates
<1>12. name \in PairMeasurements => name \notin TwoQubitGates
  BY DEF PairMeasurements, TwoQubitGates
<1>13. name \in PairMeasurements => name \notin Measurements
  BY DEF PairMeasurements, Measurements
<1>14. name \in PairMeasurements => name \notin MeasureResets
  BY DEF PairMeasurements, MeasureResets
<1>15. name \in PairMeasurements => name \notin Resets
  BY DEF PairMeasurements, Resets
<1>16. name \in {"MPP"} => name \notin OneQubitGates
  BY DEF OneQubitGates
<1>17. name \in {"MPP"} => name \notin TwoQubitGates
  BY DEF TwoQubitGates
<1>18. name \in {"MPP"} => name \notin Measurements
  BY DEF Measurements
<1>19. name \in {"MPP"} => name \notin MeasureResets
  BY DEF MeasureResets
<1>20. name \in {"MPP"} => name \notin Resets
  BY DEF Resets
<1>21. name \in {"MPP"} => name \notin PairMeasurements
  BY DEF PairMeasurements
<1>22. name \in {"SPP", "SPP_DAG"} => name \notin OneQubitGates
  BY DEF OneQubitGates
<1>23. name \in {"SPP", "SPP_DAG"} => name \notin TwoQubitGates
  BY DEF TwoQubitGates
<1>24. name \in {"SPP", "SPP_DAG"} => name \notin Measurements
  BY DEF Measurements
<1>25. name \in {"SPP", "SPP_DAG"} => name \notin MeasureResets
  BY DEF MeasureResets
<1>26. name \in {"SPP", "SPP_DAG"} => name \notin Resets
  BY DEF Resets
<1>27. name \in {"SPP", "SPP_DAG"} => name \notin PairMeasurements
  BY DEF PairMeasurements
<1>28. name \in {"SPP", "SPP_DAG"} => name \notin {"MPP"}
  OBVIOUS
<1>29. name \in {"MPAD"} => name \notin OneQubitGates
  BY DEF OneQubitGates
<1>30. name \in {"MPAD"} => name \notin TwoQubitGates
  BY DEF TwoQubitGates
<1>31. name \in {"MPAD"} => name \notin Measurements
  BY DEF Measurements
<1>32. name \in {"MPAD"} => name \notin MeasureResets
  BY DEF MeasureResets
<1>33. name \in {"MPAD"} => name \notin Resets
  BY DEF Resets
<1>34. name \in {"MPAD"} => name \notin PairMeasurements
  BY DEF PairMeasurements
<1>35. name \in {"MPAD"} => name \notin {"MPP"}
  OBVIOUS
<1>36. name \in {"MPAD"} => name \notin {"SPP", "SPP_DAG"}
  OBVIOUS
<1>37. name \in Heralded => name \notin OneQubitGates
  BY DEF Heralded, OneQubitGates
<1>38. name \in Heralded => name \notin TwoQubitGates
  BY DEF Heralded, TwoQubitGates
<1>39. name \in Heralded => name \notin Measurements
  BY DEF Heralded, Measurements
<1>40. name \in Heralded => name \notin MeasureResets
  BY DEF Heralded, MeasureResets
<1>41. name \in Heralded => name \notin Resets
  BY DEF Heralded, Resets
<1>42. name \in Heralded => name \notin PairMeasurements
  BY DEF Heralded, PairMeasurements
<1>43. name \in Heralded => name \notin {"MPP"}
  BY DEF Heralded
<1>44. name \in Heralded => name \notin {"SPP", "SPP_DAG"}
  BY DEF Heralded
<1>45. name \in Heralded => name \notin {"MPAD"}
  BY DEF Heralded
<1>46. name \in OneQubitNoise => name \notin OneQubitGates
  BY DEF OneQubitNoise, OneQubitGates
<1>47. name \in OneQubitNoise => name \notin TwoQubitGates
  BY DEF OneQubitNoise, TwoQubitGates
<1>48. name \in OneQubitNoise => name \notin Measurements
  BY DEF OneQubitNoise, Measurements
<1>49. name \in OneQubitNoise => name \notin MeasureResets
  BY DEF OneQubitNoise, MeasureResets
<1>50. name \in OneQubitNoise => name \notin Resets
  BY DEF OneQubitNoise, Resets
<1>51. name \in OneQubitNoise => name \notin PairMeasurements
  BY DEF OneQubitNoise, PairMeasurements
<1>52. name \in OneQubitNoise => name \notin {"MPP"}
  BY DEF OneQubitNoise
<1>53. name \in OneQubitNoise => name \notin {"SPP", "SPP_DAG"}
  BY DEF OneQubitNoise
<1>54. name \in OneQubitNoise => name \notin {"MPAD"}
  BY DEF OneQubitNoise
<1>55. name \in OneQubitNoise => name \notin Heralded
  BY DEF OneQubitNoise, Heralded
<1>56. name \in TwoQubitNoise => name \notin OneQubitGates
  BY DEF TwoQubitNoise, OneQubitGates
<1>57. name \in TwoQubitNoise => name \notin TwoQubitGates
  BY DEF TwoQubitNoise, TwoQubitGates
<1>58. name \in TwoQubitNoise => name \notin Measurements
  BY DEF TwoQubitNoise, Measurements
<1>59. name \in TwoQubitNoise => name \notin MeasureResets
  BY DEF TwoQubitNoise, MeasureResets
<1>60. name \in TwoQubitNoise => name \notin Resets
  BY DEF TwoQubitNoise, Resets
<1>61. name \in TwoQubitNoise => name \notin PairMeasurements
  BY DEF TwoQubitNoise, PairMeasurements
<1>62. name \in TwoQubitNoise => name \notin {"MPP"}
  BY DEF TwoQubitNoise
<1>63. name \in TwoQubitNoise => name \notin {"SPP", "SPP_DAG"}
  BY DEF TwoQubitNoise
<1>64. name \in TwoQubitNoise => name \notin {"MPAD"}
  BY DEF TwoQubitNoise
<1>65. name \in TwoQubitNoise => name \notin Heralded
  BY DEF TwoQubitNoise, Heralded
<1>66. name \in TwoQubitNoise => name \notin OneQubitNoise
  BY DEF TwoQubitNoise, OneQubitNoise
<1> QED
  BY <1>1, <1>2, <1>3, <1>4, <1>5, <1>6, <1>7, <1>8, <1>9, <1>10, <1>11, <1>12, <1>13, <1>14,
     <1>15, <1>16, <1>17, <1>18, <1>19, <1>20, <1>21, <1>22, <1>23, <1>24, <1>25, <1>26, <1>27,
     <1>28, <1>29, <1>30, <1>31, <1>32, <1>33, <1>34, <1>35, <1>36, <1>37, <1>38, <1>39, <1>40,
     <1>41, <1>42, <1>43, <1>44, <1>45, <1>46, <1>47, <1>48, <1>49, <1>50, <1>51, <1>52, <1>53,
     <1>54, <1>55, <1>56, <1>57, <1>58, <1>59, <1>60, <1>61, <1>62, <1>63, <1>64, <1>65, <1>66

\* Undoing a group, kind of instruction by kind.
LEMMA UndoTargetIs ==
  ASSUME NEW a, NEW op, NEW t
  PROVE  UndoingOf(a, op, t, UndoTarget(a, op, t))
<1> DEFINE basis == Basis(op.name)
           b == UndoTarget(a, op, t)
<1> HIDE DEF basis
<1> DEFINE name == op.name
<1>1. name = op.name /\ b = UndoTarget(a, op, t)
  OBVIOUS
<1> HIDE DEF b, name
<1>2. name \in OneQubitGates => b = UndoGate1(op.name, a, t)
  BY <1>1, KindsApart DEF UndoTarget
<1>3. name \in TwoQubitGates => b = UndoGate2(op.name, a, t[1], t[2])
  BY <1>1, KindsApart DEF UndoTarget
<1>4. name \in Measurements => b = UndoMeasure(EmitReadout(Ensured(a, t, basis), op), t, basis)
  BY <1>1, KindsApart DEF UndoTarget, basis
<1>5. name \in MeasureResets =>
        b = UndoMeasure(Cleared(EmitReadout(Ensured(a, t, basis), op), t), t, basis)
  BY <1>1, KindsApart DEF UndoTarget, basis
<1>6. name \in Resets => b = Cleared(Ensured(a, t, basis), t)
  BY <1>1, KindsApart DEF UndoTarget, basis
<1>7. name \in PairMeasurements => b = UndoProductMeasurement(a, PairProduct(op.name, t))
  BY <1>1, KindsApart DEF UndoTarget
<1>8. name = "MPP" => b = UndoProductMeasurement(a, t)
  BY <1>1, KindsApart DEF UndoTarget
<1>9. name \in {"SPP", "SPP_DAG"} => b = UndoFold(undo_s(UndoUnfold(a, t), Anchor(t)), t)
  BY <1>1, KindsApart DEF UndoTarget, Anchor
<1>10. name = "MPAD" => b = Padless(a)
  BY <1>1, KindsApart DEF UndoTarget, Padless
<1>11. name \in Heralded =>
         b = Emit(OneLess(a), IF op.arg > 0 THEN Channel(a, op, t) ELSE {})
  BY <1>1, KindsApart DEF UndoTarget, OneLess
<1>12. name \in OneQubitNoise \cup TwoQubitNoise =>
         b = IF op.arg > 0 THEN Emit(a, Channel(a, op, t)) ELSE a
  BY <1>1, KindsApart DEF UndoTarget
<1> QED
  BY <1>1, <1>2, <1>3, <1>4, <1>5, <1>6, <1>7, <1>8, <1>9, <1>10, <1>11, <1>12 DEF UndoingOf, basis

\* Running a group that is not noisy, kind of instruction by kind.
LEMMA FrameTargetIs ==
  ASSUME NEW s \in Sims, NEW op, op.arg = 0, NEW t
  PROVE  Leads(s, op.name, t, FrameTarget(s, op, t))
<1> DEFINE f == s.frame
           basis == Basis(op.name)
           after == FrameTarget(s, op, t)
           name == op.name
<1>1. Bits(op) = {FALSE} /\ name = op.name /\ f = s.frame /\ ~(op.arg > 0)
  BY DEF Bits
<1>2. ASSUME NEW frms, NEW e \in BOOLEAN
      PROVE  RecordFlip(s, frms, e, op) = {Recording(s, g, e) : g \in frms}
  <2>1. \A g : [s EXCEPT !.frame = g, !.flips = Append(@, e # FALSE)] = Recording(s, g, e)
    BY DEF Recording
  <2> SUFFICES ASSUME NEW y
               PROVE  y \in RecordFlip(s, frms, e, op) <=> y \in {Recording(s, g, e) : g \in frms}
    OBVIOUS
  <2>2. y \in RecordFlip(s, frms, e, op) <=>
          \E g \in frms : y = [s EXCEPT !.frame = g, !.flips = Append(@, e # FALSE)]
    BY <1>1 DEF RecordFlip
  <2> QED
    BY <2>1, <2>2
<1>3. \A h, q : Flips(h, q, basis) \in BOOLEAN /\ Flips(h, q, "Z") \in BOOLEAN
  <2>1. basis \in {"X", "Y", "Z"}
    BY DEF Basis
  <2>2. \A h, q : Flips(h, q, "X") \in BOOLEAN /\ Flips(h, q, "Y") \in BOOLEAN /\ Flips(h, q, "Z") \in BOOLEAN
    BY DEF Flips
  <2> HIDE DEF basis
  <2> QED
    BY <2>1, <2>2
<1> HIDE DEF f, basis, name, after
<1>4. op.name \in OneQubitGates =>
        FrameTarget(s, op, t) = {[s EXCEPT !.frame = FrameGate1(op.name, s.frame, t)]}
  BY KindsApart DEF FrameTarget
<1>5. name \in OneQubitGates => after = {Framed(s, FrameGate1(op.name, f, t))}
  BY <1>1, <1>4 DEF after, Framed
<1>6. op.name \in TwoQubitGates =>
        FrameTarget(s, op, t) = {[s EXCEPT !.frame = FrameGate2(op.name, s.frame, t[1], t[2])]}
  BY KindsApart DEF FrameTarget
<1>7. name \in TwoQubitGates => after = {Framed(s, FrameGate2(op.name, f, t[1], t[2]))}
  BY <1>1, <1>6 DEF after, Framed
<1>8. name \in Measurements \cup MeasureResets =>
        after = {Recording(s, g, Flips(f, t, basis)) : g \in Collapsed(f, t, basis)}
  <2>1. name \in Measurements \cup MeasureResets =>
          FrameTarget(s, op, t) = RecordFlip(s, Collapsed(f, t, basis), Flips(f, t, basis), op)
    BY <1>1, KindsApart DEF FrameTarget, basis
  <2> QED
    BY <1>2, <1>3, <2>1 DEF after
<1>9. op.name \in Resets =>
        FrameTarget(s, op, t)
          = {[s EXCEPT !.frame = g] : g \in Collapsed(s.frame, t, Basis(op.name))}
  BY KindsApart DEF FrameTarget
<1>10. name \in Resets => after = {Framed(s, g) : g \in Collapsed(f, t, basis)}
  BY <1>1, <1>9 DEF after, Framed, basis
<1>11. ASSUME NEW product
       PROVE  RecordFlip(s, {UnfoldFrame(g, product) : g \in Collapsed(FoldFrame(f, product), Anchor(product), "Z")},
                         Flips(FoldFrame(f, product), Anchor(product), "Z"), op)
                = ProductLeads(s, product)
  <2> DEFINE gs == {UnfoldFrame(g, product) : g \in Collapsed(FoldFrame(f, product), Anchor(product), "Z")}
             e == Flips(FoldFrame(f, product), Anchor(product), "Z")
  <2>1. RecordFlip(s, gs, e, op) = {Recording(s, g, e) : g \in gs}
    <3>1. e \in BOOLEAN
      BY <1>3
    <3> HIDE DEF gs, e
    <3> QED
      BY <1>2, <3>1
  <2> HIDE DEF e
  <2>2. {Recording(s, g, e) : g \in gs} = ProductLeads(s, product)
    BY <1>1 DEF e, ProductLeads
  <2> QED
    BY <2>1, <2>2 DEF e
<1>12. name \in PairMeasurements \cup {"MPP"} =>
         LET product == IF op.name = "MPP" THEN t ELSE PairProduct(op.name, t)
             folded == FoldFrame(f, product)
         IN FrameTarget(s, op, t)
              = RecordFlip(s, {UnfoldFrame(g, product) : g \in Collapsed(folded, Anchor(product), "Z")},
                           Flips(folded, Anchor(product), "Z"), op)
  BY <1>1, KindsApart DEF FrameTarget, Anchor
<1>13. name \in PairMeasurements => after = ProductLeads(s, PairProduct(op.name, t))
  <2> SUFFICES ASSUME name \in PairMeasurements PROVE after = ProductLeads(s, PairProduct(op.name, t))
    OBVIOUS
  <2>1. op.name # "MPP"
    BY <1>1, KindsApart
  <2> QED
    BY <1>11, <1>12, <2>1 DEF after
<1>14. name = "MPP" => after = ProductLeads(s, t)
  BY <1>1, <1>11, <1>12 DEF after
<1>15. op.name \in {"SPP", "SPP_DAG"} =>
         FrameTarget(s, op, t)
           = {[s EXCEPT !.frame = UnfoldFrame(do_s(FoldFrame(s.frame, t), Last(t)[1]), t)]}
  BY KindsApart DEF FrameTarget
<1>16. name \in {"SPP", "SPP_DAG"} =>
         after = {Framed(s, UnfoldFrame(do_s(FoldFrame(f, t), Last(t)[1]), t))}
  BY <1>1, <1>15 DEF after, Framed
<1>17. op.name = "MPAD" => FrameTarget(s, op, t) = {[s EXCEPT !.flips = Append(@, FALSE)]}
  BY KindsApart DEF FrameTarget
<1>18. name = "MPAD" => after = {[s EXCEPT !.flips = Append(@, FALSE)]}
  BY <1>1, <1>17 DEF after
<1>19. /\ op.name \in OneQubitNoise \cup TwoQubitNoise => FrameTarget(s, op, t) = FrameNoise(s, op, t)
       /\ op.name \in Heralded => FrameTarget(s, op, t) = FrameHeralded(s, op, t)
  BY KindsApart DEF FrameTarget
<1>20. name \in OneQubitNoise => after = {Framed(s, AddPauli(f, t, "I"))}
  BY <1>1, <1>19 DEF FrameNoise, Framed, Sims, after
<1>21. name \in TwoQubitNoise => after = {Framed(s, AddPauli(AddPauli(f, t[1], "I"), t[2], "I"))}
  BY <1>1, KindsApart, <1>19 DEF FrameNoise, Framed, Sims, after
<1>22. name \in Heralded => after = {Recording(s, AddPauli(f, t, "I"), FALSE)}
  <2>1. FrameHeralded(s, op, t)
          = UNION {{[s EXCEPT !.flips = Append(@, herald), !.frame = AddPauli(@, t, pauli)]
                      : pauli \in IF herald THEN Paulis(op.name) ELSE {"I"}} : herald \in {FALSE}}
    BY <1>1 DEF FrameHeralded
  <2>2. [s EXCEPT !.flips = Append(@, FALSE), !.frame = AddPauli(@, t, "I")] = Recording(s, AddPauli(f, t, "I"), FALSE)
    BY <1>1 DEF Sims, Recording
  <2>3. UNION {{[s EXCEPT !.flips = Append(@, herald), !.frame = AddPauli(@, t, pauli)]
                  : pauli \in IF herald THEN Paulis(op.name) ELSE {"I"}} : herald \in {FALSE}}
          = {[s EXCEPT !.flips = Append(@, FALSE), !.frame = AddPauli(@, t, "I")]}
    OBVIOUS
  <2> QED
    BY <1>1, <1>19, <2>1, <2>2, <2>3 DEF after
<1> QED
  BY <1>1, <1>5, <1>7, <1>8, <1>10, <1>13, <1>14, <1>16, <1>18, <1>20, <1>21, <1>22
     DEF after, basis, f, Leads

\* The gates change no more than what is sensed on their qubits.
LEMMA GateChanges ==
  ASSUME NEW a \in Analyses, NEW q \in Qubits, NEW name \in OneQubitGates
  PROVE  /\ UndoGate1(name, a, q) \in ChangedOn(a, {q})
         /\ \A f \in Frames : FrameGate1(name, f, q) \in Frames
<1>1. a \in ChangedOn(a, {q})
  BY DEF ChangedOn
<1>2. UndoGate1(name, a, q)
        \in {a, undo_h(a, q), undo_s(a, q), undo_sqrt_x(a, q), undo_c_xyz(a, q), undo_c_zyx(a, q)}
  BY DEF UndoGate1, OneQubitGates
<1>3. UndoGate1(name, a, q) \in ChangedOn(a, {q})
  BY <1>1, <1>2, UndoChanges
<1>4. ASSUME NEW f \in Frames PROVE FrameGate1(name, f, q) \in Frames
  BY FrameTypes DEF FrameGate1, OneQubitGates
<1> QED
  BY <1>3, <1>4

\* A gate of two qubits changes the analysis on them only, and makes frames of frames.
LEMMA PairGateChanges ==
  ASSUME NEW a \in Analyses, NEW p \in Qubits, NEW q \in Qubits, NEW name \in TwoQubitGates
  PROVE  /\ UndoGate2(name, a, p, q) \in ChangedOn(a, {p, q})
         /\ \A f \in Frames : FrameGate2(name, f, p, q) \in Frames
<1> DEFINE U == ChangedOn(a, {p, q})
<1>1. a \in U
  BY DEF ChangedOn
<1>2. ASSUME NEW b \in U
      PROVE  /\ \A r \in {p, q} : undo_h(b, r) \in U /\ undo_s(b, r) \in U /\ undo_sqrt_x(b, r) \in U
             /\ undo_cx(b, p, q) \in U /\ undo_cx(b, q, p) \in U
             /\ undo_cz(b, p, q) \in U /\ undo_swap(b, p, q) \in U
  <2>1. b \in Analyses /\ {q, p} = {p, q} /\ \A r \in {p, q} : r \in Qubits /\ {r} \in SUBSET {p, q}
    BY DEF ChangedOn
  <2>2. \A P \in SUBSET {p, q} : \A c \in ChangedOn(b, P) : c \in U
    BY ChangedMore
  <2> HIDE DEF U
  <2>3. ASSUME NEW r \in {p, q}
        PROVE  undo_h(b, r) \in U /\ undo_s(b, r) \in U /\ undo_sqrt_x(b, r) \in U
    BY <2>1, <2>2, UndoChanges
  <2>4. /\ undo_cx(b, p, q) \in ChangedOn(b, {p, q}) /\ undo_cx(b, q, p) \in ChangedOn(b, {p, q})
        /\ undo_cz(b, p, q) \in ChangedOn(b, {p, q}) /\ undo_swap(b, p, q) \in ChangedOn(b, {p, q})
    BY <2>1, UndoChanges
  <2> QED
    BY <2>2, <2>3, <2>4
<1> HIDE DEF U
<1>3. UndoGate2(name, a, p, q) \in U
  BY <1>1, <1>2 DEF UndoGate2, TwoQubitGates
<1>4. ASSUME NEW f \in Frames PROVE FrameGate2(name, f, p, q) \in Frames
  BY FrameTypes, FramePairTypes DEF FrameGate2, TwoQubitGates
<1> QED
  BY <1>3, <1>4 DEF U

(***************************************************************************)
(* A group, undone.                                                        *)
(***************************************************************************)

\* If every frame is carried along with what it flips, undoing the group is dual to running it.
LEMMA CarriedIsDual ==
  ASSUME NEW op, NEW t, NEW a, NEW b,
         \A s \in SimsAt(b) : Carried(b, s, a, FrameTarget(s, Quiet(op), t))
  PROVE  Dual(op, t, b, a)
<1>1. ASSUME NEW s \in SimsAt(b)
      PROVE  /\ FrameTarget(s, Quiet(op), t) \subseteq SimsAt(a)
             /\ Adds(Senses(a), FrameTarget(s, Quiet(op), t), Senses(b)[s], {{}})
  <2> DEFINE next == FrameTarget(s, Quiet(op), t)
  <2>1. (\E u \in next : TRUE) /\ \A u \in next : u \in SimsAt(a) /\ Effect(a, u) = Effect(b, s)
    BY DEF Carried
  <2>2. Senses(b)[s] = Effect(b, s) /\ \A u \in next : Senses(a)[u] = Effect(a, u)
    BY <2>1 DEF Senses
  <2>3. SymDiff(Effect(b, s), {}) = Effect(b, s)
    BY SymDiffSums
  <2> HIDE DEF next
  <2>4. Adds(Senses(a), next, Senses(b)[s], {{}})
    BY <2>1, <2>2, <2>3 DEF Adds
  <2> QED
    BY <2>1, <2>4 DEF next
<1> QED
  BY <1>1 DEF Dual

\* What is left of an instruction without noise.
LEMMA QuietIs ==
  ASSUME NEW op, Valid(op), op.name \in Stepwise
  PROVE  Quiet(op).name = op.name /\ Quiet(op).arg = 0 /\ Quiet(op).on = op.on
<1>1. op.name # "OBSERVABLE_INCLUDE"
  BY DEF Stepwise, Annotations
<1> QED
  BY <1>1 DEF Quiet, Valid

\* So is running a group without its noise.
LEMMA QuietTargetIs ==
  ASSUME NEW s \in Sims, NEW op, Valid(op), op.name \in Stepwise, NEW t
  PROVE  Leads(s, op.name, t, FrameTarget(s, Quiet(op), t))
<1> DEFINE quiet == Quiet(op)
<1>1. quiet.name = op.name /\ quiet.arg = 0
  BY QuietIs
<1> HIDE DEF quiet
<1>2. Leads(s, quiet.name, t, FrameTarget(s, quiet, t))
  BY <1>1, FrameTargetIs
<1> QED
  BY <1>1, <1>2 DEF quiet

\* A frame that a gate carries along.
LEMMA GateIsDual ==
  ASSUME NEW op, Valid(op), op.name \in OneQubitGates, op.name \in Stepwise,
         NEW t \in Qubits, NEW a \in Analyses
  PROVE  Dual(op, t, UndoGate1(op.name, a, t), a)
<1> DEFINE b == UndoGate1(op.name, a, t)
<1>1. b \in ChangedOn(a, {t}) /\ \A f \in Frames : FrameGate1(op.name, f, t) \in Frames
  BY GateChanges
<1>2. b.measurement = a.measurement /\ b.measured = a.measured /\ b.detector = a.detector
  BY <1>1 DEF ChangedOn
<1>3. ASSUME NEW s \in SimsAt(b) PROVE Carried(b, s, a, FrameTarget(s, Quiet(op), t))
  <2> DEFINE g == FrameGate1(op.name, s.frame, t)
  <2>1. s \in Sims /\ s.frame \in Frames
    BY DEF SimsAt, Sims
  <2>2. FrameTarget(s, Quiet(op), t) = {Framed(s, g)}
    <3>1. Leads(s, op.name, t, FrameTarget(s, Quiet(op), t))
      BY <2>1, QuietTargetIs
    <3> QED
      BY <3>1 DEF Leads
  <2>3. Mirrors(b, s.frame, a, g)
    BY <2>1, OneQubitGatesAgree, SameMirrors
  <2>4. g \in Frames
    BY <1>1, <2>1
  <2> HIDE DEF g, b
  <2>5. Framed(s, g) \in SimsAt(a) /\ Effect(a, Framed(s, g)) = Effect(b, s)
    BY <1>2, <2>3, <2>4, Moved
  <2> QED
    BY <2>2, <2>5 DEF Carried
<1> HIDE DEF b
<1>4. Dual(op, t, b, a)
  BY <1>3, CarriedIsDual
<1> QED
  BY <1>4 DEF b

\* The same of a gate of two qubits.
LEMMA PairGateIsDual ==
  ASSUME NEW op, Valid(op), op.name \in TwoQubitGates \ {"CXSWAP", "SWAPCX"}, op.name \in Stepwise,
         NEW t \in DistinctPairs, NEW a \in Analyses
  PROVE  Dual(op, t, UndoGate2(op.name, a, t[1], t[2]), a)
<1> DEFINE b == UndoGate2(op.name, a, t[1], t[2])
<1>1. t[1] \in Qubits /\ t[2] \in Qubits /\ t[1] # t[2]
  BY DEF DistinctPairs
<1>2. b \in ChangedOn(a, {t[1], t[2]})
      /\ \A f \in Frames : FrameGate2(op.name, f, t[1], t[2]) \in Frames
  BY <1>1, PairGateChanges
<1>3. b.measurement = a.measurement /\ b.measured = a.measured /\ b.detector = a.detector
  BY <1>2 DEF ChangedOn
<1>4. ASSUME NEW s \in SimsAt(b) PROVE Carried(b, s, a, FrameTarget(s, Quiet(op), t))
  <2> DEFINE g == FrameGate2(op.name, s.frame, t[1], t[2])
  <2>1. s \in Sims /\ s.frame \in Frames
    BY DEF SimsAt, Sims
  <2>2. FrameTarget(s, Quiet(op), t) = {Framed(s, g)}
    <3>1. Leads(s, op.name, t, FrameTarget(s, Quiet(op), t))
      BY <2>1, QuietTargetIs
    <3> QED
      BY <3>1 DEF Leads
  <2>3. Mirrors(b, s.frame, a, g)
    BY <1>1, <2>1, TwoQubitGatesAgree, AgreeMirrors
  <2>4. g \in Frames
    BY <1>2, <2>1
  <2> HIDE DEF g, b
  <2>5. Framed(s, g) \in SimsAt(a) /\ Effect(a, Framed(s, g)) = Effect(b, s)
    BY <1>3, <2>3, <2>4, Moved
  <2> QED
    BY <2>2, <2>5 DEF Carried
<1> HIDE DEF b
<1>5. Dual(op, t, b, a)
  BY <1>4, CarriedIsDual
<1> QED
  BY <1>5 DEF b

\* The parts of a live analysis with a measurement to undo.
LEMMA LiveParts ==
  ASSUME NEW a \in Live
  PROVE  /\ a \in Analyses /\ a.outcome = "analyzing"
         /\ a.x \in [Qubits -> SUBSET Targets] /\ a.z \in [Qubits -> SUBSET Targets]
         /\ a.measured \in Nat /\ a.detector \in Nat /\ Len(a.measurement) \in Nat
         /\ a.measurement \in Seq(SUBSET Targets)
         /\ a.measured > 0 => /\ a.measured \in 1 .. Len(a.measurement)
                              /\ a.measured - 1 \in Nat
                              /\ a.measurement[a.measured] \in SUBSET Targets
<1>1. /\ a \in Analyses /\ a.measured \in Nat /\ a.measurement \in Seq(SUBSET Targets)
      /\ a.measured <= Len(a.measurement)
  BY DEF Live, Analyses
<1>2. ASSUME a.measured > 0
      PROVE  /\ a.measured \in 1 .. Len(a.measurement) /\ a.measured - 1 \in Nat
             /\ a.measurement[a.measured] \in SUBSET Targets
  BY <1>1, <1>2
<1> QED
  BY <1>1, <1>2 DEF Live, Analyses

\* A measurement, undone.
LEMMA UndoMeasureIs ==
  ASSUME NEW a \in Live, a.measured > 0, NEW q \in Qubits, NEW basis \in Bases
  PROVE  LET b == UndoMeasure(a, q, basis)
         IN b \in Live /\ LessOne(a, b) /\ \A r \in Qubits \ {q} : SameAt(b, a, r)
<1> DEFINE b == UndoMeasure(a, q, basis)
           m == a.measurement[a.measured]
<1>1. /\ a \in Analyses /\ a.outcome = "analyzing"
      /\ a.x \in [Qubits -> SUBSET Targets] /\ a.z \in [Qubits -> SUBSET Targets]
      /\ a.measured \in 1 .. Len(a.measurement) /\ a.measured - 1 \in Nat
      /\ a.measurement \in Seq(SUBSET Targets) /\ Len(a.measurement) \in Nat
      /\ m \in SUBSET Targets
  BY LiveParts
<1> DEFINE a1 == [a EXCEPT !.measured = @ - 1]
           a2 == [a1 EXCEPT !.measurement[a.measured] = {}]
           a3 == [a2 EXCEPT !.x[q] = IF basis \in {"Z", "Y"} THEN SymDiff(@, m) ELSE @]
           a4 == [a3 EXCEPT !.z[q] = IF basis \in {"X", "Y"} THEN SymDiff(@, m) ELSE @]
           Same(c) == c.detector = a.detector /\ c.outcome = a.outcome
<1>2. a1 \in Analyses /\ Same(a1) /\ a1.measured = a.measured - 1
      /\ a1.measurement = a.measurement /\ a1.x = a.x /\ a1.z = a.z
  BY <1>1 DEF Analyses
<1> HIDE DEF a1, m
<1>3. /\ a2 \in Analyses /\ Same(a2) /\ a2.measured = a.measured - 1
      /\ Len(a2.measurement) = Len(a.measurement)
      /\ \A k \in 1 .. a.measured - 1 : a2.measurement[k] = a.measurement[k]
      /\ a2.x = a.x /\ a2.z = a.z
  <2>1. [a.measurement EXCEPT ![a.measured] = {}] \in Seq(SUBSET Targets)
    BY <1>1
  <2>2. Len([a.measurement EXCEPT ![a.measured] = {}]) = Len(a.measurement)
    BY <1>1
  <2>3. a2 = [a1 EXCEPT !.measurement = [a.measurement EXCEPT ![a.measured] = {}]]
    BY <1>2
  <2>4. a2 \in Analyses /\ a2.measurement = [a.measurement EXCEPT ![a.measured] = {}]
        /\ Same(a2) /\ a2.measured = a1.measured /\ a2.x = a1.x /\ a2.z = a1.z
    BY <1>2, <2>1, <2>3 DEF Analyses
  <2> QED
    BY <1>1, <1>2, <2>2, <2>4
<1> HIDE DEF a2
<1>4. /\ a3 \in Analyses /\ Same(a3) /\ a3.measured = a2.measured /\ a3.measurement = a2.measurement
      /\ \A r \in Qubits \ {q} : SameAt(a3, a, r)
  BY <1>1, <1>3 DEF SymDiff, SameAt, Analyses
<1> HIDE DEF a3
<1>5. /\ a4 \in Analyses /\ Same(a4) /\ a4.measured = a2.measured /\ a4.measurement = a2.measurement
      /\ \A r \in Qubits \ {q} : SameAt(a4, a, r)
  BY <1>1, <1>4 DEF SymDiff, SameAt, Analyses
<1>6. b = a4
  BY DEF UndoMeasure, a1, a2, a3, m
<1> HIDE DEF a4, b
<1>7. b \in Live /\ LessOne(a, b)
  BY <1>1, <1>3, <1>5, <1>6 DEF Live, LessOne
<1> QED
  BY <1>5, <1>6, <1>7 DEF b

\* They sense the same.
LEMMA AlikeSense ==
  ASSUME NEW a, NEW b, Alike(a, b)
  PROVE  /\ SimsAt(a) = SimsAt(b)
         /\ \A f, d : Touches(a, f, d) <=> Touches(b, f, d)
         /\ \A s : Effect(a, s) = Effect(b, s)
<1>1. SimsAt(a) = SimsAt(b)
  BY DEF Alike, SimsAt
<1>2. ASSUME NEW f, NEW d PROVE Touches(a, f, d) <=> Touches(b, f, d)
  BY DEF Alike, SameAt, Feels, Touches
<1>3. ASSUME NEW s PROVE Effect(a, s) = Effect(b, s)
  BY <1>2 DEF Recalls, Alike, Effect
<1> QED
  BY <1>1, <1>2, <1>3

\* A measurement of a qubit, with or without a reset: what is sensed before is what is sensed
\* after it on the other qubits.
LEMMA MeasurementIsDual ==
  ASSUME NEW op, Valid(op), op.name \in Measurements \cup MeasureResets, op.name \in Stepwise,
         NEW t \in Qubits, NEW a \in Live, a.measured > 0,
         NEW basis, basis = Basis(op.name),
         (basis \in {"X", "Z"} /\ Sensitivity(a, t, basis) = {}) \/ Idle(a, t),
         NEW c \in Live, c.measurement = a.measurement, c.measured = a.measured,
         c.detector = a.detector, \A r \in Qubits : SameAt(c, Cleared(a, t), r)
  PROVE  Dual(op, t, UndoMeasure(c, t, basis), a)
<1> DEFINE b == UndoMeasure(c, t, basis)
<1>1. basis \in Bases /\ a \in Analyses /\ c \in Analyses
  BY LiveParts DEF Basis, Bases
<1>2. LessOne(a, b)
  <2>1. LessOne(c, b)
    BY <1>1, UndoMeasureIs
  <2> HIDE DEF b
  <2> QED
    BY <2>1 DEF LessOne
<1>3. ASSUME NEW s \in SimsAt(b) PROVE Carried(b, s, a, FrameTarget(s, Quiet(op), t))
  <2> DEFINE f == s.frame
             e == Flips(f, t, basis)
  <2>1. s \in Sims /\ f \in Frames
    BY DEF SimsAt, Sims
  <2>2. FrameTarget(s, Quiet(op), t) = {Recording(s, g, e) : g \in Collapsed(f, t, basis)}
    <3>1. Leads(s, op.name, t, FrameTarget(s, Quiet(op), t))
      BY <2>1, QuietTargetIs
    <3> QED
      BY <3>1 DEF Leads
  <2>3. e \in BOOLEAN
    <3>1. basis \in {"X", "Y", "Z"}
      BY <1>1 DEF Bases
    <3>2. Flips(f, t, "X") \in BOOLEAN /\ Flips(f, t, "Y") \in BOOLEAN /\ Flips(f, t, "Z") \in BOOLEAN
      BY DEF Flips
    <3> QED
      BY <3>1, <3>2
  <2>4. ASSUME NEW g \in Collapsed(f, t, basis)
        PROVE  Recording(s, g, e) \in SimsAt(a) /\ Effect(a, Recording(s, g, e)) = Effect(b, s)
    <3>1. g \in Frames
      BY <1>1, <2>1, CollapsedAre
    <3>2. ASSUME NEW d \in Targets
          PROVE  Touches(b, f, d) <=> ~(Touches(a, g, d) <=> (e /\ d \in a.measurement[a.measured]))
      <4> DEFINE C == e /\ d \in a.measurement[a.measured]
      <4>1. C \in BOOLEAN
        OBVIOUS
      <4>2. ASSUME NEW r \in Qubits
            PROVE  Feels(b, f, r, d) <=> ~(Feels(a, g, r, d) <=> (r = t /\ C))
        <5>1. Feels(b, f, r, d) <=> ~(Feels(c, f, r, d) <=> (r = t /\ C))
          BY <1>1, <2>1, MeasurementsAgree
        <5>2. Feels(c, f, r, d) <=> Feels(Cleared(a, t), f, r, d)
          BY DEF SameAt, Feels
        <5>3. Feels(Cleared(a, t), f, r, d) <=> Feels(a, g, r, d)
          BY <1>1, <2>1, LeftAgree
        <5> QED
          BY <5>1, <5>2, <5>3
      <4> HIDE DEF b, e, f, C
      <4>3. Touches(b, f, d) <=> ~(Touches(a, g, d) <=> C)
        BY <4>1, <4>2, OneMore
      <4> QED
        BY <4>3 DEF C
    <3>3. Records(b, s.frame, a, g, e, {})
      BY <3>2 DEF Records
    <3> HIDE DEF b, e, f
    <3>4. Recording(s, g, e) \in SimsAt(a) /\ Effect(a, Recording(s, g, e)) = SymDiff(Effect(b, s), {})
      BY <1>1, <1>2, <2>3, <3>1, <3>3, ResultAdds
    <3> QED
      BY <3>4, SymDiffSums
  <2>5. \E g \in Collapsed(f, t, basis) : TRUE
    BY <1>1, <2>1, CollapsedAre
  <2> HIDE DEF b, e, f
  <2> QED
    BY <2>2, <2>4, <2>5 DEF Carried
<1> HIDE DEF b
<1>4. Dual(op, t, b, a)
  BY <1>3, CarriedIsDual
<1> QED
  BY <1>4 DEF b

\* A reset.
LEMMA ResetIsDual ==
  ASSUME NEW op, Valid(op), op.name \in Resets, op.name \in Stepwise, NEW t \in Qubits,
         NEW a \in Analyses, NEW basis, basis = Basis(op.name),
         (basis \in {"X", "Z"} /\ Sensitivity(a, t, basis) = {}) \/ Idle(a, t)
  PROVE  Dual(op, t, Cleared(a, t), a)
<1> DEFINE b == Cleared(a, t)
<1>1. basis \in Bases
  BY DEF Basis, Bases
<1>2. b.measurement = a.measurement /\ b.measured = a.measured /\ b.detector = a.detector
  BY DEF Cleared, Analyses
<1>3. ASSUME NEW s \in SimsAt(b) PROVE Carried(b, s, a, FrameTarget(s, Quiet(op), t))
  <2> DEFINE f == s.frame
  <2>1. s \in Sims /\ f \in Frames
    BY DEF SimsAt, Sims
  <2>2. FrameTarget(s, Quiet(op), t) = {Framed(s, g) : g \in Collapsed(f, t, basis)}
    BY <2>1, QuietTargetIs DEF Leads
  <2>3. ASSUME NEW g \in Collapsed(f, t, basis)
        PROVE  Framed(s, g) \in SimsAt(a) /\ Effect(a, Framed(s, g)) = Effect(b, s)
    <3>1. g \in Frames
      BY <1>1, <2>1, CollapsedAre
    <3>2. \A r \in Qubits, d \in Targets : Feels(b, f, r, d) <=> Feels(a, g, r, d)
      BY <1>1, <2>1, LeftAgree
    <3>3. Mirrors(b, s.frame, a, g)
      BY <3>2, SameMirrors
    <3> HIDE DEF b, f
    <3> QED
      BY <1>2, <3>1, <3>3, Moved
  <2>4. \E g \in Collapsed(f, t, basis) : TRUE
    BY <1>1, <2>1, CollapsedAre
  <2> HIDE DEF b, f
  <2> QED
    BY <2>2, <2>3, <2>4 DEF Carried
<1> HIDE DEF b
<1>4. Dual(op, t, b, a)
  BY <1>3, CarriedIsDual
<1> QED
  BY <1>4 DEF b

\* The measurement of a product: what the analyzer does not find is the Z that the frame draws on
\* the product's anchor, which adds what a Z there flips, or does not.
LEMMA ProductMeasurementIsDual ==
  ASSUME NEW op, op.name \in PairMeasurements \cup {"MPP"}, NEW t, NEW product \in PauliProducts,
         NEW a \in Live, a.measured > 0, Idle(a, Anchor(product)),
         \A s \in Sims : FrameTarget(s, Quiet(op), t) = ProductLeads(s, product)
  PROVE  Dual(op, t, UndoProductMeasurement(a, product), a)
<1> DEFINE b == UndoProductMeasurement(a, product)
           q == Anchor(product)
           c == UndoUnfold(a, product)
           m == UndoMeasure(c, q, "Z")
<1>1. a \in Analyses /\ q \in Qubits /\ "Z" \in Bases
  BY LiveParts, ProductPlaces DEF Bases
<1>2. c \in ChangedOn(a, QubitsIn(product)) /\ c.x[q] = {}
  <2>1. a.x[q] = {} /\ a.z[q] = {}
    BY DEF Idle
  <2>2. {} \in SUBSET Qubits
    OBVIOUS
  <2>3. NoFlips \in Frames
    BY DEF NoFlips, Frames
  <2> QED
    BY <1>1, <2>1, <2>3, ProductsMirror
<1>3. c \in Live /\ c.measurement = a.measurement /\ c.measured = a.measured /\ c.detector = a.detector
      /\ c.z[q] \in SUBSET Targets
  BY <1>1, <1>2 DEF ChangedOn, Live, Analyses
<1>4. b = UndoFold(m, product)
  BY DEF UndoProductMeasurement, Anchor
<1> HIDE DEF b, q, c
<1>5. m \in Live /\ LessOne(c, m)
  BY <1>1, <1>3, UndoMeasureIs
<1>6. b \in ChangedOn(m, QubitsIn(product))
  <2>1. m \in Analyses /\ NoFlips \in Frames
    BY <1>5 DEF Live, NoFlips, Frames
  <2> HIDE DEF m
  <2> QED
    BY <1>4, <2>1, ProductsMirror
<1>7. LessOne(a, b)
  <2> HIDE DEF m
  <2>1. /\ b.measurement = m.measurement /\ b.measured = m.measured /\ b.detector = m.detector
    BY <1>6 DEF ChangedOn
  <2> QED
    BY <1>3, <1>5, <2>1 DEF LessOne
<1>8. ASSUME NEW s \in SimsAt(b), NEW g \in Collapsed(FoldFrame(s.frame, product), q, "Z")
      PROVE  LET folded == FoldFrame(s.frame, product)
                 e == Flips(folded, q, "Z")
                 x == IF q \in folded.z <=> q \in g.z THEN {} ELSE c.z[q]
                 u == Recording(s, UnfoldFrame(g, product), e)
             IN u \in SimsAt(a) /\ Effect(a, u) = SymDiff(Effect(b, s), x)
  <2> DEFINE f == s.frame
             folded == FoldFrame(f, product)
             e == Flips(folded, q, "Z")
             x == IF q \in folded.z <=> q \in g.z THEN {} ELSE c.z[q]
             h == UnfoldFrame(g, product)
  <2>1. f \in Frames
    BY DEF SimsAt, Sims
  <2>2. folded \in Frames /\ Mirrors(b, f, m, folded)
    <3>1. m \in Analyses
      BY <1>5 DEF Live
    <3> HIDE DEF m, f
    <3> QED
      BY <1>4, <2>1, <3>1, ProductsMirror
  <2>3. g \in Frames /\ q \notin g.x
        /\ \A r \in Qubits \ {q} : (r \in g.x <=> r \in folded.x) /\ (r \in g.z <=> r \in folded.z)
    <3> HIDE DEF folded
    <3> QED
      BY <1>1, <2>2, CollapsedAre DEF folded
  <2>4. h \in Frames /\ Mirrors(c, g, a, h)
    BY <1>1, <2>3, ProductsMirror DEF c
  <2>5. e \in BOOLEAN /\ x \in SUBSET Targets
    BY <1>3 DEF Flips
  <2>6. ASSUME NEW d \in Targets
        PROVE  Touches(m, folded, d) <=>
                 ~(Touches(c, g, d) <=> ~((e /\ d \in c.measurement[c.measured]) <=> d \in x))
    <3> DEFINE E == e /\ d \in c.measurement[c.measured]
               C == ~(E <=> d \in x)
    <3>1. ASSUME NEW r \in Qubits
          PROVE  Feels(m, folded, r, d) <=> ~(Feels(c, g, r, d) <=> (r = q /\ C))
      <4>1. Feels(m, folded, r, d) <=> ~(Feels(c, folded, r, d) <=> (r = q /\ E))
        <5>1. c \in Analyses
          BY <1>3 DEF Live
        <5> HIDE DEF folded
        <5> QED
          BY <1>1, <2>2, <5>1, MeasurementsAgree
      <4>2. CASE r = q
        <5> HIDE DEF folded, m
        <5>1. Feels(c, folded, q, d) <=> (q \in folded.z /\ d \in c.z[q])
          BY <1>2 DEF Feels
        <5>2. Feels(c, g, q, d) <=> (q \in g.z /\ d \in c.z[q])
          BY <1>2 DEF Feels
        <5>3. d \in x <=> (~(q \in folded.z <=> q \in g.z) /\ d \in c.z[q])
          OBVIOUS
        <5> HIDE DEF x, E
        <5> QED
          BY <4>1, <4>2, <5>1, <5>2, <5>3
      <4>3. CASE r # q
        <5>1. Feels(c, folded, r, d) <=> Feels(c, g, r, d)
          BY <2>3, <4>3 DEF Feels
        <5> HIDE DEF folded, m, x, E
        <5> QED
          BY <4>1, <4>3, <5>1
      <4> QED
        BY <4>2, <4>3
    <3>2. C \in BOOLEAN
      OBVIOUS
    <3> HIDE DEF folded, m, C
    <3>3. Touches(m, folded, d) <=> ~(Touches(c, g, d) <=> C)
      BY <1>1, <3>1, <3>2, OneMore
    <3> QED
      BY <3>3 DEF C
  <2>7. Records(b, s.frame, a, h, e, x)
    <3> HIDE DEF folded, m, h, e, x
    <3> QED
      BY <1>3, <2>2, <2>4, <2>6 DEF Records, Mirrors
  <2> HIDE DEF folded, m, h, e, x
  <2>8. Recording(s, h, e) \in SimsAt(a) /\ Effect(a, Recording(s, h, e)) = SymDiff(Effect(b, s), x)
    BY <1>1, <1>7, <2>4, <2>5, <2>7, ResultAdds
  <2> QED
    BY <2>8 DEF folded, h, e, x
<1> DEFINE added == {{}, c.z[q]}
<1>9. ASSUME NEW s \in SimsAt(b)
      PROVE  /\ FrameTarget(s, Quiet(op), t) \subseteq SimsAt(a)
             /\ Adds(Senses(a), FrameTarget(s, Quiet(op), t), Senses(b)[s], added)
  <2> DEFINE folded == FoldFrame(s.frame, product)
             e == Flips(folded, q, "Z")
             next == FrameTarget(s, Quiet(op), t)
             Added(g) == IF q \in folded.z <=> q \in g.z THEN {} ELSE c.z[q]
             U(g) == Recording(s, UnfoldFrame(g, product), e)
  <2>1. folded \in Frames
    BY <1>1, ProductsMirror DEF SimsAt, Sims
  <2>2. next = {U(g) : g \in Collapsed(folded, q, "Z")}
    BY DEF SimsAt, ProductLeads, q
  <2>3. \A g \in Collapsed(folded, q, "Z") :
          U(g) \in SimsAt(a) /\ Effect(a, U(g)) = SymDiff(Effect(b, s), Added(g)) /\ Added(g) \in added
    BY <1>8
  <2>4. \A on \in BOOLEAN : \E g \in Collapsed(folded, q, "Z") : q \in g.z <=> on
    <3> HIDE DEF folded
    <3> QED
      BY <1>1, <2>1, CollapsedAre
  <2>5. \A x \in added : \E g \in Collapsed(folded, q, "Z") : Added(g) = x
    <3>1. PICK g \in Collapsed(folded, q, "Z") : q \in g.z <=> (q \in folded.z)
      <4>1. (q \in folded.z) \in BOOLEAN
        OBVIOUS
      <4> HIDE DEF folded
      <4> QED
        BY <2>4, <4>1
    <3>2. PICK k \in Collapsed(folded, q, "Z") : q \in k.z <=> ~(q \in folded.z)
      <4>1. (~(q \in folded.z)) \in BOOLEAN
        OBVIOUS
      <4> HIDE DEF folded
      <4> QED
        BY <2>4, <4>1
    <3>3. Added(g) = {} /\ Added(k) = c.z[q]
      BY <3>1, <3>2
    <3> HIDE DEF Added, folded
    <3> QED
      BY <3>3
  <2> HIDE DEF folded, next, Added, U, added
  <2>6. next \subseteq SimsAt(a)
    BY <2>2, <2>3
  <2>7. Senses(b)[s] = Effect(b, s) /\ \A u \in SimsAt(a) : Senses(a)[u] = Effect(a, u)
    BY DEF Senses
  <2>8. ASSUME NEW u \in next PROVE \E x \in added : Senses(a)[u] = SymDiff(Senses(b)[s], x)
    <3>1. PICK g \in Collapsed(folded, q, "Z") : u = U(g)
      BY <2>2
    <3> QED
      BY <2>3, <2>7, <3>1
  <2>9. ASSUME NEW x \in added PROVE \E u \in next : Senses(a)[u] = SymDiff(Senses(b)[s], x)
    <3>1. PICK g \in Collapsed(folded, q, "Z") : Added(g) = x
      BY <2>5
    <3>2. U(g) \in next
      BY <2>2
    <3> QED
      BY <2>3, <2>7, <3>1, <3>2
  <2>10. Adds(Senses(a), next, Senses(b)[s], added)
    BY <2>8, <2>9 DEF Adds
  <2> QED
    BY <2>6, <2>10 DEF next
<1> HIDE DEF added
<1>10. Dual(op, t, b, a)
  BY <1>9 DEF Dual
<1> QED
  BY <1>10 DEF b

\* The qubits that a group uses and those that it loses, kind by kind.
LEMMA UsedAndLost ==
  ASSUME NEW op, NEW t
  PROVE  /\ op.name \in OneQubitGates \cup Measurements \cup MeasureResets \cup Resets =>
              QubitsUsed(op, t) = {t}
         /\ op.name \in TwoQubitGates \cup PairMeasurements => QubitsUsed(op, t) = {t[1], t[2]}
         /\ op.name \in {"MPP", "SPP", "SPP_DAG"} => QubitsUsed(op, t) = QubitsIn(t)
         /\ op.name \in Measurements \cup {"RY", "MRY"} => QubitsLost(op, t) = {t}
         /\ op.name \in PairMeasurements => QubitsLost(op, t) = {t[2]}
         /\ op.name = "MPP" => QubitsLost(op, t) = {Anchor(t)}
<1>1. op.name \in OneQubitGates \cup Measurements \cup MeasureResets \cup Resets =>
        QubitsUsed(op, t) = {t}
  BY KindsApart DEF QubitsUsed
<1>2. op.name \in TwoQubitGates \cup PairMeasurements => QubitsUsed(op, t) = {t[1], t[2]}
  BY KindsApart DEF QubitsUsed
<1>3. op.name \in {"MPP", "SPP", "SPP_DAG"} => QubitsUsed(op, t) = QubitsIn(t)
  BY KindsApart DEF QubitsUsed, QubitsIn
<1>4. op.name \in Measurements \cup {"RY", "MRY"} => QubitsLost(op, t) = {t}
  BY DEF QubitsLost, PairMeasurements, Measurements
<1>5. op.name \in PairMeasurements => QubitsLost(op, t) = {t[2]}
  BY DEF QubitsLost, PairMeasurements, Measurements
<1>6. op.name = "MPP" => QubitsLost(op, t) = {Anchor(t)}
  BY DEF QubitsLost, PairMeasurements, Measurements, Anchor
<1> QED
  BY <1>1, <1>2, <1>3, <1>4, <1>5, <1>6

\* What records and what does not.
LEMMA RecordersAre ==
  ASSUME NEW name
  PROVE  /\ name \in OneQubitGates => name \notin Recorders
         /\ name \in TwoQubitGates => name \notin Recorders
         /\ name \in Resets => name \notin Recorders
         /\ name \in {"SPP", "SPP_DAG"} => name \notin Recorders
         /\ name \in OneQubitNoise => name \notin Recorders
         /\ name \in TwoQubitNoise => name \notin Recorders
BY KindsApart DEF Recorders

\* The groups are apart from the resets and from products.
LEMMA PlainKinds ==
  ASSUME NEW name
  PROVE  /\ name \in OneQubitGates \cup TwoQubitGates \cup {"SPP", "SPP_DAG", "MPP", "MPAD"}
                       \cup OneQubitNoise \cup TwoQubitNoise \cup Heralded
                       \cup Measurements \cup MeasureResets \cup PairMeasurements
              => name \notin {"R", "RX"}
         /\ name \in {"R", "RX"} => name \in Resets
<1>1. name \in {"R", "RX"} => name \in Resets
  BY DEF Resets
<1> QED
  BY <1>1, KindsApart

\* Gates.
LEMMA GateUndoes ==
  ASSUME NEW op, Valid(op), op.name \in OneQubitGates, op.name \in Stepwise,
         NEW t \in Qubits, NEW a \in Live
  PROVE  Undoes(op, t, a, UndoGate1(op.name, a, t))
<1> DEFINE b == UndoGate1(op.name, a, t)
<1>1. a \in Analyses
  BY LiveParts
<1>2. b \in ChangedOn(a, {t}) /\ Dual(op, t, b, a)
  BY <1>1, GateChanges, GateIsDual
<1>3. QubitsUsed(op, t) = {t} /\ op.name \notin Recorders /\ op.name \notin {"R", "RX"}
  BY UsedAndLost, RecordersAre, PlainKinds
<1> HIDE DEF b
<1>4. Undoes(op, t, a, b)
  BY <1>2, <1>3 DEF Undoes, ChangedOn, Live, SameAt
<1> QED
  BY <1>4 DEF b

\* What a gate of two qubits leaves of the analysis.
LEMMA PairGateUndoes ==
  ASSUME NEW op, Valid(op), op.name \in TwoQubitGates \ {"CXSWAP", "SWAPCX"}, op.name \in Stepwise,
         NEW t \in DistinctPairs, NEW a \in Live
  PROVE  Undoes(op, t, a, UndoGate2(op.name, a, t[1], t[2]))
<1> DEFINE b == UndoGate2(op.name, a, t[1], t[2])
<1>1. a \in Analyses /\ t[1] \in Qubits /\ t[2] \in Qubits
  BY LiveParts DEF DistinctPairs
<1>2. b \in ChangedOn(a, {t[1], t[2]}) /\ Dual(op, t, b, a)
  BY <1>1, PairGateChanges, PairGateIsDual
<1>3. QubitsUsed(op, t) = {t[1], t[2]} /\ op.name \notin Recorders /\ op.name \notin {"R", "RX"}
  BY UsedAndLost, RecordersAre, PlainKinds
<1> HIDE DEF b
<1>4. Undoes(op, t, a, b)
  BY <1>2, <1>3 DEF Undoes, ChangedOn, Live, SameAt
<1> QED
  BY <1>4 DEF b

\* Resets.
LEMMA ResetUndoes ==
  ASSUME NEW op, Valid(op), op.name \in Resets, op.name \in Stepwise,
         NEW t \in Qubits, NEW a \in Live,
         Sensitivity(a, t, Basis(op.name)) = {}
  PROVE  Undoes(op, t, a, Cleared(a, t))
<1> DEFINE b == Cleared(a, t)
<1>1. a \in Analyses /\ a.x \in [Qubits -> SUBSET Targets] /\ a.z \in [Qubits -> SUBSET Targets]
  BY LiveParts
<1>2. /\ b \in Analyses /\ b.measurement = a.measurement /\ b.measured = a.measured
      /\ b.detector = a.detector /\ b.outcome = a.outcome
      /\ \A r \in Qubits \ {t} : SameAt(b, a, r)
      /\ Idle(b, t)
  <2>1. b \in Analyses
    BY <1>1 DEF Cleared, Analyses
  <2>2. b.x = [a.x EXCEPT ![t] = {}] /\ b.z = [a.z EXCEPT ![t] = {}]
        /\ b.measurement = a.measurement /\ b.measured = a.measured
        /\ b.detector = a.detector /\ b.outcome = a.outcome
    BY <1>1 DEF Cleared, Analyses
  <2> HIDE DEF b
  <2> QED
    BY <1>1, <2>1, <2>2 DEF SameAt, Idle
<1>3. QubitsUsed(op, t) = {t} /\ op.name \notin Recorders
  BY UsedAndLost, RecordersAre
<1>4. ASSUME \A q \in QubitsLost(op, t) : Idle(a, q) PROVE Dual(op, t, b, a)
  BY <1>4, UsedAndLost, <1>1, ResetIsDual DEF Resets, Basis
<1> HIDE DEF b
<1>5. Undoes(op, t, a, b)
  BY <1>2, <1>3, <1>4 DEF Undoes, Live
<1> QED
  BY <1>5 DEF b

\* Errors.
LEMMA EmitIs ==
  ASSUME NEW a \in Live, NEW errors \in SUBSET SUBSET Targets
  PROVE  Emit(a, errors) \in Live /\ Alike(Emit(a, errors), a)
BY DEF Emit, Live, Analyses, Alike, SameAt

\* The errors of a channel of noise are sets of targets.
LEMMA ChannelIs ==
  ASSUME NEW a \in Analyses, NEW op, NEW t,
         \/ op.name \in OneQubitNoise \cup Heralded /\ t \in Qubits
         \/ op.name \in TwoQubitNoise /\ t \in Qubits \X Qubits
  PROVE  Channel(a, op, t) \in SUBSET SUBSET Targets
<1>1. ASSUME NEW pauli \in {"I"} \cup Bases, NEW q \in Qubits
      PROVE  Sensitivity(a, q, pauli) \in SUBSET Targets
  BY DEF Analyses, SymDiff, Sensitivity, Bases
<1>2. Paulis(op.name) \subseteq {"I"} \cup Bases
  BY DEF Paulis, Bases
<1>3. CASE op.name \in OneQubitNoise \cup Heralded /\ t \in Qubits
  BY <1>1, <1>2, <1>3 DEF Channel
<1>4. CASE op.name \in TwoQubitNoise /\ t \in Qubits \X Qubits
  <2>1. op.name \notin OneQubitNoise \cup Heralded /\ t[1] \in Qubits /\ t[2] \in Qubits
    BY <1>4, KindsApart
  <2>2. \A p, q \in Paulis(op.name) :
          SymDiff(Sensitivity(a, t[1], p), Sensitivity(a, t[2], q)) \in SUBSET Targets
    <3> SUFFICES ASSUME NEW p \in Paulis(op.name), NEW q \in Paulis(op.name)
                 PROVE  SymDiff(Sensitivity(a, t[1], p), Sensitivity(a, t[2], q)) \in SUBSET Targets
      OBVIOUS
    <3>1. Sensitivity(a, t[1], p) \in SUBSET Targets /\ Sensitivity(a, t[2], q) \in SUBSET Targets
      BY <1>1, <1>2, <2>1
    <3> QED
      BY <3>1 DEF SymDiff
  <2> QED
    BY <2>1, <2>2 DEF Channel
<1> QED
  BY <1>3, <1>4

\* The identity leaves a frame as it is.
LEMMA NoPauli ==
  ASSUME NEW f \in Frames, NEW q
  PROVE  AddPauli(f, q, "I") = f
BY DEF AddPauli, Toggle, Frames

\* Noise, which does not occur.
LEMMA NoiseUndoes ==
  ASSUME NEW op, Valid(op), op.name \in OneQubitNoise \cup TwoQubitNoise, op.name \in Stepwise,
         NEW t, NEW a \in Live, NEW b \in Live, Alike(b, a)
  PROVE  Undoes(op, t, a, b)
<1>1. op.name \notin Recorders /\ op.name \notin {"R", "RX"}
  BY RecordersAre, PlainKinds
<1>2. ASSUME NEW s \in SimsAt(b) PROVE Carried(b, s, a, FrameTarget(s, Quiet(op), t))
  <2>1. s \in Sims /\ s.frame \in Frames
    BY DEF SimsAt, Sims
  <2>2. Leads(s, op.name, t, FrameTarget(s, Quiet(op), t))
    BY <2>1, QuietTargetIs
  <2>3. Framed(s, s.frame) = s
    BY <2>1 DEF Framed, Sims
  <2>4. \/ FrameTarget(s, Quiet(op), t) = {Framed(s, AddPauli(s.frame, t, "I"))}
        \/ FrameTarget(s, Quiet(op), t) = {Framed(s, AddPauli(AddPauli(s.frame, t[1], "I"), t[2], "I"))}
    BY <2>2 DEF Leads
  <2>5. FrameTarget(s, Quiet(op), t) = {s}
    BY <2>1, <2>3, <2>4, NoPauli
  <2>6. s \in SimsAt(a) /\ Effect(a, s) = Effect(b, s)
    BY AlikeSense
  <2> QED
    BY <2>5, <2>6 DEF Carried
<1>3. Dual(op, t, b, a)
  BY <1>2, CarriedIsDual
<1> QED
  BY <1>1, <1>3 DEF Undoes, Alike

\* What the analyzer requires of a qubit it goes on with.
LEMMA EnsuredIs ==
  ASSUME NEW a \in Live, NEW q, NEW basis
  PROVE  /\ Ensured(a, q, basis) \in Analyses
         /\ Ensured(a, q, basis).measurement = a.measurement
         /\ Ensured(a, q, basis).measured = a.measured
         /\ Ensured(a, q, basis).outcome = "analyzing" =>
              Ensured(a, q, basis) = a /\ Sensitivity(a, q, basis) = {}
BY DEF Ensured, Live, Analyses

\* The steps of the undoing of a measurement, and what they leave.
LEMMA ReadoutIs ==
  ASSUME NEW a \in Analyses, a.measured \in 1 .. Len(a.measurement), NEW op
  PROVE  /\ EmitReadout(a, op) \in Analyses
         /\ Alike(EmitReadout(a, op), a)
<1>1. a.measurement[a.measured] \in SUBSET Targets
  BY DEF Analyses
<1>2. ASSUME NEW e \in SUBSET Targets
      PROVE  Emit(a, {e}) \in Analyses /\ Alike(Emit(a, {e}), a)
  BY DEF Emit, Analyses, Alike, SameAt
<1>3. Alike(a, a)
  BY DEF Alike, SameAt
<1> QED
  BY <1>1, <1>2, <1>3 DEF EmitReadout

\* What clearing a qubit changes.
LEMMA ClearedIs ==
  ASSUME NEW a \in Analyses, NEW q \in Qubits
  PROVE  LET b == Cleared(a, q)
         IN /\ b \in Analyses
            /\ b.measurement = a.measurement /\ b.measured = a.measured
            /\ b.detector = a.detector /\ b.outcome = a.outcome
            /\ Idle(b, q)
            /\ \A r \in Qubits \ {q} : SameAt(b, a, r)
<1> DEFINE b == Cleared(a, q)
<1>1. a.x \in [Qubits -> SUBSET Targets] /\ a.z \in [Qubits -> SUBSET Targets]
  BY DEF Analyses
<1>2. b.x = [a.x EXCEPT ![q] = {}] /\ b.z = [a.z EXCEPT ![q] = {}]
      /\ b.measurement = a.measurement /\ b.measured = a.measured
      /\ b.detector = a.detector /\ b.outcome = a.outcome /\ b \in Analyses
  BY <1>1 DEF Cleared, Analyses
<1> HIDE DEF b
<1>3. Idle(b, q) /\ \A r \in Qubits \ {q} : SameAt(b, a, r)
  BY <1>1, <1>2 DEF SameAt, Idle
<1> QED
  BY <1>2, <1>3 DEF b

\* A measurement undone does not end the analysis.
LEMMA MeasureKeepsOutcome ==
  ASSUME NEW a \in Analyses, NEW q, NEW basis
  PROVE  UndoMeasure(a, q, basis).outcome = a.outcome
BY DEF UndoMeasure, Analyses

\* What the measurements take away.
LEMMA MeasureUndoes ==
  ASSUME NEW op, Valid(op), op.name \in Measurements \cup MeasureResets, op.name \in Stepwise,
         NEW t \in Qubits, NEW a \in Live, a.measured > 0,
         UndoTarget(a, op, t).outcome = "analyzing"
  PROVE  Undoes(op, t, a, UndoTarget(a, op, t))
<1> DEFINE basis == Basis(op.name)
           e == Ensured(a, t, basis)
           m == EmitReadout(e, op)
           c == IF op.name \in Measurements THEN m ELSE Cleared(m, t)
           b == UndoMeasure(c, t, basis)
<1>1. /\ a \in Analyses /\ a.measured \in 1 .. Len(a.measurement)
      /\ a.x \in [Qubits -> SUBSET Targets] /\ a.z \in [Qubits -> SUBSET Targets]
      /\ basis \in Bases
  BY LiveParts DEF Bases, Basis
<1>2. UndoingOf(a, op, t, UndoTarget(a, op, t))
  BY UndoTargetIs
<1>3. UndoTarget(a, op, t) = b
  <2>1. CASE op.name \in Measurements
    <3>1. UndoTarget(a, op, t) = UndoMeasure(m, t, basis)
      BY <1>2, <2>1 DEF UndoingOf
    <3>2. c = m
      BY <2>1
    <3> HIDE DEF c, m, basis
    <3> QED
      BY <3>1, <3>2
  <2>2. CASE op.name \in MeasureResets
    <3>1. UndoTarget(a, op, t) = UndoMeasure(Cleared(m, t), t, basis)
      BY <1>2, <2>2 DEF UndoingOf
    <3>2. op.name \notin Measurements
      BY <2>2, KindsApart
    <3>3. c = Cleared(m, t)
      BY <3>2
    <3> HIDE DEF c, m, basis
    <3> QED
      BY <3>1, <3>3
  <2> QED
    BY <2>1, <2>2
<1> HIDE DEF basis
<1>4. e \in Analyses /\ e.measured \in 1 .. Len(e.measurement)
  BY <1>1, EnsuredIs
<1> HIDE DEF e
<1>5. m \in Analyses /\ Alike(m, e)
  BY <1>4, ReadoutIs
<1> HIDE DEF m
<1>6. c \in Analyses /\ c.outcome = m.outcome
  BY <1>5, ClearedIs
<1>7. e = a /\ Sensitivity(a, t, basis) = {}
  <2>1. b.outcome = c.outcome
    <3> HIDE DEF c
    <3> QED
      BY <1>6, MeasureKeepsOutcome
  <2>2. e.outcome = "analyzing"
    BY <1>3, <1>5, <1>6, <2>1 DEF Alike
  <2> QED
    BY <2>2, EnsuredIs DEF e
<1>8. Alike(m, a)
  BY <1>5, <1>7
<1>9. /\ c \in Live /\ c.measurement = a.measurement /\ c.measured = a.measured
      /\ c.detector = a.detector /\ c.outcome = "analyzing"
      /\ \A r \in Qubits \ {t} : SameAt(c, a, r)
      /\ Idle(a, t) \/ op.name \notin Measurements => \A r \in Qubits : SameAt(c, Cleared(a, t), r)
  <2>1. /\ m.measurement = a.measurement /\ m.measured = a.measured
        /\ m.detector = a.detector /\ m.outcome = "analyzing"
        /\ \A r \in Qubits : SameAt(m, a, r)
    BY <1>8, LiveParts DEF Alike
  <2>2. Cleared(a, t).x[t] = {} /\ Cleared(a, t).z[t] = {}
        /\ \A r \in Qubits \ {t} : SameAt(Cleared(a, t), a, r)
    BY <1>1, ClearedIs DEF Idle
  <2>3. CASE op.name \in Measurements
    BY <2>3, <2>1, <2>2, <1>1, <1>5 DEF Idle, SameAt, Live
  <2>4. CASE op.name \notin Measurements
    <3>1. c = Cleared(m, t)
      BY <2>4
    <3>2. /\ Cleared(m, t).measurement = a.measurement /\ Cleared(m, t).measured = a.measured
          /\ Cleared(m, t).detector = a.detector /\ Cleared(m, t).outcome = "analyzing"
          /\ Cleared(m, t).x[t] = {} /\ Cleared(m, t).z[t] = {}
          /\ \A r \in Qubits \ {t} : SameAt(Cleared(m, t), m, r)
      BY <1>5, <2>1, ClearedIs DEF Idle
    <3>3. \A r \in Qubits : SameAt(Cleared(m, t), Cleared(a, t), r)
      BY <2>1, <2>2, <3>2 DEF SameAt
    <3>4. \A r \in Qubits \ {t} : SameAt(Cleared(m, t), a, r)
      BY <2>1, <3>2 DEF SameAt
    <3> QED
      BY <1>1, <1>6, <3>1, <3>2, <3>3, <3>4 DEF Live
  <2> QED
    BY <2>3, <2>4
<1> HIDE DEF c
<1>10. b \in Live /\ LessOne(c, b) /\ \A r \in Qubits \ {t} : SameAt(b, c, r)
  BY <1>1, <1>9, UndoMeasureIs
<1>11. /\ QubitsUsed(op, t) = {t} /\ op.name \in Recorders /\ op.name \notin {"R", "RX"}
       /\ op.name \in Measurements \/ op.name = "MRY" => QubitsLost(op, t) = {t}
  BY UsedAndLost, PlainKinds DEF Recorders
<1>12. ASSUME \A q \in QubitsLost(op, t) : Idle(a, q) PROVE Dual(op, t, b, a)
  BY <1>9, <1>11, <1>12, <1>7, MeasurementIsDual DEF basis, Basis, MeasureResets
<1>13. \A r \in Qubits \ {t} : SameAt(b, a, r)
  BY <1>9, <1>10 DEF SameAt
<1> HIDE DEF b
<1>14. Undoes(op, t, a, b)
  BY <1>9, <1>10, <1>11, <1>12, <1>13 DEF Undoes, LessOne
<1> QED
  BY <1>3, <1>14

\* Its qubits are those the group uses, and its anchor the one the group loses.
LEMMA ProductOfGroup ==
  ASSUME NEW op, NEW t,
         \/ op.name \in PairMeasurements /\ t \in DistinctPairs
         \/ op.name = "MPP" /\ t \in PauliProducts
  PROVE  /\ ProductOf(op, t) \in PauliProducts
         /\ QubitsIn(ProductOf(op, t)) = QubitsUsed(op, t)
         /\ QubitsLost(op, t) = {Anchor(ProductOf(op, t))}
<1>1. CASE op.name = "MPP" /\ t \in PauliProducts
  BY <1>1, UsedAndLost DEF ProductOf
<1>2. CASE op.name \in PairMeasurements /\ t \in DistinctPairs
  <2> DEFINE b == Basis(op.name)
             p == PairProduct(op.name, t)
  <2>1. t[1] \in Qubits /\ t[2] \in Qubits /\ t[1] # t[2] /\ b \in Bases
    BY <1>2 DEF DistinctPairs, Basis, Bases
  <2>2. p = <<<<t[1], b>>, <<t[2], b>>>>
    BY DEF PairProduct
  <2>3. ProductOf(op, t) = p
    BY <1>2, KindsApart DEF ProductOf
  <2> HIDE DEF b, p
  <2>4. p \in PauliProducts
    BY <2>1, <2>2 DEF PauliProducts
  <2>5. Anchor(p) = t[2]
    BY <2>1, <2>2 DEF Anchor, Last
  <2>6. QubitsIn(p) = {t[1], t[2]}
    <3>1. DOMAIN p = {1, 2} /\ p[1] = <<t[1], b>> /\ p[2] = <<t[2], b>>
      BY <2>2
    <3>2. Range(p) = {<<t[1], b>>, <<t[2], b>>}
      BY <3>1 DEF Range
    <3> SUFFICES ASSUME NEW q PROVE q \in QubitsIn(p) <=> q \in {t[1], t[2]}
      OBVIOUS
    <3> QED
      BY <3>2 DEF QubitsIn
  <2>7. QubitsUsed(op, t) = {t[1], t[2]} /\ QubitsLost(op, t) = {t[2]}
    BY <1>2, UsedAndLost
  <2> QED
    BY <2>3, <2>4, <2>5, <2>6, <2>7
<1> QED
  BY <1>1, <1>2

\* What the undoing of a product's measurement leaves.
LEMMA UndoProductIs ==
  ASSUME NEW a \in Live, a.measured > 0, NEW product \in PauliProducts
  PROVE  LET b == UndoProductMeasurement(a, product)
         IN /\ b \in Live /\ LessOne(a, b)
            /\ \A r \in Qubits \ QubitsIn(product) : SameAt(b, a, r)
<1> DEFINE b == UndoProductMeasurement(a, product)
           q == Anchor(product)
           c == UndoUnfold(a, product)
           m == UndoMeasure(c, q, "Z")
<1>1. a \in Analyses /\ q \in Qubits \cap QubitsIn(product) /\ "Z" \in Bases /\ NoFlips \in Frames
  BY LiveParts, ProductPlaces DEF Bases, NoFlips, Frames
<1>2. c \in ChangedOn(a, QubitsIn(product))
  BY <1>1, ProductsMirror
<1>3. b = UndoFold(m, product)
  BY DEF UndoProductMeasurement, Anchor
<1> HIDE DEF b, q, c
<1>4. c \in Live /\ c.measured = a.measured
  BY <1>1, <1>2 DEF ChangedOn, Live
<1>5. m \in Live /\ LessOne(c, m) /\ \A r \in Qubits \ {q} : SameAt(m, c, r)
  BY <1>1, <1>4, UndoMeasureIs
<1> HIDE DEF m
<1>6. b \in ChangedOn(m, QubitsIn(product))
  BY <1>5, <1>1, <1>3, ProductsMirror DEF Live
<1>7. b \in Live /\ LessOne(a, b)
  BY <1>2, <1>5, <1>6 DEF ChangedOn, Live, LessOne
<1>8. \A r \in Qubits \ QubitsIn(product) : SameAt(b, a, r)
  BY <1>1, <1>2, <1>5, <1>6 DEF ChangedOn, SameAt
<1> QED
  BY <1>7, <1>8 DEF b

\* The measurement of a product.
LEMMA ProductUndoes ==
  ASSUME NEW op, Valid(op), op.name \in Stepwise, NEW t,
         \/ op.name \in PairMeasurements /\ t \in DistinctPairs
         \/ op.name = "MPP" /\ t \in PauliProducts,
         NEW a \in Live, a.measured > 0
  PROVE  Undoes(op, t, a, UndoTarget(a, op, t))
<1> DEFINE product == ProductOf(op, t)
           b == UndoProductMeasurement(a, product)
<1>1. product \in PauliProducts /\ QubitsIn(product) = QubitsUsed(op, t)
      /\ QubitsLost(op, t) = {Anchor(product)}
  BY ProductOfGroup
<1>2. UndoTarget(a, op, t) = b
  BY UndoTargetIs, KindsApart DEF UndoingOf, ProductOf
<1>3. \A s \in Sims : FrameTarget(s, Quiet(op), t) = ProductLeads(s, product)
  <2> SUFFICES ASSUME NEW s \in Sims PROVE FrameTarget(s, Quiet(op), t) = ProductLeads(s, product)
    OBVIOUS
  <2>1. Leads(s, op.name, t, FrameTarget(s, Quiet(op), t))
    BY QuietTargetIs
  <2>2. op.name \in PairMeasurements => op.name # "MPP"
    BY KindsApart
  <2> QED
    BY <2>1, <2>2 DEF Leads, ProductOf
<1> HIDE DEF product
<1>4. /\ b \in Live /\ LessOne(a, b)
      /\ \A r \in Qubits \ QubitsIn(product) : SameAt(b, a, r)
  BY <1>1, UndoProductIs
<1>5. ASSUME \A q \in QubitsLost(op, t) : Idle(a, q) PROVE Dual(op, t, b, a)
  BY <1>1, <1>5, <1>3, ProductMeasurementIsDual
<1>6. op.name \in Recorders /\ op.name \notin {"R", "RX"}
  BY PlainKinds DEF Recorders
<1> HIDE DEF b
<1>7. Undoes(op, t, a, b)
  BY <1>1, <1>4, <1>5, <1>6 DEF Undoes, LessOne
<1> QED
  BY <1>2, <1>7

\* The gate of a product.
LEMMA SppUndoes ==
  ASSUME NEW op, Valid(op), op.name \in {"SPP", "SPP_DAG"}, op.name \in Stepwise,
         NEW t \in PauliProducts, NEW a \in Live
  PROVE  Undoes(op, t, a, UndoTarget(a, op, t))
<1> DEFINE q == Anchor(t)
           c == UndoUnfold(a, t)
           m == undo_s(c, q)
           b == UndoFold(m, t)
<1>1. a \in Analyses /\ q \in Qubits \cap QubitsIn(t) /\ NoFlips \in Frames
  BY LiveParts, ProductPlaces DEF NoFlips, Frames
<1>2. UndoTarget(a, op, t) = b
  BY UndoTargetIs DEF UndoingOf
<1>3. c \in ChangedOn(a, QubitsIn(t)) /\ c \in Analyses
  BY <1>1, ProductsMirror DEF ChangedOn
<1>4. m \in ChangedOn(c, {q}) /\ m \in Analyses
  <2> HIDE DEF c
  <2>1. m \in ChangedOn(c, {q})
    BY <1>1, <1>3, UndoChanges
  <2> QED
    BY <2>1 DEF ChangedOn
<1>5. b \in ChangedOn(m, QubitsIn(t))
  <2> HIDE DEF m
  <2> QED
    BY <1>1, <1>4, ProductsMirror
<1>6. /\ b.measurement = a.measurement /\ b.measured = a.measured /\ b.detector = a.detector
      /\ b \in Live /\ \A r \in Qubits \ QubitsIn(t) : SameAt(b, a, r)
  <2> HIDE DEF b, m, c, q
  <2> QED
    BY <1>1, <1>3, <1>4, <1>5 DEF ChangedOn, Live, SameAt
<1>7. ASSUME NEW s \in SimsAt(b) PROVE Carried(b, s, a, FrameTarget(s, Quiet(op), t))
  <2> DEFINE folded == FoldFrame(s.frame, t)
             turned == do_s(folded, q)
             g == UnfoldFrame(turned, t)
  <2>1. s \in Sims /\ s.frame \in Frames
    BY DEF SimsAt, Sims
  <2>2. FrameTarget(s, Quiet(op), t) = {Framed(s, g)}
    <3>1. Leads(s, op.name, t, FrameTarget(s, Quiet(op), t))
      BY <2>1, QuietTargetIs
    <3> QED
      BY <3>1 DEF Leads, Anchor
  <2>3. folded \in Frames /\ Mirrors(b, s.frame, m, folded)
    <3> HIDE DEF m
    <3> QED
      BY <1>4, <2>1, ProductsMirror
  <2>4. turned \in Frames /\ Mirrors(m, folded, c, turned)
    <3> HIDE DEF c, folded, q
    <3>1. \A r \in Qubits, d \in Targets : Feels(m, folded, r, d) <=> Feels(c, turned, r, d)
      BY <1>1, <1>3, <2>3, SAgrees
    <3>2. turned \in Frames
      BY <1>1, <2>3, FrameTypes
    <3> HIDE DEF m, turned
    <3> QED
      BY <3>1, <3>2, SameMirrors
  <2>5. g \in Frames /\ Mirrors(c, turned, a, g)
    <3> HIDE DEF turned
    <3> QED
      BY <1>1, <2>4, ProductsMirror
  <2> HIDE DEF b, m, c, q, folded, turned, g
  <2>6. Mirrors(b, s.frame, a, g)
    BY <2>3, <2>4, <2>5 DEF Mirrors
  <2>7. Framed(s, g) \in SimsAt(a) /\ Effect(a, Framed(s, g)) = Effect(b, s)
    BY <1>1, <1>6, <2>5, <2>6, Moved
  <2> QED
    BY <2>2, <2>7 DEF Carried
<1>8. QubitsUsed(op, t) = QubitsIn(t) /\ op.name \notin Recorders /\ op.name \notin {"R", "RX"}
  BY UsedAndLost, RecordersAre, PlainKinds
<1> HIDE DEF b
<1>9. Dual(op, t, b, a)
  BY <1>7, CarriedIsDual
<1>10. Undoes(op, t, a, b)
  BY <1>6, <1>8, <1>9 DEF Undoes
<1> QED
  BY <1>2, <1>10

\* A result that nothing flips.
LEMMA SilentUndoes ==
  ASSUME NEW op, Valid(op), op.name \in Heralded \cup {"MPAD"}, op.name \in Stepwise, NEW t,
         NEW a \in Live, NEW b \in Live, LessOne(a, b), \A r \in Qubits : SameAt(b, a, r)
  PROVE  Undoes(op, t, a, b)
<1>1. op.name \in Recorders /\ op.name \notin {"R", "RX"}
  BY PlainKinds DEF Recorders
<1>2. \A f, d : Touches(b, f, d) <=> Touches(a, f, d)
  <2> SUFFICES ASSUME NEW f, NEW d PROVE Touches(b, f, d) <=> Touches(a, f, d)
    OBVIOUS
  <2>1. \A r \in Qubits : Feels(b, f, r, d) <=> Feels(a, f, r, d)
    BY DEF SameAt, Feels
  <2>2. {r \in Qubits : Feels(b, f, r, d)} = {r \in Qubits : Feels(a, f, r, d)}
    BY <2>1
  <2> QED
    BY <2>2 DEF Touches
<1>3. ASSUME NEW s \in SimsAt(b) PROVE Carried(b, s, a, FrameTarget(s, Quiet(op), t))
  <2>1. s \in Sims /\ s.frame \in Frames /\ a \in Analyses
    BY LiveParts DEF SimsAt, Sims
  <2>2. Leads(s, op.name, t, FrameTarget(s, Quiet(op), t))
    BY <2>1, QuietTargetIs
  <2>3. FrameTarget(s, Quiet(op), t) = {Recording(s, s.frame, FALSE)}
    BY <2>2, <2>1, NoPauli DEF Leads, Recording, Sims
  <2>4. Records(b, s.frame, a, s.frame, FALSE, {})
    BY <1>2 DEF Records
  <2>5. {} \in SUBSET Targets /\ FALSE \in BOOLEAN
    OBVIOUS
  <2>6. /\ Recording(s, s.frame, FALSE) \in SimsAt(a)
        /\ Effect(a, Recording(s, s.frame, FALSE)) = SymDiff(Effect(b, s), {})
    <3> DEFINE g == s.frame
               e == FALSE
               none == {}
    <3>1. g \in Frames /\ e \in BOOLEAN /\ none \in SUBSET Targets /\ Records(b, s.frame, a, g, e, none)
      BY <2>1, <2>4, <2>5
    <3> HIDE DEF g, e, none
    <3>2. Recording(s, g, e) \in SimsAt(a) /\ Effect(a, Recording(s, g, e)) = SymDiff(Effect(b, s), none)
      BY <2>1, <3>1, ResultAdds
    <3> QED
      BY <3>2 DEF g, e, none
  <2>7. SymDiff(Effect(b, s), {}) = Effect(b, s)
    BY SymDiffSums
  <2> QED
    BY <2>3, <2>6, <2>7 DEF Carried
<1>4. Dual(op, t, b, a)
  BY <1>3, CarriedIsDual
<1> QED
  BY <1>1, <1>4 DEF Undoes, LessOne

\* Padding.
LEMMA PadUndoes ==
  ASSUME NEW op, Valid(op), op.name = "MPAD", op.name \in Stepwise, NEW t,
         NEW a \in Live, a.measured > 0
  PROVE  Undoes(op, t, a, UndoTarget(a, op, t))
<1> DEFINE b == Padless(a)
           left == [a.measurement EXCEPT ![a.measured] = {}]
<1>1. UndoTarget(a, op, t) = b
  BY UndoTargetIs DEF UndoingOf
<1>2. /\ a \in Analyses /\ a.outcome = "analyzing"
      /\ a.measured \in 1 .. Len(a.measurement) /\ a.measured - 1 \in Nat
      /\ a.measurement \in Seq(SUBSET Targets) /\ Len(a.measurement) \in Nat
  BY LiveParts
<1>3. /\ left \in Seq(SUBSET Targets) /\ Len(left) = Len(a.measurement)
      /\ \A m \in 1 .. a.measured - 1 : left[m] = a.measurement[m]
  BY <1>2
<1>4. /\ b \in Analyses /\ b.measurement = left /\ b.measured = a.measured - 1
      /\ b.detector = a.detector /\ b.outcome = a.outcome /\ b.x = a.x /\ b.z = a.z
  <2> DEFINE c == [a EXCEPT !.measurement = left]
  <2>1. /\ c \in Analyses /\ c.measurement = left /\ c.measured = a.measured
        /\ c.detector = a.detector /\ c.outcome = a.outcome /\ c.x = a.x /\ c.z = a.z
    <3> HIDE DEF left
    <3> QED
      BY <1>2, <1>3 DEF Analyses
  <2>2. b = [c EXCEPT !.measured = a.measured - 1]
    BY <1>2 DEF Padless, Analyses
  <2> HIDE DEF c, b
  <2> QED
    BY <1>2, <2>1, <2>2 DEF Analyses
<1> HIDE DEF left, b
<1>5. b \in Live /\ LessOne(a, b) /\ \A r \in Qubits : SameAt(b, a, r)
  BY <1>2, <1>3, <1>4 DEF Live, LessOne, SameAt
<1>6. Undoes(op, t, a, b)
  BY <1>5, SilentUndoes
<1> QED
  BY <1>1, <1>6

\* Heralded noise, which does not occur and is recorded as such.
LEMMA HeraldedUndoes ==
  ASSUME NEW op, Valid(op), op.name \in Heralded, op.name \in Stepwise, NEW t \in Qubits,
         NEW a \in Live, a.measured > 0
  PROVE  Undoes(op, t, a, UndoTarget(a, op, t))
<1> DEFINE c == OneLess(a)
           errors == IF op.arg > 0 THEN Channel(a, op, t) ELSE {}
           b == Emit(c, errors)
<1>1. UndoTarget(a, op, t) = b
  BY UndoTargetIs DEF UndoingOf
<1>2. /\ a \in Analyses /\ a.outcome = "analyzing"
      /\ a.measured \in 1 .. Len(a.measurement) /\ a.measured - 1 \in Nat
      /\ Len(a.measurement) \in Nat
  BY LiveParts
<1>3. errors \in SUBSET SUBSET Targets
  BY <1>2, ChannelIs
<1>4. /\ c \in Analyses /\ c.measured = a.measured - 1 /\ c.measurement = a.measurement
      /\ c.detector = a.detector /\ c.outcome = a.outcome /\ c.x = a.x /\ c.z = a.z
  BY <1>2 DEF OneLess, Analyses
<1> HIDE DEF c, errors
<1>5. c \in Live
  BY <1>2, <1>4 DEF Live
<1>6. b \in Live /\ Alike(b, c)
  BY <1>3, <1>5, EmitIs
<1> HIDE DEF b
<1>7. LessOne(a, b) /\ \A r \in Qubits : SameAt(b, a, r)
  BY <1>4, <1>6 DEF LessOne, Alike, SameAt
<1>8. Undoes(op, t, a, b)
  BY <1>6, <1>7, SilentUndoes
<1> QED
  BY <1>1, <1>8

\* The instructions whose groups are undone from the last to the first take one away from an
\* analysis that goes on.
LEMMA LastFirstUndoes ==
  ASSUME NEW op, Valid(op), op.name \in LastFirst, op.name \in Stepwise, NEW t \in Groups(op.name),
         NEW a \in Live, op.name \in Recorders => a.measured > 0,
         UndoTarget(a, op, t).outcome = "analyzing"
  PROVE  Undoes(op, t, a, UndoTarget(a, op, t))
<1>1. op.name \in InstructionNames
  BY DEF Valid
<1>2. CASE op.name \in Measurements \cup MeasureResets
  BY <1>1, <1>2, GroupsAre, MeasureUndoes DEF Recorders
<1>3. CASE op.name \in Heralded
  BY <1>1, <1>3, GroupsAre, HeraldedUndoes DEF Recorders
<1>4. CASE op.name = "MPP"
  BY <1>1, <1>4, GroupsAre, ProductUndoes DEF Recorders
<1>5. CASE op.name \in {"SPP", "SPP_DAG"}
  BY <1>1, <1>5, GroupsAre, SppUndoes
<1>6. CASE op.name = "MPAD"
  BY <1>6, PadUndoes DEF Recorders
<1> QED
  BY <1>2, <1>3, <1>4, <1>5, <1>6 DEF LastFirst

(***************************************************************************)
(* An instruction, undone.                                                 *)
(***************************************************************************)

\* How many places there are in a sequence.
LEMMA FirstPlaces ==
  ASSUME NEW n \in Nat
  PROVE  IsFiniteSet(1 .. n) /\ Cardinality(1 .. n) = n
<1>1. 1 \in Int /\ n \in Int
  OBVIOUS
<1>2. IsFiniteSet(1 .. n) /\ Cardinality(1 .. n) = IF 1 > n THEN 0 ELSE n - 1 + 1
  BY <1>1, FS_Interval
<1> QED
  BY <1>2

\* If the groups undone one after the other do not end the analysis, none of them does on the way.
LEMMA UndoneInOrder ==
  ASSUME NEW op, NEW T, NEW order \in Seq(T), \A i \in 1 .. Len(order) : Shrinks(op, order[i]),
         NEW a \in Live, Left(a, op, Len(order)) >= 0,
         InOrder(a, op, order).outcome = "analyzing"
  PROVE  \E v : Course(v, a, op, order) /\ v[Len(order)] = InOrder(a, op, order)
<1> DEFINE n == Len(order)
           W == Live \cup {UndoTarget(b, op, order[i]) : b \in Live, i \in 1 .. n}
           U(k) == {b \in W : b.outcome = "analyzing" =>
                                b \in Live /\ b.measured = Left(a, op, k)}
           V == [A \in SUBSET (1 .. n) |-> U(Cardinality(A))]
           step == [i \in 1 .. n |-> [b \in W |-> Step(b, op, order[i])]]
           Is(g) == g = [A \in SUBSET (1 .. n) |->
                           IF A = {} THEN a
                           ELSE LET x == Max(A)
                                IN IF g[A \ {x}].outcome = "analyzing"
                                   THEN UndoTarget(g[A \ {x}], op, order[x]) ELSE g[A \ {x}]]
           it == CHOOSE g : Is(g)
<1>1. n \in Nat /\ DOMAIN order = 1 .. n /\ a.measured \in Nat /\ Left(a, op, 0) = a.measured
  BY LiveParts DEF Left
<1>2. InOrder(a, op, order) = it[1 .. n]
  BY <1>1 DEF InOrder, FoldLeft, MapThenFoldSet
<1>3. \A A \in SUBSET (1 .. n) :
        /\ IsFiniteSet(A) /\ Cardinality(A) \in Nat /\ Cardinality(A) <= n
        /\ V[A] = U(Cardinality(A))
  <2>1. IsFiniteSet(1 .. n) /\ Cardinality(1 .. n) = n
    BY <1>1, FirstPlaces
  <2> HIDE DEF U
  <2> QED
    BY <2>1, FS_Subset, FS_CardinalityType
<1>4. a \in V[{}]
  <2>1. Cardinality({}) = 0 /\ {} \in SUBSET (1 .. n)
    BY FS_EmptySet
  <2>2. a \in U(0)
    BY <1>1, LiveParts
  <2> HIDE DEF U, V
  <2> QED
    BY <1>3, <2>1, <2>2
<1>5. ASSUME NEW k \in Nat, k < n, NEW y \in U(k), NEW i \in 1 .. n
      PROVE  step[i][y] = Step(y, op, order[i]) /\ step[i][y] \in U(k + 1)
  <2>1. step[i][y] = Step(y, op, order[i])
    OBVIOUS
  <2>2. CASE y.outcome = "analyzing"
    <3> DEFINE z == UndoTarget(y, op, order[i])
    <3>1. y \in Live /\ y.measured = Left(a, op, k) /\ y.measured \in Nat
      BY <2>2, LiveParts
    <3>2. z \in W
      BY <3>1
    <3>3. z.outcome = "analyzing" => z \in Live /\ z.measured = Left(a, op, k + 1)
      <4>1. Left(y, op, 1) = Left(a, op, k + 1) /\ Left(y, op, 1) >= 0
        <5>1. Left(a, op, n) >= 0 /\ n \in Nat /\ a.measured \in Nat
          BY <1>1
        <5> HIDE DEF n
        <5>2. CASE op.name \in Recorders
          <6> DEFINE m == a.measured
                     l == y.measured
          <6>1. l = m - k /\ m - n >= 0 /\ Left(y, op, 1) = l - 1 /\ Left(a, op, k + 1) = m - (k + 1)
            BY <3>1, <5>1, <5>2 DEF Left
          <6>2. l \in Nat /\ m \in Nat
            BY <3>1, <5>1
          <6> HIDE DEF l, m
          <6> QED
            BY <1>5, <5>1, <6>1, <6>2
        <5>3. CASE op.name \notin Recorders
          BY <3>1, <5>1, <5>3 DEF Left
        <5> QED
          BY <5>2, <5>3
      <4>2. Shrinks(op, order[i])
        OBVIOUS
      <4>3. z.outcome = "analyzing" => z \in Live /\ z.measured = Left(y, op, 1)
        BY <3>1, <4>1, <4>2 DEF Shrinks
      <4> HIDE DEF z
      <4> QED
        BY <4>1, <4>3
    <3>4. step[i][y] = z
      BY <2>1, <2>2 DEF Step
    <3> HIDE DEF z, W, step
    <3> QED
      BY <2>1, <3>2, <3>3, <3>4
  <2>3. CASE y.outcome # "analyzing"
    <3>1. step[i][y] = y
      BY <2>1, <2>3 DEF Step
    <3> HIDE DEF W, step
    <3> QED
      BY <2>1, <2>3, <3>1
  <2> QED
    BY <2>2, <2>3
<1> HIDE DEF step, U
<1>6. ASSUME NEW A \in SUBSET (1 .. n), A # {}, NEW y \in V[A \ {Max(A)}]
      PROVE  /\ step[Max(A)][y] = Step(y, op, order[Max(A)])
             /\ step[Max(A)][y] \in V[A]
  <2> DEFINE B == A \ {Max(A)}
             k == Cardinality(B)
  <2>1. Max(A) \in A /\ Max(A) \in 1 .. n
    BY <1>1, <1>6, LastPlace
  <2>2. Cardinality(A) = k + 1 /\ k \in Nat /\ k < n
    <3>1. IsFiniteSet(A) /\ Cardinality(A) \in Nat /\ Cardinality(A) <= n
      BY <1>3
    <3>2. Cardinality(B) = Cardinality(A) - 1 /\ B \in SUBSET (1 .. n)
      BY <2>1, <3>1, FS_RemoveElement
    <3>3. Cardinality(B) \in Nat
      BY <1>3, <3>2
    <3> QED
      BY <1>1, <3>1, <3>2, <3>3
  <2>3. y \in U(k)
    BY <1>3
  <2> HIDE DEF k
  <2>4. step[Max(A)][y] = Step(y, op, order[Max(A)]) /\ step[Max(A)][y] \in U(k + 1)
    BY <1>5, <2>1, <2>2, <2>3
  <2> QED
    BY <1>3, <2>2, <2>4
<1> HIDE DEF n, V
<1>7. PICK f, v : FoldTrace(f, v, n, V, a, step)
  BY <1>1, <1>4, <1>6, FoldsFromLeft
<1>8. \A A \in SUBSET (1 .. n) :
        f[A] = IF A = {} THEN a ELSE Step(f[A \ {Max(A)}], op, order[Max(A)])
  <2> SUFFICES ASSUME NEW A \in SUBSET (1 .. n)
               PROVE  f[A] = IF A = {} THEN a ELSE Step(f[A \ {Max(A)}], op, order[Max(A)])
    OBVIOUS
  <2>1. CASE A = {}
    BY <1>7, <2>1 DEF FoldTrace
  <2>2. CASE A # {}
    BY <1>7, <2>2, <1>6 DEF FoldTrace
  <2> QED
    BY <2>1, <2>2
<1>9. Is(f)
  BY <1>7, <1>8 DEF FoldTrace, Step
<1>10. Is(it)
  <2> HIDE DEF Is
  <2> QED
    BY <1>9
<1> HIDE DEF it
<1>11. GoesOnAs(f, it, n)
  BY <1>10, <1>8 DEF Step, GoesOnAs
<1>12. InOrder(a, op, order) = v[n]
  BY <1>2, <1>7, <1>11 DEF FoldTrace
<1>13. /\ v[0] = a
       /\ \A i \in 0 .. n : v[i] \in U(i)
       /\ \A i \in 1 .. n : v[i] = step[i][v[i - 1]]
  BY <1>1, FirstPlaces, <1>7, <1>3 DEF FoldTrace, Trace
<1>14. \A i \in 1 .. n : v[i] = Step(v[i - 1], op, order[i])
  <2> SUFFICES ASSUME NEW i \in 1 .. n PROVE v[i] = Step(v[i - 1], op, order[i])
    OBVIOUS
  <2>1. i - 1 \in Nat /\ i - 1 < n /\ i - 1 \in 0 .. n
    BY <1>1 DEF n
  <2>2. v[i] = step[i][v[i - 1]] /\ v[i - 1] \in U(i - 1)
    BY <1>13, <2>1
  <2>3. \A k \in Nat : k < n => \A y \in U(k) : step[i][y] = Step(y, op, order[i])
    BY <1>5
  <2> HIDE DEF U
  <2> QED
    BY <2>1, <2>2, <2>3
\* If it goes on at the end it has gone on all the time.
<1>15. \A i \in 0 .. n : v[i].outcome = "analyzing"
  <2> DEFINE N == {k \in Nat : k <= n => v[n - k].outcome = "analyzing"}
  <2>1. 0 \in N
    BY <1>1, <1>12
  <2>2. ASSUME NEW k \in Nat, k \in N PROVE k + 1 \in N
    <3> SUFFICES ASSUME k + 1 <= n PROVE v[n - (k + 1)].outcome = "analyzing"
      OBVIOUS
    <3>1. v[n - k].outcome = "analyzing" /\ n - k \in 1 .. n /\ (n - k) - 1 = n - (k + 1)
      BY <1>1, <2>2
    <3>2. v[n - k] = Step(v[n - (k + 1)], op, order[n - k])
      BY <1>14, <3>1
    <3> QED
      BY <3>1, <3>2 DEF Step
  <2> HIDE DEF N
  <2>3. \A k \in Nat : k \in N
    BY <2>1, <2>2, NaturalInduction
  <2> SUFFICES ASSUME NEW i \in 0 .. n PROVE v[i].outcome = "analyzing"
    OBVIOUS
  <2>4. n - i \in Nat /\ n - i <= n /\ n - (n - i) = i
    BY <1>1
  <2> QED
    BY <2>3, <2>4 DEF N
<1>16. Course(v, a, op, order)
  <2>1. \A i \in 0 .. n : v[i] \in Live /\ v[i].measured = Left(a, op, i)
    BY <1>13, <1>15 DEF U
  <2>2. \A i \in 1 .. n : v[i] = UndoTarget(v[i - 1], op, order[i])
    <3> SUFFICES ASSUME NEW i \in 1 .. n PROVE v[i] = UndoTarget(v[i - 1], op, order[i])
      OBVIOUS
    <3>1. i - 1 \in 0 .. n
      BY <1>1
    <3> QED
      BY <1>14, <1>15, <3>1 DEF Step
  <2>3. \A i \in 1 .. n : i \in 0 .. n
    BY <1>1
  <2> QED
    BY <1>13, <1>15, <2>1, <2>2, <2>3 DEF Course, n
<1> QED
  BY <1>12, <1>16 DEF n

\* What is undone from the last to the first.
LEMMA LastFirstChain ==
  ASSUME NEW op, Valid(op), op.name \in LastFirst, op.name \in Stepwise,
         NEW a \in Live, Left(a, op, Len(op.on)) >= 0,
         InOrder(a, op, Reverse(op.on)).outcome = "analyzing"
  PROVE  \E c : Chain(c, op, a, InOrder(a, op, Reverse(op.on)))
<1> DEFINE n == Len(op.on)
           order == Reverse(op.on)
           T == Groups(op.name)
<1>1. op.on \in Seq(T) /\ n \in Nat
  BY InstructionIs
<1>2. /\ order \in Seq(T) /\ Len(order) = n
      /\ \A i \in 1 .. n : order[n + 1 - i] = op.on[i] /\ op.on[i] \in T /\ order[i] \in T
      /\ Left(a, op, n) >= 0 /\ InOrder(a, op, order).outcome = "analyzing"
  BY <1>1 DEF Reverse
<1> HIDE DEF order, n
<1>3. ASSUME NEW b \in Live, Left(b, op, 1) >= 0, NEW t \in T,
             UndoTarget(b, op, t).outcome = "analyzing"
      PROVE  Undoes(op, t, b, UndoTarget(b, op, t))
  BY <1>3, LiveParts, LastFirstUndoes DEF Left
<1>4. ASSUME NEW i \in 1 .. n PROVE Shrinks(op, order[i])
  <2> SUFFICES ASSUME NEW b \in Live, Left(b, op, 1) >= 0,
                      UndoTarget(b, op, order[i]).outcome = "analyzing"
               PROVE  UndoTarget(b, op, order[i]) \in Live
                      /\ UndoTarget(b, op, order[i]).measured = Left(b, op, 1)
    BY DEF Shrinks
  <2>1. Undoes(op, order[i], b, UndoTarget(b, op, order[i]))
    BY <1>2, <1>3
  <2> QED
    BY <2>1 DEF Undoes, Left
<1>5. PICK v : Course(v, a, op, order) /\ v[n] = InOrder(a, op, order)
  BY <1>2, <1>4, UndoneInOrder
<1> DEFINE c == [i \in 0 .. n |-> v[n - i]]
<1>6. ASSUME NEW i \in 0 .. n
      PROVE  n - i \in 0 .. n /\ v[n - i] \in Live /\ v[n - i].measured = Left(a, op, n - i)
  <2>1. n \in Nat
    BY <1>1 DEF n
  <2>2. n - i \in 0 .. n
    BY <2>1
  <2> QED
    BY <1>2, <1>5, <2>2 DEF Course
<1>7. ASSUME NEW i \in 1 .. n PROVE Undoes(op, op.on[i], c[i], c[i - 1])
  <2> DEFINE b == v[n - i]
             j == n + 1 - i
  <2>1. j \in 1 .. n /\ j - 1 = n - i /\ i - 1 \in 0 .. n /\ n - (i - 1) = j /\ i \in 0 .. n
    BY <1>1 DEF n
  <2>2. v[j] = UndoTarget(b, op, op.on[i]) /\ v[j].outcome = "analyzing"
    BY <1>2, <1>5, <2>1 DEF Course
  <2>3. b \in Live /\ b.measured = Left(a, op, n - i)
    BY <1>6, <2>1
  <2>4. Left(b, op, 1) >= 0
    <3>1. a.measured \in Nat /\ b.measured \in Nat /\ Left(a, op, n) >= 0
      BY <2>3, LiveParts DEF n
    <3>2. CASE op.name \in Recorders
      <4> DEFINE m == a.measured
      <4>1. m - n >= 0 /\ b.measured = m - (n - i) /\ Left(b, op, 1) = b.measured - 1
        BY <2>3, <3>1, <3>2 DEF Left
      <4> HIDE DEF m, b
      <4> QED
        BY <1>1, <3>1, <4>1 DEF n, m
    <3>3. CASE op.name \notin Recorders
      BY <3>1, <3>3 DEF Left
    <3> QED
      BY <3>2, <3>3
  <2>5. c[i] = b /\ c[i - 1] = v[j]
    BY <2>1
  <2> HIDE DEF b, c
  <2>6. Undoes(op, op.on[i], b, v[j])
    BY <1>2, <1>3, <2>2, <2>3, <2>4
  <2> QED
    BY <2>5, <2>6
<1>8. c[n] = a /\ c[0] = InOrder(a, op, order)
  BY <1>1, <1>5 DEF n, Course
<1>9. \A i \in 0 .. n : c[i] \in Live
  BY <1>6
<1> HIDE DEF c
<1>10. Chain(c, op, a, InOrder(a, op, order))
  BY <1>7, <1>8, <1>9 DEF Chain, n
<1> QED
  BY <1>10 DEF order

\* What is sensed on a qubit before a gate depends on what is sensed there after it.
LEMMA GatesAreLocal ==
  ASSUME NEW a \in Analyses, NEW b \in Analyses, NEW q \in Qubits, NEW name \in OneQubitGates
  PROVE  /\ SameAt(a, b, q) => SameAt(UndoGate1(name, a, q), UndoGate1(name, b, q), q)
         /\ UndoGate1(name, a, q).errors = a.errors
<1>1. /\ a.x \in [Qubits -> SUBSET Targets] /\ a.z \in [Qubits -> SUBSET Targets]
      /\ b.x \in [Qubits -> SUBSET Targets] /\ b.z \in [Qubits -> SUBSET Targets]
  BY DEF Analyses
<1>2. /\ undo_h(a, q).errors = a.errors
      /\ SameAt(a, b, q) => SameAt(undo_h(a, q), undo_h(b, q), q)
  BY <1>1 DEF undo_h, Analyses, SameAt
<1>3. /\ undo_s(a, q).errors = a.errors
      /\ SameAt(a, b, q) => SameAt(undo_s(a, q), undo_s(b, q), q)
  BY <1>1 DEF undo_s, Analyses, SameAt
<1>4. /\ undo_sqrt_x(a, q).errors = a.errors
      /\ SameAt(a, b, q) => SameAt(undo_sqrt_x(a, q), undo_sqrt_x(b, q), q)
  BY <1>1 DEF undo_sqrt_x, Analyses, SameAt
<1>5. /\ undo_c_xyz(a, q).errors = a.errors
      /\ SameAt(a, b, q) => SameAt(undo_c_xyz(a, q), undo_c_xyz(b, q), q)
  BY <1>1 DEF undo_c_xyz, Analyses, SameAt
<1>6. /\ undo_c_zyx(a, q).errors = a.errors
      /\ SameAt(a, b, q) => SameAt(undo_c_zyx(a, q), undo_c_zyx(b, q), q)
  BY <1>1 DEF undo_c_zyx, Analyses, SameAt
<1>7. \/ UndoGate1(name, a, q) = a /\ UndoGate1(name, b, q) = b
      \/ UndoGate1(name, a, q) = undo_h(a, q) /\ UndoGate1(name, b, q) = undo_h(b, q)
      \/ UndoGate1(name, a, q) = undo_s(a, q) /\ UndoGate1(name, b, q) = undo_s(b, q)
      \/ UndoGate1(name, a, q) = undo_sqrt_x(a, q) /\ UndoGate1(name, b, q) = undo_sqrt_x(b, q)
      \/ UndoGate1(name, a, q) = undo_c_xyz(a, q) /\ UndoGate1(name, b, q) = undo_c_xyz(b, q)
      \/ UndoGate1(name, a, q) = undo_c_zyx(a, q) /\ UndoGate1(name, b, q) = undo_c_zyx(b, q)
  BY DEF UndoGate1, OneQubitGates
<1> QED
  BY <1>2, <1>3, <1>4, <1>5, <1>6, <1>7

\* So one gate on several qubits may be undone in any order.
LEMMA GatesCommute ==
  ASSUME NEW a \in Analyses, NEW p \in Qubits, NEW q \in Qubits, NEW name \in OneQubitGates
  PROVE  UndoGate1(name, UndoGate1(name, a, p), q) = UndoGate1(name, UndoGate1(name, a, q), p)
<1> SUFFICES ASSUME p # q
             PROVE  UndoGate1(name, UndoGate1(name, a, p), q)
                      = UndoGate1(name, UndoGate1(name, a, q), p)
  OBVIOUS
<1> DEFINE b == UndoGate1(name, a, p)
           c == UndoGate1(name, a, q)
           bc == UndoGate1(name, b, q)
           cb == UndoGate1(name, c, p)
<1>1. b \in ChangedOn(a, {p}) /\ b \in Analyses /\ b.errors = a.errors
  BY GateChanges, GatesAreLocal DEF ChangedOn
<1>2. c \in ChangedOn(a, {q}) /\ c \in Analyses /\ c.errors = a.errors
  BY GateChanges, GatesAreLocal DEF ChangedOn
<1>3. /\ SameAt(b, a, q) => SameAt(bc, c, q)
      /\ SameAt(c, a, p) => SameAt(cb, b, p)
  <2> HIDE DEF b, c
  <2>1. SameAt(b, a, q) => SameAt(bc, UndoGate1(name, a, q), q)
    BY <1>1, GatesAreLocal
  <2>2. SameAt(c, a, p) => SameAt(cb, UndoGate1(name, a, p), p)
    BY <1>2, GatesAreLocal
  <2> QED
    BY <2>1, <2>2 DEF b, c
<1> HIDE DEF b, c
<1>4. bc \in ChangedOn(b, {q}) /\ bc \in Analyses /\ bc.errors = b.errors
  BY <1>1, GateChanges, GatesAreLocal DEF ChangedOn
<1>5. cb \in ChangedOn(c, {p}) /\ cb \in Analyses /\ cb.errors = c.errors
  BY <1>2, GateChanges, GatesAreLocal DEF ChangedOn
<1> HIDE DEF bc, cb
<1>6. SameBut(bc, cb)
  BY <1>1, <1>2, <1>4, <1>5 DEF SameBut, ChangedOn
<1>7. \A r \in Qubits : SameAt(bc, cb, r)
  BY <1>1, <1>2, <1>3, <1>4, <1>5 DEF SameAt, ChangedOn
<1>8. bc = cb
  BY <1>4, <1>5, <1>6, <1>7, SameAnalyses
<1> QED
  BY <1>8 DEF b, c, bc, cb

\* So it is with resets.
LEMMA ClearsCommute ==
  ASSUME NEW a \in Analyses, NEW p \in Qubits, NEW q \in Qubits
  PROVE  Cleared(Cleared(a, p), q) = Cleared(Cleared(a, q), p)
<1> DEFINE b == Cleared(a, p)
           c == Cleared(a, q)
           bc == Cleared(b, q)
           cb == Cleared(c, p)
<1>1. /\ b \in Analyses /\ c \in Analyses
      /\ SameBut(b, a) /\ SameBut(c, a) /\ Idle(b, p) /\ Idle(c, q)
      /\ \A r \in Qubits : (r # p => SameAt(b, a, r)) /\ (r # q => SameAt(c, a, r))
  BY ClearedIs DEF Cleared, Analyses, SameBut
<1> HIDE DEF b, c
<1>2. /\ bc \in Analyses /\ cb \in Analyses
      /\ SameBut(bc, b) /\ SameBut(cb, c) /\ Idle(bc, q) /\ Idle(cb, p)
      /\ \A r \in Qubits : (r # q => SameAt(bc, b, r)) /\ (r # p => SameAt(cb, c, r))
  BY <1>1, ClearedIs DEF Cleared, Analyses, SameBut
<1> HIDE DEF bc, cb
<1>3. SameBut(bc, cb)
  BY <1>1, <1>2 DEF SameBut
<1>4. ASSUME NEW r \in Qubits PROVE SameAt(bc, cb, r)
  <2>1. CASE r # p /\ r # q
    BY <1>1, <1>2, <2>1 DEF SameAt
  <2>2. CASE r = q /\ r # p
    BY <1>1, <1>2, <2>2 DEF SameAt, Idle
  <2>3. CASE r = p /\ r # q
    BY <1>1, <1>2, <2>3 DEF SameAt, Idle
  <2>4. CASE r = p /\ r = q
    BY <1>2, <2>4 DEF SameAt, Idle
  <2> QED
    BY <2>1, <2>2, <2>3, <2>4
<1>5. bc = cb
  BY <1>2, <1>3, <1>4, SameAnalyses
<1> QED
  BY <1>5 DEF b, c, bc, cb

\* A chain from steps that may be taken in any order.
LEMMA ReorderedChain ==
  ASSUME NEW op, Len(op.on) \in Nat, NEW V \in SUBSET Live, NEW step,
         Stays(step, Len(op.on), V), Commutes(step, Len(op.on), V),
         \A i \in 1 .. Len(op.on) : \A y \in V : Undoes(op, op.on[i], y, step[i][y]),
         NEW a \in V, NEW v, Trace(v, Len(op.on), a, step)
  PROVE  \E c : Chain(c, op, a, v[Len(op.on)])
<1>1. PICK w : Backwards(w, Len(op.on), a, step, V, v[Len(op.on)])
  BY Reordered
<1>2. ASSUME NEW i \in 1 .. Len(op.on) PROVE Undoes(op, op.on[i], w[i], w[i - 1])
  BY <1>1 DEF Backwards
<1>3. Chain(w, op, a, v[Len(op.on)])
  BY <1>1, <1>2 DEF Backwards, Chain
<1> QED
  BY <1>3

\* Gates.
LEMMA GateChain ==
  ASSUME NEW op, Valid(op), op.name \in OneQubitGates, op.name \in Stepwise,
         NEW a \in Live, InOrder(a, op, op.on).outcome = "analyzing"
  PROVE  \E c : Chain(c, op, a, InOrder(a, op, op.on))
<1> DEFINE n == Len(op.on)
           step == [i \in 1 .. n |-> [y \in Live |-> UndoGate1(op.name, y, op.on[i])]]
<1>1. op.on \in Seq(Qubits) /\ n \in Nat /\ \A i \in 1 .. n : op.on[i] \in Qubits
  BY InstructionIs, GroupsAre
<1>2. ASSUME NEW y \in Live, NEW q \in Qubits
      PROVE  /\ Undoes(op, q, y, UndoGate1(op.name, y, q))
             /\ UndoTarget(y, op, q) = UndoGate1(op.name, y, q)
             /\ UndoGate1(op.name, y, q) \in Live
             /\ UndoGate1(op.name, y, q).measured = Left(y, op, 1)
  BY UndoTargetIs, GateUndoes DEF UndoingOf, Undoes, Left
<1>3. op.name \notin Recorders
  BY RecordersAre
<1>4. ASSUME NEW i \in 1 .. n PROVE Shrinks(op, op.on[i])
  BY <1>1, <1>2 DEF Shrinks
<1>5. PICK v : Course(v, a, op, op.on) /\ v[n] = InOrder(a, op, op.on)
  <2>1. Left(a, op, n) >= 0
    BY <1>3, LiveParts DEF Left
  <2> QED
    BY <1>1, <1>4, <2>1, UndoneInOrder
<1>6. ASSUME NEW i \in 1 .. n, NEW y \in Live
      PROVE  step[i][y] = UndoGate1(op.name, y, op.on[i]) /\ step[i][y] \in Live
  BY <1>1, <1>2
<1> HIDE DEF step, n
<1>7. Trace(v, n, a, step)
  <2>1. \A i \in 1 .. n : v[i] = UndoTarget(v[i - 1], op, op.on[i]) /\ v[i - 1] \in Live
    <3> SUFFICES ASSUME NEW i \in 1 .. n
                 PROVE  v[i] = UndoTarget(v[i - 1], op, op.on[i]) /\ v[i - 1] \in Live
      OBVIOUS
    <3>1. i - 1 \in 0 .. n
      BY <1>1
    <3> QED
      BY <1>5, <3>1 DEF Course, n
  <2> QED
    <3>1. v[0] = a
      BY <1>5 DEF Course
    <3>2. ASSUME NEW i \in 1 .. n PROVE v[i] = step[i][v[i - 1]]
      <4>1. op.on[i] \in Qubits /\ v[i - 1] \in Live /\ v[i] = UndoTarget(v[i - 1], op, op.on[i])
        BY <1>1, <2>1
      <4>2. v[i] = UndoGate1(op.name, v[i - 1], op.on[i])
        BY <1>2, <4>1
      <4>3. step[i][v[i - 1]] = UndoGate1(op.name, v[i - 1], op.on[i])
        BY <1>6, <4>1
      <4> QED
        BY <4>2, <4>3
    <3> QED
      BY <3>1, <3>2 DEF Trace
<1>8. Stays(step, n, Live)
  BY <1>6 DEF Stays
<1>9. Commutes(step, n, Live)
  <2> SUFFICES ASSUME NEW i \in 1 .. n, NEW j \in 1 .. n, NEW y \in Live
               PROVE  step[i][step[j][y]] = step[j][step[i][y]]
    BY DEF Commutes
  <2>1. y \in Analyses /\ op.on[i] \in Qubits /\ op.on[j] \in Qubits
    BY <1>1, LiveParts
  <2>2. /\ step[i][y] = UndoGate1(op.name, y, op.on[i]) /\ step[i][y] \in Live
        /\ step[j][y] = UndoGate1(op.name, y, op.on[j]) /\ step[j][y] \in Live
    BY <1>6
  <2>3. step[i][step[j][y]] = UndoGate1(op.name, UndoGate1(op.name, y, op.on[j]), op.on[i])
    BY <1>6, <2>2
  <2>4. step[j][step[i][y]] = UndoGate1(op.name, UndoGate1(op.name, y, op.on[i]), op.on[j])
    BY <1>6, <2>2
  <2> QED
    BY <2>1, <2>3, <2>4, GatesCommute
<1>10. \A i \in 1 .. n : \A y \in Live : Undoes(op, op.on[i], y, step[i][y])
  BY <1>1, <1>2, <1>6
<1>11. \E c : Chain(c, op, a, v[n])
  BY <1>1, <1>7, <1>8, <1>9, <1>10, ReorderedChain DEF n
<1> QED
  BY <1>5, <1>11

\* What a Pauli flips on a qubit is read off what is sensed there.
LEMMA SensitivityIsLocal ==
  ASSUME NEW a, NEW b, NEW q, NEW basis \in Bases
  PROVE  /\ SameAt(a, b, q) => Sensitivity(a, q, basis) = Sensitivity(b, q, basis)
         /\ Idle(a, q) => Sensitivity(a, q, basis) = {}
<1>1. basis \in {"X", "Y", "Z"}
  BY DEF Bases
<1>2. SymDiff({}, {}) = {}
  BY DEF SymDiff
<1>3. SameAt(a, b, q) => Sensitivity(a, q, basis) = Sensitivity(b, q, basis)
  BY <1>1 DEF SameAt, Sensitivity
<1>4. Idle(a, q) => Sensitivity(a, q, basis) = {}
  BY <1>1, <1>2 DEF Idle, Sensitivity
<1> QED
  BY <1>3, <1>4

\* A reset that the analyzer accepts.
LEMMA ResetTargetIs ==
  ASSUME NEW op, op.name \in Resets, NEW t \in Qubits, NEW a \in Live
  PROVE  /\ Cleared(a, t) \in Live /\ Cleared(a, t).measured = a.measured
         /\ UndoTarget(a, op, t).outcome = "analyzing" =>
              UndoTarget(a, op, t) = Cleared(a, t) /\ Sensitivity(a, t, Basis(op.name)) = {}
<1> DEFINE e == Ensured(a, t, Basis(op.name))
<1>1. UndoTarget(a, op, t) = Cleared(e, t)
  BY UndoTargetIs DEF UndoingOf
<1>2. e \in Analyses /\ (e.outcome = "analyzing" => e = a /\ Sensitivity(a, t, Basis(op.name)) = {})
  BY EnsuredIs
<1> HIDE DEF e
<1>3. Cleared(e, t).outcome = e.outcome
  BY <1>2, ClearedIs
<1>4. Cleared(a, t) \in Live /\ Cleared(a, t).measured = a.measured
  BY ClearedIs DEF Live
<1> QED
  BY <1>1, <1>2, <1>3, <1>4

\* What is sensed in the basis of the reset is sensed after other qubits have been cleared as well.
LEMMA ClearingsAre ==
  ASSUME NEW a \in Live, NEW basis \in Bases, NEW y \in Clearings(a, basis), NEW t \in Qubits
  PROVE  /\ Sensitivity(a, t, basis) = {} <=> Sensitivity(y, t, basis) = {}
         /\ Sensitivity(a, t, basis) = {} => Cleared(y, t) \in Clearings(a, basis)
<1>1. y \in Live /\ y \in Analyses
      /\ \A q \in Qubits : SameAt(y, a, q) \/ (Idle(y, q) /\ Sensitivity(a, q, basis) = {})
  BY LiveParts DEF Clearings
<1>2. Sensitivity(a, t, basis) = {} <=> Sensitivity(y, t, basis) = {}
  BY <1>1, SensitivityIsLocal
<1>3. ASSUME Sensitivity(a, t, basis) = {} PROVE Cleared(y, t) \in Clearings(a, basis)
  <2> DEFINE z == Cleared(y, t)
  <2>1. /\ z \in Analyses /\ z.measurement = y.measurement /\ z.measured = y.measured
        /\ z.outcome = y.outcome /\ Idle(z, t) /\ \A r \in Qubits \ {t} : SameAt(z, y, r)
    BY <1>1, ClearedIs
  <2> HIDE DEF z
  <2>2. z \in Live
    BY <1>1, <2>1 DEF Live
  <2>3. \A q \in Qubits : SameAt(z, a, q) \/ (Idle(z, q) /\ Sensitivity(a, q, basis) = {})
    BY <1>1, <1>3, <2>1 DEF SameAt, Idle
  <2> QED
    BY <2>2, <2>3 DEF Clearings, z
<1> QED
  BY <1>2, <1>3

\* Resets.
LEMMA ResetChain ==
  ASSUME NEW op, Valid(op), op.name \in Resets, op.name \in Stepwise,
         NEW a \in Live, InOrder(a, op, op.on).outcome = "analyzing"
  PROVE  \E c : Chain(c, op, a, InOrder(a, op, op.on))
<1> DEFINE n == Len(op.on)
           basis == Basis(op.name)
           V == Clearings(a, basis)
           step == [i \in 1 .. n |-> [y \in V |-> Cleared(y, op.on[i])]]
<1>1. op.on \in Seq(Qubits) /\ n \in Nat /\ \A i \in 1 .. n : op.on[i] \in Qubits
  BY InstructionIs, GroupsAre
<1>2. basis \in Bases /\ basis = Basis(op.name)
  BY DEF Basis, Bases
<1>3. op.name \notin Recorders
  BY RecordersAre
<1>4. ASSUME NEW i \in 1 .. n PROVE Shrinks(op, op.on[i])
  BY <1>1, <1>3, ResetTargetIs DEF Shrinks, Left
<1>5. PICK v : Course(v, a, op, op.on) /\ v[n] = InOrder(a, op, op.on)
  <2>1. Left(a, op, n) >= 0
    BY <1>3, LiveParts DEF Left
  <2> QED
    BY <1>1, <1>4, <2>1, UndoneInOrder
<1> HIDE DEF V, basis, n
<1>6. a \in V
  BY DEF V, Clearings, SameAt
<1>7. ASSUME NEW i \in 1 .. n
      PROVE  /\ v[i - 1] \in Live /\ v[i] = Cleared(v[i - 1], op.on[i])
             /\ Sensitivity(v[i - 1], op.on[i], basis) = {}
  <2>1. i - 1 \in 0 .. n /\ op.on[i] \in Qubits
    BY <1>1
  <2>2. v[i - 1] \in Live /\ v[i] = UndoTarget(v[i - 1], op, op.on[i]) /\ v[i].outcome = "analyzing"
    BY <1>5, <2>1 DEF Course, n
  <2> QED
    <3> DEFINE y == v[i - 1]
               t == op.on[i]
    <3>1. y \in Live /\ t \in Qubits /\ UndoTarget(y, op, t).outcome = "analyzing"
      BY <2>1, <2>2
    <3> HIDE DEF y, t
    <3>2. UndoTarget(y, op, t) = Cleared(y, t) /\ Sensitivity(y, t, Basis(op.name)) = {}
      BY <3>1, ResetTargetIs
    <3> QED
      BY <1>2, <2>2, <3>2 DEF y, t
<1>8. ASSUME NEW i \in 1 .. n, v[i - 1] \in V
      PROVE  v[i] \in V /\ Sensitivity(a, op.on[i], basis) = {}
  <2>1. op.on[i] \in Qubits
    BY <1>1
  <2>2. Sensitivity(a, op.on[i], basis) = {}
    BY <1>2, <1>7, <1>8, <2>1, ClearingsAre DEF V
  <2>3. Cleared(v[i - 1], op.on[i]) \in V
    BY <1>2, <1>8, <2>1, <2>2, ClearingsAre DEF V
  <2> QED
    BY <1>7, <2>2, <2>3
<1>9. \A i \in 0 .. n : v[i] \in V
  <2> DEFINE N == {k \in Nat : k <= n => v[k] \in V}
  <2>1. 0 \in N
    BY <1>5, <1>6 DEF Course
  <2>2. ASSUME NEW k \in Nat, k \in N PROVE k + 1 \in N
    <3> SUFFICES ASSUME k + 1 <= n PROVE v[k + 1] \in V
      OBVIOUS
    <3>1. k + 1 \in 1 .. n /\ (k + 1) - 1 = k /\ v[k] \in V
      BY <1>1, <2>2
    <3> QED
      BY <1>8, <3>1
  <2> HIDE DEF N
  <2>3. \A k \in Nat : k \in N
    BY <2>1, <2>2, NaturalInduction
  <2> QED
    BY <1>1, <2>3 DEF N
<1>10. ASSUME NEW i \in 1 .. n PROVE v[i - 1] \in V /\ Sensitivity(a, op.on[i], basis) = {}
  <2>1. i - 1 \in 0 .. n
    BY <1>1
  <2> QED
    BY <1>8, <1>9, <2>1
<1>11. ASSUME NEW i \in 1 .. n, NEW y \in V
       PROVE  /\ step[i][y] = Cleared(y, op.on[i]) /\ step[i][y] \in V
              /\ Undoes(op, op.on[i], y, step[i][y])
  <2>1. op.on[i] \in Qubits /\ y \in Live
    BY <1>1 DEF V, Clearings
  <2>2. step[i][y] = Cleared(y, op.on[i])
    OBVIOUS
  <2>3. Cleared(y, op.on[i]) \in V /\ Sensitivity(y, op.on[i], basis) = {}
    BY <1>2, <1>10, <2>1, ClearingsAre DEF V
  <2>4. Undoes(op, op.on[i], y, Cleared(y, op.on[i]))
    BY <1>2, <2>1, <2>3, ResetUndoes
  <2> HIDE DEF step
  <2> QED
    BY <2>2, <2>3, <2>4
<1> HIDE DEF step
<1>12. Trace(v, n, a, step)
  BY <1>5, <1>7, <1>10, <1>11 DEF Course, Trace
<1>13. Stays(step, n, V)
  BY <1>11 DEF Stays
<1>14. Commutes(step, n, V)
  <2> SUFFICES ASSUME NEW i \in 1 .. n, NEW j \in 1 .. n, NEW y \in V
               PROVE  step[i][step[j][y]] = step[j][step[i][y]]
    BY DEF Commutes
  <2>1. y \in Analyses /\ op.on[i] \in Qubits /\ op.on[j] \in Qubits
    BY <1>1, LiveParts DEF V, Clearings
  <2>2. /\ step[i][y] = Cleared(y, op.on[i]) /\ step[i][y] \in V
        /\ step[j][y] = Cleared(y, op.on[j]) /\ step[j][y] \in V
    BY <1>11
  <2>3. step[i][step[j][y]] = Cleared(Cleared(y, op.on[j]), op.on[i])
    BY <1>11, <2>2
  <2>4. step[j][step[i][y]] = Cleared(Cleared(y, op.on[i]), op.on[j])
    BY <1>11, <2>2
  <2> QED
    BY <2>1, <2>3, <2>4, ClearsCommute
<1>15. V \in SUBSET Live
  BY DEF V, Clearings
<1>16. \E c : Chain(c, op, a, v[n])
  BY <1>1, <1>6, <1>11, <1>12, <1>13, <1>14, <1>15, ReorderedChain DEF n
<1> QED
  BY <1>5, <1>16

\* Noise.
LEMMA NoiseChain ==
  ASSUME NEW op, Valid(op), op.name \in OneQubitNoise \cup TwoQubitNoise, op.name \in Stepwise,
         NEW a \in Live, InOrder(a, op, op.on).outcome = "analyzing"
  PROVE  \E c : Chain(c, op, a, InOrder(a, op, op.on))
<1> DEFINE n == Len(op.on)
           T == Groups(op.name)
<1>1. /\ op.on \in Seq(T) /\ n \in Nat /\ \A i \in 1 .. n : op.on[i] \in T
      /\ \/ op.name \in OneQubitNoise /\ T = Qubits
         \/ op.name \in TwoQubitNoise /\ T = Qubits \X Qubits
  BY InstructionIs, GroupsAre DEF Valid
<1>2. ASSUME NEW y \in Live, NEW t \in T
      PROVE  /\ UndoTarget(y, op, t) \in Live /\ Alike(UndoTarget(y, op, t), y)
             /\ UndoTarget(y, op, t).measured = y.measured
  <2>1. UndoingOf(y, op, t, UndoTarget(y, op, t))
    BY UndoTargetIs
  <2>2. UndoTarget(y, op, t) = IF op.arg > 0 THEN Emit(y, Channel(y, op, t)) ELSE y
    BY <2>1 DEF UndoingOf
  <2>3. Channel(y, op, t) \in SUBSET SUBSET Targets
    BY <1>1, ChannelIs, LiveParts
  <2>4. Emit(y, Channel(y, op, t)) \in Live /\ Alike(Emit(y, Channel(y, op, t)), y)
    BY <2>3, EmitIs
  <2>5. Alike(y, y)
    BY DEF Alike, SameAt
  <2> QED
    BY <2>2, <2>4, <2>5 DEF Alike
<1>3. op.name \notin Recorders
  BY RecordersAre
<1> HIDE DEF T, n
<1>4. ASSUME NEW i \in 1 .. n PROVE Shrinks(op, op.on[i])
  BY <1>1, <1>2, <1>3 DEF Shrinks, Left
<1>5. PICK v : Course(v, a, op, op.on) /\ v[n] = InOrder(a, op, op.on)
  <2>1. Left(a, op, Len(op.on)) >= 0 /\ \A i \in 1 .. Len(op.on) : Shrinks(op, op.on[i])
    BY <1>3, <1>4, LiveParts DEF Left, n
  <2>2. \E v : Course(v, a, op, op.on) /\ v[Len(op.on)] = InOrder(a, op, op.on)
    BY <1>1, <2>1, UndoneInOrder
  <2> QED
    BY <2>2 DEF n
<1>6. \A i \in 0 .. n : v[i] \in Live /\ Alike(v[i], a)
  <2> DEFINE N == {k \in Nat : k <= n => v[k] \in Live /\ Alike(v[k], a)}
  <2>1. 0 \in N
    BY <1>5 DEF Course, Alike, SameAt
  <2>2. ASSUME NEW k \in Nat, k \in N PROVE k + 1 \in N
    <3> SUFFICES ASSUME k + 1 <= n PROVE v[k + 1] \in Live /\ Alike(v[k + 1], a)
      OBVIOUS
    <3>1. k + 1 \in 1 .. n /\ (k + 1) - 1 = k /\ v[k] \in Live /\ Alike(v[k], a)
      BY <1>1, <2>2 DEF n
    <3>2. v[k + 1] = UndoTarget(v[k], op, op.on[k + 1]) /\ op.on[k + 1] \in T
      BY <1>1, <1>5, <3>1 DEF Course, n
    <3>3. v[k + 1] \in Live /\ Alike(v[k + 1], v[k])
      BY <1>2, <3>1, <3>2
    <3> QED
      BY <3>1, <3>3 DEF Alike, SameAt
  <2> HIDE DEF N
  <2>3. \A k \in Nat : k \in N
    BY <2>1, <2>2, NaturalInduction
  <2> QED
    BY <1>1, <2>3 DEF N, n
<1> DEFINE c == [i \in 0 .. n |-> IF i = 0 THEN v[n] ELSE a]
<1>7. Alike(a, a) /\ Alike(v[n], a) /\ v[n] \in Live
  BY <1>1, <1>6 DEF Alike, SameAt, n
<1>8. ASSUME NEW i \in 1 .. n PROVE Undoes(op, op.on[i], c[i], c[i - 1])
  <2>1. c[i] = a /\ c[i - 1] \in Live /\ Alike(c[i - 1], a)
    BY <1>1, <1>7 DEF n
  <2> HIDE DEF c
  <2> QED
    BY <2>1, NoiseUndoes
<1>9. c[n] = a /\ c[0] = v[n] /\ \A i \in 0 .. n : c[i] \in Live
  BY <1>1, <1>5, <1>7 DEF n, Course
<1> HIDE DEF c
<1>10. Chain(c, op, a, v[n])
  BY <1>8, <1>9 DEF Chain, n
<1> QED
  BY <1>5, <1>10

\* The one pair of a gate is a pair of qubits, and stays one.
LEMMA OnePair ==
  ASSUME NEW op, Valid(op), Reversible(op), op.name \in TwoQubitGates
  PROVE  op.on[1] \in DistinctPairs /\ QubitPairs(op.on) = op.on
<1> DEFINE t == op.on[1]
           Is(g) == g = [A \in SUBSET (1 .. 1) |->
                           IF A = {} THEN <<>>
                           ELSE LET x == Max(A)
                                IN g[A \ {x}] \o (IF Controlled(op.on[x]) THEN <<op.on[x][2]>> ELSE op.on[x])]
           it == CHOOSE g : Is(g)
           f == [A \in SUBSET (1 .. 1) |-> IF A = {} THEN <<>> ELSE <<t[1], t[2]>>]
           qubits == FoldLeft(LAMBDA qs, u : qs \o (IF Controlled(u) THEN <<u[2]>> ELSE u), <<>>, op.on)
<1>1. op.name \in InstructionNames /\ op.on \in Seq(Groups(op.name)) /\ Len(op.on) = 1
  BY InstructionIs DEF Valid, Reversible
<1>2. t \in Groups(op.name) /\ op.on = <<t>> /\ DOMAIN op.on = 1 .. 1
  BY <1>1
<1>3. t \in DistinctPairs
  BY <1>2, <1>1, GroupsAre DEF Reversible, HasFeedback, Controlled, Lookbacks
<1>4. /\ t[1] \in Qubits /\ t[2] \in Qubits /\ ~Controlled(t) /\ t = <<t[1], t[2]>>
  BY <1>3 DEF DistinctPairs, Qubits, Controlled
<1>5. qubits = it[1 .. 1]
  BY <1>2 DEF FoldLeft, MapThenFoldSet
<1>6. Is(f)
  <2>1. ASSUME NEW A \in SUBSET (1 .. 1), A # {}
        PROVE  A = {1} /\ Max(A) = 1 /\ A \ {Max(A)} = {}
    <3>1. A = {1}
      <4>1. \A i \in 1 .. 1 : i = 1
        OBVIOUS
      <4>2. \A i \in A : i = 1
        BY <4>1
      <4> QED
        BY <2>1, <4>2
    <3>2. Max(A) \in A
      BY <2>1, LastPlace
    <3> QED
      BY <3>1, <3>2
  <2>2. <<>> \o t = <<t[1], t[2]>>
    BY <1>4
  <2>3. f[{}] = <<>>
    OBVIOUS
  <2>4. ASSUME NEW A \in SUBSET (1 .. 1)
        PROVE  f[A] = IF A = {} THEN <<>>
                      ELSE f[A \ {Max(A)}] \o
                             (IF Controlled(op.on[Max(A)]) THEN <<op.on[Max(A)][2]>> ELSE op.on[Max(A)])
    <3>1. CASE A = {}
      BY <3>1
    <3>2. CASE A # {}
      <4>1. Max(A) = 1 /\ A \ {Max(A)} = {}
        BY <2>1, <3>2
      <4>2. f[A] = <<t[1], t[2]>>
        BY <3>2
      <4> HIDE DEF f
      <4> QED
        BY <1>4, <2>2, <2>3, <3>2, <4>1, <4>2
    <3> QED
      BY <3>1, <3>2
  <2>5. f = [A \in SUBSET (1 .. 1) |-> f[A]]
    OBVIOUS
  <2> HIDE DEF f
  <2> QED
    BY <2>4, <2>5
<1>7. Is(it)
  <2> HIDE DEF Is, f
  <2> QED
    BY <1>6
<1> HIDE DEF it
<1>8. GoesOnAs(f, it, 1)
  <2> HIDE DEF f
  <2> QED
    BY <1>6, <1>7 DEF GoesOnAs
<1>9. it[1 .. 1] = f[1 .. 1]
  <2> HIDE DEF f
  <2>1. 1 \in Nat
    OBVIOUS
  <2> QED
    BY <1>8, <2>1, FoldLeftUnique
<1>10. qubits = <<t[1], t[2]>>
  <2>1. 1 .. 1 # {}
    OBVIOUS
  <2>2. f[1 .. 1] = <<t[1], t[2]>>
    BY <2>1
  <2> QED
    BY <1>5, <1>9, <2>2
<1>11. QubitPairs(op.on) = [i \in 1 .. Len(qubits) \div 2 |-> <<qubits[2 * i - 1], qubits[2 * i]>>]
  BY DEF QubitPairs
<1> HIDE DEF qubits
<1>12. QubitPairs(op.on) = op.on
  BY <1>10, <1>11, <1>4, <1>2
<1> QED
  BY <1>3, <1>12

\* One group.
LEMMA OneGroupChain ==
  ASSUME NEW op, Len(op.on) = 1, NEW T, op.on \in Seq(T), NEW a \in Live, Left(a, op, 1) >= 0,
         \A b \in Live : Left(b, op, 1) >= 0 => Undoes(op, op.on[1], b, UndoTarget(b, op, op.on[1])),
         InOrder(a, op, op.on).outcome = "analyzing"
  PROVE  \E c : Chain(c, op, a, InOrder(a, op, op.on))
<1>1. \A i \in 1 .. Len(op.on) : Shrinks(op, op.on[i])
  <2> SUFFICES ASSUME NEW i \in 1 .. 1 PROVE Shrinks(op, op.on[i])
    OBVIOUS
  <2>1. i = 1
    OBVIOUS
  <2>2. Shrinks(op, op.on[1])
    BY DEF Shrinks, Undoes, Left
  <2> QED
    BY <2>1, <2>2
<1>2. PICK v : Course(v, a, op, op.on) /\ v[1] = InOrder(a, op, op.on)
  <2>1. Left(a, op, Len(op.on)) >= 0
    OBVIOUS
  <2>2. \E v : Course(v, a, op, op.on) /\ v[Len(op.on)] = InOrder(a, op, op.on)
    BY <1>1, <2>1, UndoneInOrder
  <2> QED
    BY <2>2
<1>3. v[1] = UndoTarget(a, op, op.on[1]) /\ v[1] \in Live
  BY <1>2 DEF Course
<1> DEFINE c == [i \in 0 .. 1 |-> IF i = 0 THEN v[1] ELSE a]
<1>4. /\ c[1] = a /\ c[0] = v[1] /\ \A i \in 0 .. 1 : c[i] \in Live
      /\ \A i \in 1 .. 1 : i = 1 /\ i - 1 = 0
  BY <1>3
<1> HIDE DEF c
<1>5. \A i \in 1 .. 1 : Undoes(op, op.on[i], c[i], c[i - 1])
  BY <1>3, <1>4
<1>6. Chain(c, op, a, v[1])
  BY <1>4, <1>5 DEF Chain
<1> QED
  BY <1>2, <1>6

\* How an instruction with groups is undone.
LEMMA UndoOpIs ==
  ASSUME NEW op, op.name \in Stepwise, NEW a \in Live, UndoOp(a, op).outcome = "analyzing"
  PROVE  UndoOp(a, op) = InOrder(a, op, Order(op))
<1> DEFINE order == CASE op.name \in LastFirst -> Reverse(op.on)
                      [] op.name \in TwoQubitGates -> QubitPairs(op.on)
                      [] OTHER -> op.on
           undone == FoldLeft(LAMBDA b, t : IF b.outcome = "analyzing" THEN UndoTarget(b, op, t) ELSE b,
                              a, order)
<1>1. op.name \notin {"DETECTOR", "OBSERVABLE_INCLUDE", "TICK", "E"}
  BY DEF Stepwise, CorrelatedNoise, Annotations
<1>2. [a EXCEPT !.outcome = "unsupported"].outcome # "analyzing"
  BY LiveParts DEF Analyses
<1>3. ~(op.name = "PAULI_CHANNEL_2" /\ op.arg > 0)
  <2> SUFFICES ASSUME op.name = "PAULI_CHANNEL_2" /\ op.arg > 0 PROVE FALSE
    OBVIOUS
  <2>1. UndoOp(a, op) = [a EXCEPT !.outcome = "unsupported"]
    <3> HIDE DEF undone
    <3> QED
      BY <1>1 DEF UndoOp
  <2> QED
    BY <1>2, <2>1
<1>4. UndoOp(a, op) = undone
  BY <1>1, <1>3 DEF UndoOp
<1>5. order = Order(op)
  BY DEF Order
<1> QED
  BY <1>4, <1>5 DEF InOrder

\* An instruction with groups, undone.
LEMMA OpChain ==
  ASSUME NEW op, Valid(op), Reversible(op), op.name \in Stepwise,
         NEW a \in Live, Left(a, op, Len(op.on)) >= 0, UndoOp(a, op).outcome = "analyzing"
  PROVE  \E c : Chain(c, op, a, UndoOp(a, op))
<1>1. UndoOp(a, op) = InOrder(a, op, Order(op)) /\ InOrder(a, op, Order(op)).outcome = "analyzing"
  BY UndoOpIs
<1>2. op.name \in InstructionNames /\ op.on \in Seq(Groups(op.name))
  BY InstructionIs
<1>3. CASE op.name \in LastFirst
  BY <1>3, KindsApart, <1>1, LastFirstChain DEF LastFirst, Order
<1>4. CASE op.name \in OneQubitGates \cup Resets \cup OneQubitNoise \cup TwoQubitNoise
  BY <1>4, KindsApart, <1>1, GateChain, ResetChain, NoiseChain DEF LastFirst, Order
<1>5. CASE op.name \in TwoQubitGates
  <2>1. op.name \notin LastFirst
    BY <1>5, KindsApart DEF LastFirst
  <2>2. op.on[1] \in DistinctPairs /\ Order(op) = op.on /\ Len(op.on) = 1
    BY <1>5, <2>1, OnePair DEF Order, Reversible
  <2>3. ASSUME NEW b \in Live PROVE Undoes(op, op.on[1], b, UndoTarget(b, op, op.on[1]))
    BY UndoTargetIs, <1>5, <2>2, PairGateUndoes DEF UndoingOf, Reversible
  <2> QED
    BY <1>1, <1>2, <2>2, <2>3, OneGroupChain
<1>6. CASE op.name \in PairMeasurements
  <2>1. op.name \notin LastFirst /\ op.name \notin TwoQubitGates /\ op.name \in Recorders
    BY <1>6, KindsApart DEF LastFirst, Recorders
  <2>2. Order(op) = op.on /\ Len(op.on) = 1
    BY <1>6, <2>1 DEF Order, Reversible
  <2>3. op.on[1] \in DistinctPairs
    <3>1. Groups(op.name) = DistinctPairs
      BY <1>2, <1>6, GroupsAre
    <3> HIDE DEF DistinctPairs
    <3> QED
      BY <1>2, <2>2, <3>1
  <2>4. ASSUME NEW b \in Live, Left(b, op, 1) >= 0
        PROVE  Undoes(op, op.on[1], b, UndoTarget(b, op, op.on[1]))
    BY <2>1, <2>4, LiveParts, <1>6, <2>3, ProductUndoes DEF Left
  <2> QED
    BY <1>1, <1>2, <2>2, <2>4, OneGroupChain
<1> QED
  BY <1>3, <1>4, <1>5, <1>6, Kinds DEF LastFirst

(***************************************************************************)
(* An instruction, forwards.                                               *)
(***************************************************************************)

\* There are analyses.
LEMMA SomeAnalysis == \E a \in Analyses : TRUE
<1>1. [x |-> [r \in Qubits |-> {}], z |-> [r \in Qubits |-> {}], measurement |-> <<>>,
       measured |-> 0, detector |-> 0, errors |-> {}, outcome |-> "analyzing"] \in Analyses
  BY DEF Analyses
<1> QED
  BY <1>1

\* Another frame, and another result, make a state of the simulator.
LEMMA SimsGoOn ==
  ASSUME NEW s \in Sims, NEW g \in Frames, NEW e \in BOOLEAN
  PROVE  Framed(s, g) \in Sims /\ Recording(s, g, e) \in Sims
<1>1. s.flips \in Seq(BOOLEAN)
  BY DEF Sims
<1>2. Append(s.flips, e) \in Seq(BOOLEAN)
  BY <1>1
<1> DEFINE flips == s.flips
           bits == Seq(BOOLEAN)
           named == Seq(Nat \X BOOLEAN)
<1>3. s \in [frame : Frames, flips : bits, detectors : bits, observables : named, corr : BOOLEAN]
  BY DEF Sims
<1>4. flips \in bits /\ Append(flips, e) \in bits
  BY <1>1, <1>2
<1>5. Framed(s, g) \in [frame : Frames, flips : bits, detectors : bits, observables : named, corr : BOOLEAN]
  <2> HIDE DEF bits, named
  <2> QED
    BY <1>3 DEF Framed
<1>6. Recording(s, g, e) \in [frame : Frames, flips : bits, detectors : bits, observables : named, corr : BOOLEAN]
  <2> HIDE DEF bits, named
  <2> QED
    BY <1>3, <1>4 DEF Recording, flips
<1> QED
  BY <1>5, <1>6 DEF Sims

\* Whether a frame flips a measurement.
LEMMA BasisFlips ==
  ASSUME NEW f \in Frames, NEW q, NEW name
  PROVE  Basis(name) \in Bases /\ Flips(f, q, Basis(name)) \in BOOLEAN
<1>1. Basis(name) \in {"X", "Y", "Z"}
  BY DEF Basis
<1>2. Flips(f, q, "X") \in BOOLEAN /\ Flips(f, q, "Y") \in BOOLEAN /\ Flips(f, q, "Z") \in BOOLEAN
  BY DEF Flips
<1> QED
  BY <1>1, <1>2 DEF Bases

\* A product measured.
LEMMA ProductGoesOn ==
  ASSUME NEW s \in Sims, NEW product \in PauliProducts
  PROVE  ProductLeads(s, product) \in SUBSET Sims
<1> DEFINE f == FoldFrame(s.frame, product)
           q == Anchor(product)
           e == Flips(f, q, "Z")
<1>1. s.frame \in Frames
  BY DEF Sims
<1>2. f \in Frames /\ q \in Qubits
  <2>1. PICK a \in Analyses : TRUE
    BY SomeAnalysis
  <2> QED
    BY <1>1, <2>1, ProductsMirror, ProductPlaces
<1>3. e \in BOOLEAN
  BY DEF Flips
<1> HIDE DEF e, f, q
<1>4. ASSUME NEW g \in Collapsed(f, q, "Z") PROVE Recording(s, UnfoldFrame(g, product), e) \in Sims
  <2>1. g \in Frames
    BY <1>2, CollapsedAre DEF Bases
  <2>2. UnfoldFrame(g, product) \in Frames
    <3>1. PICK a \in Analyses : TRUE
      BY SomeAnalysis
    <3> QED
      BY <2>1, <3>1, ProductsMirror
  <2> QED
    BY <1>3, <2>2, SimsGoOn
<1> QED
  BY <1>4 DEF ProductLeads, e, f, q

\* A group of an instruction without noise makes states of a state.
LEMMA TargetGoesOn ==
  ASSUME NEW s \in Sims, NEW op, Valid(op), Reversible(op), op.name \in Stepwise,
         NEW t \in Groups(op.name), op.name \in TwoQubitGates => t \in DistinctPairs
  PROVE  FrameTarget(s, Quiet(op), t) \in SUBSET Sims
<1> DEFINE f == s.frame
           after == FrameTarget(s, Quiet(op), t)
           name == op.name
           basis == Basis(name)
<1>1. f \in Frames /\ Leads(s, name, t, after) /\ name \in InstructionNames
  BY QuietTargetIs, InstructionIs DEF Sims
<1>2. basis \in Bases /\ Flips(f, t, basis) \in BOOLEAN
  BY <1>1, BasisFlips
<1>3. PICK a \in Analyses : TRUE
  BY SomeAnalysis
<1> HIDE DEF after
<1>4. CASE name \in OneQubitGates
  <2>1. t \in Qubits
    BY <1>1, <1>4, GroupsAre
  <2>2. FrameGate1(name, f, t) \in Frames
    BY <1>1, <1>4, <1>3, <2>1, GateChanges
  <2>3. after = {Framed(s, FrameGate1(name, f, t))}
    BY <1>1, <1>4 DEF Leads
  <2> QED
    BY <2>2, <2>3, SimsGoOn DEF after
<1>5. CASE name \in TwoQubitGates
  <2>1. t[1] \in Qubits /\ t[2] \in Qubits
    BY <1>5 DEF DistinctPairs
  <2>2. FrameGate2(name, f, t[1], t[2]) \in Frames
    BY <1>1, <1>5, <1>3, <2>1, PairGateChanges
  <2>3. after = {Framed(s, FrameGate2(name, f, t[1], t[2]))}
    BY <1>1, <1>5 DEF Leads
  <2> QED
    BY <2>2, <2>3, SimsGoOn DEF after
<1>6. CASE name \in Measurements \cup MeasureResets
  BY <1>1, <1>6, GroupsAre, <1>2, CollapsedAre, SimsGoOn DEF Leads, after
<1>7. CASE name \in Resets
  BY <1>1, <1>7, GroupsAre, <1>2, CollapsedAre, SimsGoOn DEF Leads, after
<1>8. CASE name \in PairMeasurements
  <2>1. t \in DistinctPairs
    BY <1>1, <1>8, GroupsAre
  <2>2. PairProduct(name, t) \in PauliProducts
    BY <1>8, KindsApart, <2>1, ProductOfGroup DEF ProductOf
  <2>3. after = ProductLeads(s, PairProduct(name, t))
    BY <1>1, <1>8 DEF Leads
  <2> QED
    BY <2>2, <2>3, ProductGoesOn DEF after
<1>9. CASE name = "MPP"
  BY <1>1, <1>9, GroupsAre, ProductGoesOn DEF Leads, after
<1>10. CASE name \in {"SPP", "SPP_DAG"}
  <2>1. t \in PauliProducts
    BY <1>1, <1>10, GroupsAre
  <2> DEFINE g == FoldFrame(f, t)
             h == do_s(g, Last(t)[1])
             u == UnfoldFrame(h, t)
  <2>2. after = {Framed(s, u)}
    BY <1>1, <1>10 DEF Leads
  <2>3. g \in Frames
    BY <1>1, <1>3, <2>1, ProductsMirror
  <2>4. Last(t)[1] \in Qubits
    BY <2>1, ProductParts
  <2>5. h \in Frames
    <3> HIDE DEF g
    <3> QED
      BY <2>3, <2>4, FrameTypes
  <2>6. u \in Frames
    <3> HIDE DEF h
    <3> QED
      BY <1>3, <2>1, <2>5, ProductsMirror
  <2> HIDE DEF u
  <2> QED
    BY <2>2, <2>6, SimsGoOn DEF after
<1>11. CASE name = "MPAD"
  <2>1. after = {[s EXCEPT !.flips = Append(@, FALSE)]}
    BY <1>1, <1>11 DEF Leads
  <2>2. [s EXCEPT !.flips = Append(@, FALSE)] = Recording(s, f, FALSE)
    BY DEF Recording, Sims
  <2>3. Recording(s, f, FALSE) \in Sims
    <3>1. FALSE \in BOOLEAN
      OBVIOUS
    <3> HIDE DEF f
    <3> QED
      BY <1>1, <3>1, SimsGoOn
  <2> QED
    BY <2>1, <2>2, <2>3 DEF after
<1>12. CASE name \in OneQubitNoise
  <2>1. after = {Framed(s, f)}
    BY <1>1, <1>12, NoPauli DEF Leads
  <2> QED
    BY <1>1, <2>1, SimsGoOn DEF after
<1>13. CASE name \in TwoQubitNoise
  <2>1. after = {Framed(s, f)}
    BY <1>1, <1>13, NoPauli DEF Leads
  <2> QED
    BY <1>1, <2>1, SimsGoOn DEF after
<1>14. CASE name \in Heralded
  <2>1. after = {Recording(s, f, FALSE)}
    BY <1>1, <1>14, NoPauli DEF Leads
  <2> QED
    BY <1>1, <2>1, SimsGoOn DEF after
<1> QED
  <2> HIDE DEF name
  <2>1. name \in Stepwise
    BY DEF name
  <2> QED
    BY <1>4, <1>5, <1>6, <1>7, <1>8, <1>9, <1>10, <1>11, <1>12, <1>13, <1>14, <2>1, Kinds DEF after

\* The groups of a valid instruction that is undone in reverse.
LEMMA GroupsOf ==
  ASSUME NEW op, Valid(op), Reversible(op), op.name \in Stepwise, NEW i \in 1 .. Len(op.on)
  PROVE  op.on[i] \in Groups(op.name) /\ (op.name \in TwoQubitGates => op.on[i] \in DistinctPairs)
<1>1. op.name \in InstructionNames /\ op.on \in Seq(Groups(op.name))
  BY InstructionIs
<1>2. op.on[i] \in Groups(op.name)
  BY <1>1
<1>3. ASSUME op.name \in TwoQubitGates PROVE op.on[i] \in DistinctPairs
  BY <1>3, OnePair DEF Reversible
<1> QED
  BY <1>2, <1>3

\* An instruction is a walk through its groups.
LEMMA OpWalks ==
  ASSUME NEW op, Valid(op), Reversible(op), op.name \in Stepwise, NEW s \in Sims, NEW zeros
  PROVE  \E v : /\ Walk(v, Len(op.on), Moves(op), s)
                /\ v[Len(op.on)] = FrameOp(s, Quiet(op), zeros)
                /\ \A k \in 0 .. Len(op.on) : v[k] \in SUBSET Sims
<1> DEFINE n == Len(op.on)
           U == SUBSET Sims
           V == [A \in SUBSET (1 .. n) |-> U]
           step == [k \in 1 .. n |-> [y \in U |-> AllGoOn(y, op, op.on[k])]]
           Is(g) == g = [A \in SUBSET (1 .. n) |->
                           IF A = {} THEN {s}
                           ELSE LET x == Max(A)
                                IN UNION {FrameTarget(a, Quiet(op), op.on[x]) : a \in g[A \ {x}]}]
           it == CHOOSE g : Is(g)
<1>1. n \in Nat /\ DOMAIN op.on = 1 .. n
  BY InstructionIs
<1>2. \A i \in 1 .. n : \A y \in U : AllGoOn(y, op, op.on[i]) \in U
  <2> SUFFICES ASSUME NEW i \in 1 .. n, NEW y \in U PROVE AllGoOn(y, op, op.on[i]) \in U
    OBVIOUS
  <2>1. \A a \in y : FrameTarget(a, Quiet(op), op.on[i]) \in SUBSET Sims
    BY GroupsOf, TargetGoesOn
  <2> QED
    BY <2>1 DEF AllGoOn
<1>3. \A i \in 1 .. n : \A y \in U : step[i][y] = AllGoOn(y, op, op.on[i]) /\ step[i][y] \in U
  BY <1>2
<1>4. FrameOp(s, Quiet(op), zeros) = it[1 .. n]
  <2>1. /\ op.name \notin CorrelatedNoise
        /\ op.name \notin {"DETECTOR", "OBSERVABLE_INCLUDE", "TICK"}
    BY DEF Stepwise, Annotations
  <2>2. Quiet(op).name = op.name /\ Quiet(op).on = op.on
    BY QuietIs
  <2> DEFINE quiet == Quiet(op)
  <2>3. /\ quiet.name \notin CorrelatedNoise
        /\ quiet.name # "DETECTOR" /\ quiet.name # "OBSERVABLE_INCLUDE" /\ quiet.name # "TICK"
    BY <2>1, <2>2
  <2> HIDE DEF quiet
  <2>4. FrameOp(s, quiet, zeros)
          = FoldLeft(LAMBDA sims, t : UNION {FrameTarget(a, quiet, t) : a \in sims}, {s}, quiet.on)
    BY <2>3 DEF FrameOp
  <2>5. quiet.on = op.on
    BY <2>2 DEF quiet
  <2>6. FrameOp(s, quiet, zeros)
          = FoldLeft(LAMBDA sims, t : UNION {FrameTarget(a, quiet, t) : a \in sims}, {s}, op.on)
    BY <2>4, <2>5
  <2> QED
    BY <1>1, <2>6 DEF FoldLeft, MapThenFoldSet, quiet
<1>5. {s} \in V[{}] /\ \A A \in SUBSET (1 .. n) : V[A] = U
  BY <1>1
<1>6. ASSUME NEW A \in SUBSET (1 .. n), A # {}
      PROVE  \A y \in V[A \ {Max(A)}] : step[Max(A)][y] \in V[A]
  <2>1. Max(A) \in 1 .. n
    BY <1>1, <1>6, LastPlace
  <2> HIDE DEF step, U, V
  <2> QED
    BY <1>3, <1>5, <2>1
<1> HIDE DEF n, step, U, V
<1>7. PICK f, v : FoldTrace(f, v, n, V, {s}, step)
  BY <1>1, <1>5, <1>6, FoldsFromLeft
<1>8. \A A \in SUBSET (1 .. n) :
        f[A] = IF A = {} THEN {s} ELSE AllGoOn(f[A \ {Max(A)}], op, op.on[Max(A)])
  <2> SUFFICES ASSUME NEW A \in SUBSET (1 .. n)
               PROVE  f[A] = IF A = {} THEN {s} ELSE AllGoOn(f[A \ {Max(A)}], op, op.on[Max(A)])
    OBVIOUS
  <2>1. CASE A = {}
    BY <1>7, <2>1 DEF FoldTrace
  <2>2. CASE A # {}
    <3> DEFINE B == A \ {Max(A)}
    <3>1. Max(A) \in 1 .. n /\ B \in SUBSET (1 .. n)
      BY <1>1, <2>2, LastPlace
    <3>2. f[A] = step[Max(A)][f[B]] /\ f[B] \in U
      BY <1>5, <1>7, <2>2, <3>1 DEF FoldTrace
    <3> HIDE DEF B
    <3>3. f[A] = AllGoOn(f[B], op, op.on[Max(A)])
      BY <1>3, <3>1, <3>2
    <3> QED
      BY <2>2, <3>3 DEF B
  <2> QED
    BY <2>1, <2>2
<1>9. Is(f)
  BY <1>7, <1>8 DEF FoldTrace, AllGoOn
<1>10. Is(it)
  <2> HIDE DEF Is
  <2> QED
    BY <1>9
<1> HIDE DEF it
<1>11. GoesOnAs(f, it, n)
  BY <1>10, <1>8 DEF AllGoOn, GoesOnAs
<1>12. FrameOp(s, Quiet(op), zeros) = v[n]
  BY <1>4, <1>7, <1>11 DEF FoldTrace
<1>13. \A i \in 0 .. n : v[i] \in U
  BY <1>1, <1>5, <1>7 DEF FoldTrace
<1>14. Walk(v, n, Moves(op), s)
  <2>1. v[0] = {s}
    BY <1>7 DEF FoldTrace, Trace
  <2>2. ASSUME NEW k \in 1 .. n PROVE v[k] = UNION {Moves(op)[k][t] : t \in v[k - 1]}
    <3>1. k - 1 \in 0 .. n
      BY <1>1
    <3>2. v[k] = step[k][v[k - 1]] /\ v[k - 1] \in U
      BY <1>7, <1>13, <3>1 DEF FoldTrace, Trace
    <3>3. v[k] = AllGoOn(v[k - 1], op, op.on[k])
      BY <1>3, <3>2
    <3>4. \A t \in v[k - 1] : Moves(op)[k][t] = FrameTarget(t, Quiet(op), op.on[k])
      BY <3>2 DEF Moves, U, n
    <3> QED
      BY <3>3, <3>4 DEF AllGoOn
  <2> QED
    BY <2>1, <2>2 DEF Walk
<1> QED
  BY <1>12, <1>13, <1>14 DEF n, U

(***************************************************************************)
(* The qubits that are lost on the way.                                    *)
(***************************************************************************)

\* Only qubits are lost, and none by what measures nothing.
LEMMA LostQubits ==
  ASSUME NEW op, Valid(op), NEW t \in Groups(op.name)
  PROVE  /\ QubitsLost(op, t) \in SUBSET Qubits
         /\ op.name \in {"R", "RX"} \cup CorrelatedNoise \cup Annotations => QubitsLost(op, t) = {}
         /\ op.name \in CorrelatedNoise \cup Annotations => QubitsUsed(op, t) = {}
<1> DEFINE name == op.name
<1>1. name \in InstructionNames
  BY InstructionIs
<1>2. CASE name \in Measurements \cup {"RY", "MRY"}
  BY <1>2, <1>1, GroupsAre, UsedAndLost DEF MeasureResets, Resets, Measurements, CorrelatedNoise,
     Annotations
<1>3. CASE name \in PairMeasurements
  BY <1>1, <1>3, GroupsAre, UsedAndLost DEF PairMeasurements, CorrelatedNoise, Annotations,
     DistinctPairs
<1>4. CASE name = "MPP"
  BY <1>1, <1>4, GroupsAre, UsedAndLost, ProductPlaces DEF CorrelatedNoise, Annotations
<1>5. CASE name \notin Measurements \cup {"RY", "MRY"} \cup PairMeasurements \cup {"MPP"}
  BY <1>5 DEF QubitsLost, QubitsUsed, CorrelatedNoise, Annotations, OneQubitGates, TwoQubitGates,
     Measurements, MeasureResets, Resets, PairMeasurements
<1>6. name \in CorrelatedNoise \cup Annotations =>
        name \notin Measurements \cup {"RY", "MRY"} \cup PairMeasurements \cup {"MPP"}
  BY DEF CorrelatedNoise, Annotations, Measurements, PairMeasurements
<1> QED
  BY <1>2, <1>3, <1>4, <1>5, <1>6

\* A group changes losses to losses, and once something was not kept it is not.
LEMMA LossStepIs ==
  ASSUME NEW op, Valid(op), NEW t \in Groups(op.name), NEW acc \in Losses
  PROVE  /\ LossStep(acc, op, t) \in Losses
         /\ LossStep(acc, op, t).kept => acc.kept
         /\ op.name \in {"R", "RX"} => LossStep(acc, op, t).lost = acc.lost \ {t}
         /\ op.name \notin {"R", "RX"} /\ LossStep(acc, op, t).kept =>
              /\ LossStep(acc, op, t).lost = acc.lost \cup QubitsLost(op, t)
              /\ QubitsUsed(op, t) \cap acc.lost = {}
         /\ op.name \in CorrelatedNoise \cup Annotations => LossStep(acc, op, t) = acc
<1> DEFINE new == LossStep(acc, op, t)
           L == QubitsLost(op, t)
<1>1. acc.lost \in SUBSET Qubits /\ acc.kept \in BOOLEAN
  BY DEF Losses
<1>2. CASE op.name \in {"R", "RX"}
  <2>1. new = [acc EXCEPT !.lost = acc.lost \ {t}]
    BY <1>2 DEF LossStep
  <2>2. new.lost = acc.lost \ {t} /\ new.kept = acc.kept /\ new \in Losses
    BY <1>1, <2>1 DEF Losses
  <2>3. op.name \notin CorrelatedNoise \cup Annotations
    BY <1>2 DEF CorrelatedNoise, Annotations
  <2> HIDE DEF new
  <2> QED
    BY <1>2, <2>2, <2>3 DEF new
<1>3. CASE op.name \notin {"R", "RX"}
  <2> DEFINE U == QubitsUsed(op, t)
             apart == U \cap acc.lost = {}
             all == acc.kept /\ apart
  <2>1. L \in SUBSET Qubits
    BY LostQubits
  <2>2. new = [lost |-> acc.lost \cup L, kept |-> acc.kept /\ U \cap acc.lost = {}]
    BY <1>3 DEF LossStep
  <2>3. op.name \in CorrelatedNoise \cup Annotations => U = {} /\ L = {}
    BY LostQubits
  <2> HIDE DEF new, U, L
  <2>4. all \in BOOLEAN
    OBVIOUS
  <2>5. new.lost = acc.lost \cup L /\ new.kept = all
    BY <2>2
  <2>6. new \in Losses
    <3> HIDE DEF all
    <3>1. acc.lost \cup L \in SUBSET Qubits
      BY <1>1, <2>1
    <3>2. new = [lost |-> acc.lost \cup L, kept |-> all]
      BY <2>2 DEF all
    <3> QED
      BY <2>4, <3>1, <3>2 DEF Losses
  <2>7. ASSUME op.name \in CorrelatedNoise \cup Annotations PROVE new = acc
    BY <1>1, <2>3, <2>5, <2>7, <2>6 DEF Losses
  <2> QED
    BY <1>3, <2>5, <2>6, <2>7 DEF new, U, L
<1> QED
  BY <1>2, <1>3

\* The losses of an instruction are gathered group by group.
LEMMA LossTraces ==
  ASSUME NEW op, Valid(op), NEW acc \in Losses
  PROVE  \E u : LossTrace(u, acc, op)
<1> DEFINE n == Len(op.on)
           U == Losses
           V == [A \in SUBSET (1 .. n) |-> U]
           step == [k \in 1 .. n |-> [y \in U |-> LossStep(y, op, op.on[k])]]
           Is(g) == g = [A \in SUBSET (1 .. n) |->
                           IF A = {} THEN acc
                           ELSE LET x == Max(A) IN LossStep(g[A \ {x}], op, op.on[x])]
           it == CHOOSE g : Is(g)
<1>1. n \in Nat /\ DOMAIN op.on = 1 .. n /\ \A i \in 1 .. n : op.on[i] \in Groups(op.name)
  BY InstructionIs
<1>2. \A i \in 1 .. n : \A y \in U : LossStep(y, op, op.on[i]) \in U
  BY <1>1, LossStepIs
<1>3. \A i \in 1 .. n : \A y \in U : step[i][y] = LossStep(y, op, op.on[i]) /\ step[i][y] \in U
  BY <1>2
<1>4. LossOp(acc, op) = it[1 .. n]
  BY <1>1 DEF LossOp, FoldLeft, MapThenFoldSet
<1>5. acc \in V[{}] /\ \A A \in SUBSET (1 .. n) : V[A] = U
  BY <1>1
<1>6. ASSUME NEW A \in SUBSET (1 .. n), A # {}
      PROVE  \A y \in V[A \ {Max(A)}] : step[Max(A)][y] \in V[A]
  <2>1. Max(A) \in 1 .. n
    BY <1>1, <1>6, LastPlace
  <2> HIDE DEF step, U, V
  <2> QED
    BY <1>3, <1>5, <2>1
<1> HIDE DEF n, step, U, V
<1>7. PICK f, v : FoldTrace(f, v, n, V, acc, step)
  BY <1>1, <1>5, <1>6, FoldsFromLeft
<1>8. \A A \in SUBSET (1 .. n) :
        f[A] = IF A = {} THEN acc ELSE LossStep(f[A \ {Max(A)}], op, op.on[Max(A)])
  <2> SUFFICES ASSUME NEW A \in SUBSET (1 .. n)
               PROVE  f[A] = IF A = {} THEN acc ELSE LossStep(f[A \ {Max(A)}], op, op.on[Max(A)])
    OBVIOUS
  <2>1. CASE A = {}
    BY <1>7, <2>1 DEF FoldTrace
  <2>2. CASE A # {}
    <3> DEFINE B == A \ {Max(A)}
    <3>1. Max(A) \in 1 .. n /\ B \in SUBSET (1 .. n)
      BY <1>1, <2>2, LastPlace
    <3>2. f[A] = step[Max(A)][f[B]] /\ f[B] \in U
      BY <1>5, <1>7, <2>2, <3>1 DEF FoldTrace
    <3> HIDE DEF B
    <3>3. f[A] = LossStep(f[B], op, op.on[Max(A)])
      BY <1>3, <3>1, <3>2
    <3> QED
      BY <2>2, <3>3 DEF B
  <2> QED
    BY <2>1, <2>2
<1>9. Is(f)
  <2>1. f = [A \in SUBSET (1 .. n) |-> f[A]]
    BY <1>7 DEF FoldTrace
  <2> QED
    BY <1>8, <2>1
<1>10. Is(it)
  <2> HIDE DEF Is
  <2> QED
    BY <1>9
<1> HIDE DEF it
<1>11. GoesOnAs(f, it, n)
  BY <1>8, <1>10 DEF GoesOnAs
<1>12. LossOp(acc, op) = v[n]
  BY <1>4, <1>7, <1>11 DEF FoldTrace
<1>13. \A i \in 0 .. n : v[i] \in U
  BY <1>1, <1>5, <1>7 DEF FoldTrace
<1>14. \A i \in 1 .. n : v[i] = LossStep(v[i - 1], op, op.on[i])
  <2> SUFFICES ASSUME NEW i \in 1 .. n PROVE v[i] = LossStep(v[i - 1], op, op.on[i])
    OBVIOUS
  <2>1. i - 1 \in 0 .. n
    BY <1>1
  <2> QED
    BY <1>3, <1>7, <1>13, <2>1 DEF FoldTrace, Trace
<1>15. v[0] = acc
  BY <1>7 DEF FoldTrace, Trace
<1>16. LossTrace(v, acc, op)
  BY <1>12, <1>13, <1>14, <1>15 DEF LossTrace, n, U
<1> QED
  BY <1>16

\* What holds at the end and goes back from each place to the one before it holds everywhere.
LEMMA Backward ==
  ASSUME NEW n \in Nat, NEW P, n \in P, \A i \in 1 .. n : i \in P => i - 1 \in P
  PROVE  \A i \in 0 .. n : i \in P
<1> DEFINE N == {k \in Nat : k <= n => n - k \in P}
<1>1. 0 \in N
  OBVIOUS
<1>2. ASSUME NEW k \in Nat, k \in N PROVE k + 1 \in N
  <2> SUFFICES ASSUME k + 1 <= n PROVE n - (k + 1) \in P
    OBVIOUS
  <2>1. n - k \in P /\ n - k \in 1 .. n /\ (n - k) - 1 = n - (k + 1)
    BY <1>2
  <2> QED
    BY <2>1
<1> HIDE DEF N
<1>3. \A k \in Nat : k \in N
  BY <1>1, <1>2, NaturalInduction
<1> SUFFICES ASSUME NEW i \in 0 .. n PROVE i \in P
  OBVIOUS
<1>4. n - i \in Nat /\ n - i <= n /\ n - (n - i) = i
  OBVIOUS
<1> QED
  BY <1>3, <1>4 DEF N

\* Correlated noise and annotations lose nothing.
LEMMA NothingLost ==
  ASSUME NEW op, Valid(op), op.name \in CorrelatedNoise \cup Annotations, NEW acc \in Losses
  PROVE  LossOp(acc, op) = acc
<1>1. PICK u : LossTrace(u, acc, op)
  BY LossTraces
<1> DEFINE n == Len(op.on)
           P == {i \in 0 .. n : u[i] = u[n]}
<1>2. n \in Nat /\ \A i \in 1 .. n : op.on[i] \in Groups(op.name)
  BY InstructionIs
<1>3. n \in P
  BY <1>2
<1>4. ASSUME NEW i \in 1 .. n, i \in P PROVE i - 1 \in P
  <2>1. i - 1 \in 0 .. n
    BY <1>2
  <2>2. u[i] = LossStep(u[i - 1], op, op.on[i]) /\ u[i - 1] \in Losses
    BY <1>1, <2>1 DEF LossTrace
  <2>3. LossStep(u[i - 1], op, op.on[i]) = u[i - 1]
    <3> DEFINE t == op.on[i]
               w == u[i - 1]
    <3>1. t \in Groups(op.name) /\ w \in Losses
      BY <1>2, <2>2
    <3> HIDE DEF t, w
    <3>2. LossStep(w, op, t) = w
      BY <3>1, LossStepIs
    <3> QED
      BY <3>2 DEF t, w
  <2> QED
    BY <1>4, <2>1, <2>2, <2>3
<1> HIDE DEF P, n
<1>5. \A i \in 0 .. n : i \in P
  BY <1>2, <1>3, <1>4, Backward
<1>6. 0 \in P
  BY <1>2, <1>5
<1> QED
  BY <1>1, <1>6 DEF P, n, LossTrace

\* One group.
LEMMA GroupLinks ==
  ASSUME NEW op, Valid(op), op.name \in Stepwise, NEW t \in Groups(op.name),
         NEW a, NEW b, Undoes(op, t, a, b), NEW acc \in Losses, Spared(LossStep(acc, op, t), a)
  PROVE  Spared(acc, b) /\ Dual(op, t, b, a)
<1> DEFINE new == LossStep(acc, op, t)
<1>1. /\ new \in Losses /\ new.kept /\ acc.kept
      /\ op.name \in {"R", "RX"} => new.lost = acc.lost \ {t}
      /\ op.name \notin {"R", "RX"} =>
           /\ new.lost = acc.lost \cup QubitsLost(op, t)
           /\ QubitsUsed(op, t) \cap acc.lost = {}
  BY LossStepIs DEF Spared
<1>2. \A q \in new.lost : Idle(a, q)
  BY DEF Spared
<1>3. acc.lost \in SUBSET Qubits
  BY DEF Losses
<1> HIDE DEF new
<1>4. CASE op.name \in {"R", "RX"}
  BY <1>4, LostQubits, PlainKinds, UsedAndLost, <1>1, <1>2, <1>3 DEF Undoes, Idle, SameAt, Spared
<1>5. CASE op.name \notin {"R", "RX"}
  BY <1>1, <1>2, <1>5, <1>3 DEF Undoes, Idle, SameAt, Spared
<1> QED
  BY <1>4, <1>5

\* A chain of groups.
LEMMA ChainDual ==
  ASSUME NEW op, Valid(op), Reversible(op), op.name \in Stepwise, NEW c,
         \A i \in 1 .. Len(op.on) : Dual(op, op.on[i], c[i - 1], c[i])
  PROVE  OpDual(op, c[0], c[Len(op.on)])
<1> DEFINE n == Len(op.on)
           states == [i \in 0 .. n |-> SimsAt(c[i])]
           seen == [i \in 0 .. n |-> Senses(c[i])]
           added == [i \in 1 .. n |-> CHOOSE x : DualBy(op, op.on[i], c[i - 1], c[i], x)]
           move == Moves(op)
<1>1. n \in Nat
  BY InstructionIs
<1>2. \A i \in 1 .. n : DualBy(op, op.on[i], c[i - 1], c[i], added[i])
  <2> SUFFICES ASSUME NEW i \in 1 .. n PROVE DualBy(op, op.on[i], c[i - 1], c[i], added[i])
    OBVIOUS
  <2> DEFINE D(x) == DualBy(op, op.on[i], c[i - 1], c[i], x)
  <2>1. \E x : D(x)
    BY DEF Dual, DualBy
  <2>2. D(CHOOSE x : D(x))
    <3> HIDE DEF D
    <3> QED
      BY <2>1
  <2> QED
    BY <2>2
<1>3. \A i \in 0 .. n : states[i] = SimsAt(c[i]) /\ seen[i] = Senses(c[i])
  OBVIOUS
<1>4. \A i \in 1 .. n : \A s \in Sims : move[i][s] = FrameTarget(s, Quiet(op), op.on[i])
  BY DEF Moves
<1>5. 0 \in 0 .. n /\ n \in 0 .. n /\ \A i \in 1 .. n : i \in 0 .. n /\ i - 1 \in 0 .. n
  BY <1>1
<1>6. \A i \in 0 .. n : SimsAt(c[i]) \subseteq Sims
  BY DEF SimsAt
<1> HIDE DEF n, states, seen, added, move
<1>7. \A i \in 1 .. n : \A s \in states[i - 1] :
        move[i][s] \subseteq states[i] /\ Adds(seen[i], move[i][s], seen[i - 1][s], added[i])
  <2> SUFFICES ASSUME NEW i \in 1 .. n, NEW s \in states[i - 1]
               PROVE  /\ move[i][s] \subseteq states[i]
                      /\ Adds(seen[i], move[i][s], seen[i - 1][s], added[i])
    OBVIOUS
  <2>1. s \in SimsAt(c[i - 1]) /\ s \in Sims
    BY <1>3, <1>5, <1>6
  <2>2. move[i][s] = FrameTarget(s, Quiet(op), op.on[i])
    BY <1>4, <2>1
  <2>3. /\ states[i] = SimsAt(c[i]) /\ seen[i] = Senses(c[i])
        /\ seen[i - 1] = Senses(c[i - 1])
    BY <1>3, <1>5
  <2>4. /\ FrameTarget(s, Quiet(op), op.on[i]) \subseteq SimsAt(c[i])
        /\ Adds(Senses(c[i]), FrameTarget(s, Quiet(op), op.on[i]), Senses(c[i - 1])[s], added[i])
    BY <1>2, <2>1 DEF DualBy
  <2> QED
    BY <2>2, <2>3, <2>4
<1>8. PICK total :
        /\ (\A i \in 1 .. n : added[i] = {{}}) => total = {{}}
        /\ \A s \in states[0] : \A v :
             Walk(v, n, move, s) =>
               v[n] \subseteq states[n] /\ Adds(seen[n], v[n], seen[0][s], total)
  BY <1>1, <1>7, WalksAdd
<1>9. op.name \notin PairMeasurements \cup {"MPP"} => total = {{}}
  BY <1>2, <1>8 DEF DualBy
<1> DEFINE zeros == Zeros(c[n])
<1> HIDE DEF zeros
<1>10. ASSUME NEW s \in SimsAt(c[0])
       PROVE  /\ FrameOp(s, Quiet(op), zeros) \subseteq SimsAt(c[n])
              /\ Adds(Senses(c[n]), FrameOp(s, Quiet(op), zeros), Senses(c[0])[s], total)
  <2>1. s \in Sims /\ s \in states[0]
    BY <1>3, <1>5, <1>6
  <2>2. PICK v : Walk(v, n, move, s) /\ v[n] = FrameOp(s, Quiet(op), zeros)
    BY <2>1, OpWalks DEF n, move
  <2>3. v[n] \subseteq states[n] /\ Adds(seen[n], v[n], seen[0][s], total)
    BY <1>8, <2>1, <2>2
  <2>4. states[n] = SimsAt(c[n]) /\ seen[n] = Senses(c[n]) /\ seen[0] = Senses(c[0])
    BY <1>3, <1>5
  <2> QED
    BY <2>2, <2>3, <2>4
<1> QED
  BY <1>9, <1>10 DEF OpDual, n, zeros

\* An instruction with groups.
LEMMA ChainLinks ==
  ASSUME NEW op, Valid(op), Reversible(op), op.name \in Stepwise, NEW a, NEW b, NEW c,
         Chain(c, op, a, b)
  PROVE  Link(op, b, a)
<1> SUFFICES ASSUME NEW acc \in Losses, Spared(LossOp(acc, op), a)
             PROVE  Spared(acc, b) /\ OpDual(op, b, a)
  BY DEF Link
<1>1. PICK u : LossTrace(u, acc, op)
  BY LossTraces
<1> DEFINE n == Len(op.on)
           P == {i \in 0 .. n : Spared(u[i], c[i])}
<1>2. n \in Nat /\ \A i \in 1 .. n : op.on[i] \in Groups(op.name)
  BY InstructionIs
<1>3. n \in P
  BY <1>2, <1>1 DEF LossTrace, Chain
<1>4. ASSUME NEW i \in 1 .. n, Spared(u[i], c[i])
      PROVE  i - 1 \in P /\ Dual(op, op.on[i], c[i - 1], c[i])
  <2>1. i - 1 \in 0 .. n
    BY <1>2
  <2>2. /\ u[i] = LossStep(u[i - 1], op, op.on[i]) /\ u[i - 1] \in Losses
        /\ Undoes(op, op.on[i], c[i], c[i - 1])
    BY <1>1, <2>1 DEF LossTrace, Chain
  <2> DEFINE t == op.on[i]
             before == c[i - 1]
             after == c[i]
             w == u[i - 1]
  <2>3. t \in Groups(op.name) /\ w \in Losses /\ Undoes(op, t, after, before)
        /\ Spared(LossStep(w, op, t), after)
    BY <1>2, <1>4, <2>2
  <2> HIDE DEF t, before, after, w
  <2>4. Spared(w, before) /\ Dual(op, t, before, after)
    BY <2>3, GroupLinks
  <2> QED
    BY <2>1, <2>4 DEF t, before, after, w
<1>5. \A i \in 1 .. n : i \in P => i - 1 \in P
  BY <1>4
<1>6. \A i \in 0 .. n : i \in P
  <2> HIDE DEF P, n
  <2> QED
    BY <1>2, <1>3, <1>5, Backward
<1>7. \A i \in 1 .. n : Dual(op, op.on[i], c[i - 1], c[i])
  <2> SUFFICES ASSUME NEW i \in 1 .. n PROVE Dual(op, op.on[i], c[i - 1], c[i])
    OBVIOUS
  <2>1. i \in 0 .. n
    BY <1>2
  <2> QED
    BY <1>4, <1>6, <2>1
<1>8. OpDual(op, c[0], c[n])
  BY <1>7, ChainDual
<1>9. Spared(u[0], c[0])
  BY <1>2, <1>6
<1> QED
  BY <1>1, <1>8, <1>9 DEF LossTrace, Chain

(***************************************************************************)
(* Correlated noise and annotations.                                       *)
(***************************************************************************)

\* Instructions that lose nothing.
LEMMA LosslessLinks ==
  ASSUME NEW op, Valid(op), op.name \in CorrelatedNoise \cup Annotations, NEW a, NEW b,
         \A q \in Qubits : SameAt(b, a, q), OpDual(op, b, a)
  PROVE  Link(op, b, a)
<1> SUFFICES ASSUME NEW acc \in Losses, Spared(LossOp(acc, op), a) PROVE Spared(acc, b)
  BY DEF Link
<1>1. Spared(acc, a) /\ acc.lost \in SUBSET Qubits
  BY NothingLost DEF Losses
<1> QED
  BY <1>1 DEF Spared, Idle, SameAt

\* An instruction that all states are carried through.
LEMMA CarriedIsOpDual ==
  ASSUME NEW op, NEW a, NEW b,
         \A s \in SimsAt(b) : Carried(b, s, a, FrameOp(s, Quiet(op), Zeros(a)))
  PROVE  OpDual(op, b, a)
<1>1. ASSUME NEW s \in SimsAt(b)
      PROVE  /\ FrameOp(s, Quiet(op), Zeros(a)) \subseteq SimsAt(a)
             /\ Adds(Senses(a), FrameOp(s, Quiet(op), Zeros(a)), Senses(b)[s], {{}})
  <2> DEFINE next == FrameOp(s, Quiet(op), Zeros(a))
  <2>1. (\E u \in next : TRUE) /\ \A u \in next : u \in SimsAt(a) /\ Effect(a, u) = Effect(b, s)
    BY DEF Carried
  <2>2. Senses(b)[s] = Effect(b, s) /\ \A u \in next : Senses(a)[u] = Effect(a, u)
    BY <2>1 DEF Senses
  <2>3. SymDiff(Effect(b, s), {}) = Effect(b, s)
    BY SymDiffSums
  <2> HIDE DEF next
  <2>4. Adds(Senses(a), next, Senses(b)[s], {{}})
    BY <2>1, <2>2, <2>3 DEF Adds
  <2> QED
    BY <2>1, <2>4 DEF next
<1> QED
  BY <1>1 DEF OpDual

\* A tick.
LEMMA TickLinks ==
  ASSUME NEW op, Valid(op), op.name = "TICK", NEW a \in Live
  PROVE  Link(op, a, a)
<1>1. ASSUME NEW s \in SimsAt(a) PROVE Carried(a, s, a, FrameOp(s, Quiet(op), Zeros(a)))
  <2> DEFINE quiet == Quiet(op)
  <2>1. quiet.name = "TICK"
    BY InstructionIs
  <2> HIDE DEF quiet
  <2>2. FrameOp(s, quiet, Zeros(a)) = {s}
    BY <2>1 DEF FrameOp, CorrelatedNoise
  <2> QED
    BY <2>2 DEF Carried, quiet
<1>2. OpDual(op, a, a)
  BY <1>1, CarriedIsOpDual
<1> QED
  BY <1>2, LosslessLinks DEF Annotations, SameAt

\* A correlated error that does not occur.
LEMMA QuietCorrelated ==
  ASSUME NEW op, Valid(op), op.name \in CorrelatedNoise, NEW s \in Sims, NEW zeros
  PROVE  \E e \in BOOLEAN : FrameOp(s, Quiet(op), zeros) = {[s EXCEPT !.corr = e]}
<1> DEFINE quiet == Quiet(op)
           e == IF quiet.name = "E" THEN FALSE ELSE s.corr
<1>1. quiet.name \in CorrelatedNoise /\ quiet.arg = 0
  BY InstructionIs DEF CorrelatedNoise, Quiet, Valid
<1>2. s.corr \in BOOLEAN /\ e \in BOOLEAN
  BY DEF Sims
<1> HIDE DEF quiet
<1>3. Bits(quiet) = {FALSE}
  BY <1>1 DEF Bits
<1> DEFINE Noise(candidate) == candidate /\ (quiet.name = "E" \/ ~s.corr)
           After(candidate) ==
             [s EXCEPT !.frame = IF Noise(candidate)
                                 THEN FoldLeft(LAMBDA f, term : AddPauli(f, term[1], term[2]), @, quiet.on)
                                 ELSE @,
                       !.corr = IF quiet.name = "E" THEN Noise(candidate) ELSE @ \/ Noise(candidate)]
<1>4. FrameOp(s, quiet, zeros) = {After(candidate) : candidate \in Bits(quiet)}
  BY <1>1 DEF CorrelatedNoise, FrameOp, FrameCorrelated
<1>5. After(FALSE) = [s EXCEPT !.corr = e]
  BY <1>2 DEF Sims
<1> HIDE DEF After, e
<1>6. FrameOp(s, quiet, zeros) = {[s EXCEPT !.corr = e]}
  BY <1>3, <1>4, <1>5
<1> QED
  BY <1>2, <1>6 DEF quiet

\* Analyses that differ in their errors, around a correlated error.
LEMMA CorrelatedLinks ==
  ASSUME NEW op, Valid(op), op.name \in CorrelatedNoise, NEW a, NEW b, Alike(b, a)
  PROVE  Link(op, b, a)
<1>1. ASSUME NEW s \in SimsAt(b) PROVE Carried(b, s, a, FrameOp(s, Quiet(op), Zeros(a)))
  <2>1. s \in Sims
    BY DEF SimsAt
  <2>2. PICK e \in BOOLEAN : FrameOp(s, Quiet(op), Zeros(a)) = {[s EXCEPT !.corr = e]}
    BY <2>1, QuietCorrelated
  <2> DEFINE u == [s EXCEPT !.corr = e]
  <2>3. /\ u \in Sims /\ u.flips = s.flips /\ u.detectors = s.detectors
        /\ u.observables = s.observables /\ u.frame = s.frame
    BY <2>1 DEF Sims
  <2> HIDE DEF u
  <2>4. SimsAt(b) = SimsAt(a) /\ Effect(b, s) = Effect(a, s)
    BY AlikeSense
  <2>5. u \in SimsAt(a)
    BY <2>3, <2>4 DEF SimsAt
  <2>6. Effect(a, u) = Effect(a, s)
    BY <2>3 DEF Effect, Fired, Recalls, Touches
  <2> QED
    BY <2>2, <2>4, <2>5, <2>6 DEF Carried, u
<1>2. OpDual(op, b, a)
  BY <1>1, CarriedIsOpDual
<1>3. \A q \in Qubits : SameAt(b, a, q)
  BY DEF Alike
<1> QED
  BY <1>2, <1>3, LosslessLinks

\* What a product of Paulis flips.
LEMMA CorrelatedIs ==
  ASSUME NEW a \in Analyses, NEW op, op.on \in Seq(Qubits \X Bases)
  PROVE  Correlated(a, op) \in SUBSET Targets
<1> DEFINE n == Len(op.on)
           U == SUBSET Targets
           V == [A \in SUBSET (1 .. n) |-> U]
           With(y, i) == SymDiff(y, Sensitivity(a, op.on[i][1], op.on[i][2]))
           step == [k \in 1 .. n |-> [y \in U |-> With(y, k)]]
           Is(g) == g = [A \in SUBSET (1 .. n) |->
                           IF A = {} THEN {}
                           ELSE LET x == Max(A)
                                IN SymDiff(g[A \ {x}], Sensitivity(a, op.on[x][1], op.on[x][2]))]
           it == CHOOSE g : Is(g)
<1>1. n \in Nat /\ DOMAIN op.on = 1 .. n
  OBVIOUS
<1>2. \A i \in 1 .. n : \A y \in U : With(y, i) \in U
  <2> SUFFICES ASSUME NEW i \in 1 .. n, NEW y \in U PROVE With(y, i) \in U
    OBVIOUS
  <2> DEFINE q == op.on[i][1]
             pauli == op.on[i][2]
  <2>1. op.on[i] \in Qubits \X Bases
    BY <1>1
  <2>2. q \in Qubits /\ pauli \in {"X", "Y", "Z"}
    BY <2>1 DEF Bases
  <2> HIDE DEF q, pauli
  <2>3. Sensitivity(a, q, pauli) \in SUBSET Targets
    BY <2>2 DEF Analyses, Sensitivity, SymDiff
  <2>4. SymDiff(y, Sensitivity(a, q, pauli)) \in SUBSET Targets
    BY <2>3 DEF SymDiff
  <2> QED
    BY <2>4 DEF q, pauli
<1>3. \A i \in 1 .. n : \A y \in U : step[i][y] = With(y, i) /\ step[i][y] \in U
  BY <1>2
<1>4. Correlated(a, op) = it[1 .. n]
  BY <1>1 DEF Correlated, FoldLeft, MapThenFoldSet
<1>5. {} \in V[{}] /\ \A A \in SUBSET (1 .. n) : V[A] = U
  BY <1>1
<1>6. ASSUME NEW A \in SUBSET (1 .. n), A # {}
      PROVE  \A y \in V[A \ {Max(A)}] : step[Max(A)][y] \in V[A]
  <2>1. Max(A) \in 1 .. n
    BY <1>1, <1>6, LastPlace
  <2> HIDE DEF step, U, V
  <2> QED
    BY <1>3, <1>5, <2>1
<1> HIDE DEF n, step, U, V
<1>7. PICK f, v : FoldTrace(f, v, n, V, {}, step)
  BY <1>1, <1>5, <1>6, FoldsFromLeft
<1>8. \A A \in SUBSET (1 .. n) : f[A] = IF A = {} THEN {} ELSE With(f[A \ {Max(A)}], Max(A))
  <2> SUFFICES ASSUME NEW A \in SUBSET (1 .. n)
               PROVE  f[A] = IF A = {} THEN {} ELSE With(f[A \ {Max(A)}], Max(A))
    OBVIOUS
  <2>1. CASE A = {}
    BY <1>7, <2>1 DEF FoldTrace
  <2>2. CASE A # {}
    <3> DEFINE B == A \ {Max(A)}
    <3>1. Max(A) \in 1 .. n /\ B \in SUBSET (1 .. n)
      BY <1>1, <2>2, LastPlace
    <3>2. f[A] = step[Max(A)][f[B]] /\ f[B] \in U
      BY <1>5, <1>7, <2>2, <3>1 DEF FoldTrace
    <3> HIDE DEF B, With
    <3>3. f[A] = With(f[B], Max(A))
      BY <1>3, <3>1, <3>2
    <3> QED
      BY <2>2, <3>3 DEF B
  <2> QED
    BY <2>1, <2>2
<1>9. Is(f)
  <2>1. f = [A \in SUBSET (1 .. n) |-> f[A]]
    BY <1>7 DEF FoldTrace
  <2> QED
    BY <1>8, <2>1
<1>10. Is(it)
  <2> HIDE DEF Is
  <2> QED
    BY <1>9
<1> HIDE DEF it
<1>11. GoesOnAs(f, it, n)
  BY <1>8, <1>10 DEF GoesOnAs
<1>12. Correlated(a, op) = v[n]
  BY <1>4, <1>7, <1>11 DEF FoldTrace
<1>13. v[n] \in U
  BY <1>1, <1>5, <1>7 DEF FoldTrace
<1> QED
  BY <1>12, <1>13 DEF U

\* Of the places that lie in a set, as many are odd in number as there are elements of the set at
\* which an odd number of them lie.
LEMMA OddPlaces ==
  ASSUME NEW n \in Nat, NEW k \in Nat, NEW p, NEW Q \in SUBSET (1 .. n)
  PROVE  Odd(PutOddly(Q, p, k)) <=> Odd(PutIn(Q, p, k))
<1> DEFINE D == 1 .. n
           At(m) == {i \in 1 .. k : p[i] = m}
           In(T) == {i \in 1 .. k : p[i] \in T}
           Often(T) == {m \in T : Odd(At(m))}
           P == {T \in SUBSET D : Odd(Often(T)) <=> Odd(In(T))}
<1>1. IsFiniteSet(D) /\ IsFiniteSet(1 .. k)
  BY FirstPlaces
<1>2. \A T \in SUBSET D : IsFiniteSet(Often(T)) /\ IsFiniteSet(In(T))
  <2> SUFFICES ASSUME NEW T \in SUBSET D PROVE IsFiniteSet(Often(T)) /\ IsFiniteSet(In(T))
    OBVIOUS
  <2>1. Often(T) \in SUBSET D /\ In(T) \in SUBSET (1 .. k)
    OBVIOUS
  <2> HIDE DEF Often, In, D
  <2> QED
    BY <1>1, <2>1, FS_Subset
<1>3. {} \in P
  <2>1. Often({}) = {} /\ In({}) = {}
    OBVIOUS
  <2> HIDE DEF Often, In
  <2> QED
    BY <2>1
<1>4. ASSUME NEW T \in SUBSET D, T # {}, \A x \in T : T \ {x} \in P
      PROVE  T \in P
  <2>1. PICK x \in T : TRUE
    BY <1>4
  <2> DEFINE R == T \ {x}
             one == IF Odd(At(x)) THEN {x} ELSE {}
  <2>2. R \in P /\ R \in SUBSET D
    BY <1>4
  <2>3. Often(T) = SymDiff(Often(R), one)
    <3> HIDE DEF At
    <3> QED
      BY <2>1 DEF SymDiff
  <2>4. In(T) = SymDiff(In(R), At(x))
    BY <2>1 DEF SymDiff
  <2>5. IsFiniteSet(one) /\ (Odd(one) <=> Odd(At(x)))
    <3>1. Cardinality({}) = 0 /\ Cardinality({x}) = 1 /\ IsFiniteSet({}) /\ IsFiniteSet({x})
      BY FS_EmptySet, FS_Singleton
    <3> HIDE DEF At
    <3>2. CASE Odd(At(x))
      BY <3>1, <3>2 DEF Odd
    <3>3. CASE ~Odd(At(x))
      BY <3>1, <3>3 DEF Odd
    <3> QED
      BY <3>2, <3>3
  <2>6. IsFiniteSet(Often(R)) /\ IsFiniteSet(In(R)) /\ IsFiniteSet(At(x))
    <3>1. At(x) \in SUBSET (1 .. k)
      OBVIOUS
    <3> HIDE DEF At, Often, In, R, D
    <3> QED
      BY <1>1, <1>2, <2>2, <3>1, FS_Subset
  <2>7. Odd(Often(R)) <=> Odd(In(R))
    BY <2>2
  <2> HIDE DEF Often, In, At, one, R, D
  <2>8. Odd(Often(T)) <=> ~(Odd(Often(R)) <=> Odd(one))
    BY <2>3, <2>5, <2>6, OddSymDiff
  <2>9. Odd(In(T)) <=> ~(Odd(In(R)) <=> Odd(At(x)))
    BY <2>4, <2>6, OddSymDiff
  <2> QED
    BY <2>5, <2>7, <2>8, <2>9
<1>5. \A T \in SUBSET D : T \in P
  <2> HIDE DEF P, D
  <2> QED
    BY <1>1, <1>3, <1>4, SubsetInduction
<1>6. Q \in P
  <2> HIDE DEF P
  <2> QED
    BY <1>5
<1>7. Odd(Often(Q)) <=> Odd(In(Q))
  <2> HIDE DEF Often, In
  <2> QED
    BY <1>6
<1> QED
  BY <1>7 DEF PutOddly, PutIn

\* What has fired.
LEMMA FiredIs ==
  ASSUME NEW s \in Sims
  PROVE  /\ \A i \in Nat : <<"D", i>> \in Fired(s) <=> i \in 1 .. Len(s.detectors) /\ s.detectors[i]
         /\ \A k \in Nat : <<"L", k>> \in Fired(s) <=> Odd(Observed(s.observables, k))
<1> DEFINE ds == s.detectors
           os == s.observables
           D == {<<"D", i>> : i \in {j \in DOMAIN ds : ds[j]}}
           Ons(k) == {j \in DOMAIN os : os[j] = <<k, TRUE>>}
           L == {<<"L", o[1]>> : o \in {p \in Range(os) : Odd(Ons(p[1]))}}
<1>1. /\ DOMAIN ds = 1 .. Len(ds) /\ DOMAIN os = 1 .. Len(os)
  BY DEF Sims
<1>2. Fired(s) = D \cup L
  BY DEF Fired, Detection
<1>3. ASSUME NEW i \in Nat PROVE <<"D", i>> \in Fired(s) <=> i \in 1 .. Len(ds) /\ ds[i]
  <2>1. <<"D", i>> \in D <=> i \in DOMAIN ds /\ ds[i]
    BY <1>1
  <2>2. <<"D", i>> \notin L
    <3> HIDE DEF Ons
    <3>1. \A t \in L : t[1] = "L"
      OBVIOUS
    <3> HIDE DEF L
    <3> QED
      BY <3>1
  <2> HIDE DEF D, L
  <2> QED
    BY <1>1, <1>2, <2>1, <2>2
<1>4. ASSUME NEW k \in Nat PROVE <<"L", k>> \in Fired(s) <=> Odd(Ons(k))
  <2>1. <<"L", k>> \notin D
    <3>1. \A t \in D : t[1] = "D"
      OBVIOUS
    <3> HIDE DEF D
    <3> QED
      BY <3>1
  <2>2. ASSUME <<"L", k>> \in L PROVE Odd(Ons(k))
    <3> HIDE DEF Ons
    <3>1. PICK o \in {p \in Range(os) : Odd(Ons(p[1]))} : <<"L", k>> = <<"L", o[1]>>
      BY <2>2
    <3> QED
      BY <3>1
  <2>3. ASSUME Odd(Ons(k)) PROVE <<"L", k>> \in L
    <3>1. PICK j \in DOMAIN os : os[j] = <<k, TRUE>>
      <4>1. Ons(k) # {}
        <5>1. Cardinality({}) = 0
          BY FS_EmptySet
        <5> HIDE DEF Ons
        <5> QED
          BY <2>3, <5>1 DEF Odd
      <4> QED
        BY <4>1
    <3>2. os[j] \in Range(os)
      <4> HIDE DEF os
      <4> QED
        BY <3>1 DEF Range
    <3>3. os[j][1] = k
      <4> HIDE DEF os
      <4> QED
        BY <3>1
    <3> HIDE DEF Ons
    <3> QED
      BY <2>3, <3>2, <3>3
  <2> HIDE DEF D, L
  <2> QED
    BY <1>2, <2>1, <2>2, <2>3
<1> QED
  BY <1>1, <1>3, <1>4 DEF Observed

\* LooksBack toggles one target at the results looked back to, and nothing else.
LEMMA LooksBackIs ==
  ASSUME NEW a \in Live, NEW op, NEW K, op.on \in Seq(K), NEW T \in Targets
  PROVE  Looked(a, op, T, LooksBack(a, op, T)) /\ LooksBack(a, op, T).detector = a.detector
<1> DEFINE M == a.measurement
           n == Len(M)
           At(m) == {i \in DOMAIN op.on : a.measured + 1 - op.on[i] = m}
           N == [m \in DOMAIN M |-> Toggle(M[m], T, Odd(At(m)))]
           b == LooksBack(a, op, T)
<1>1. /\ a \in Analyses /\ M \in Seq(SUBSET Targets) /\ DOMAIN M = 1 .. n /\ n \in Nat
      /\ DOMAIN op.on = 1 .. Len(op.on)
  BY LiveParts
<1>2. b = [a EXCEPT !.measurement = N]
  BY DEF LooksBack
<1>3. ASSUME NEW m \in 1 .. n
      PROVE  /\ N[m] \in SUBSET Targets
             /\ \A d : d \in N[m] <=> ~(d \in M[m] <=> (d = T /\ Odd(At(m))))
  <2> DEFINE odd == Odd(At(m))
  <2>1. N[m] = Toggle(M[m], T, odd) /\ M[m] \in SUBSET Targets
    BY <1>1
  <2> HIDE DEF odd, N, M
  <2>2. N[m] \in SUBSET Targets /\ \A d : d \in N[m] <=> ~(d \in M[m] <=> (d = T /\ odd))
    BY <2>1 DEF Toggle, SymDiff
  <2> QED
    BY <2>2 DEF odd
<1>4. N \in Seq(SUBSET Targets) /\ Len(N) = n
  <2>1. DOMAIN N = 1 .. n
    BY <1>1
  <2>2. N \in [1 .. n -> SUBSET Targets]
    BY <1>1, <1>3
  <2> HIDE DEF N
  <2> QED
    BY <1>1, <2>2
<1> HIDE DEF N, b
<1>5. /\ b \in Analyses /\ b.measurement = N /\ b.measured = a.measured /\ b.detector = a.detector
      /\ b.x = a.x /\ b.z = a.z /\ b.outcome = a.outcome
  BY <1>1, <1>2, <1>4 DEF Analyses
<1>6. b \in Live
  BY <1>4, <1>5 DEF Live
<1>7. \A q \in Qubits : SameAt(b, a, q)
  BY <1>5 DEF SameAt
<1>8. \A m \in 1 .. n : \A d \in Targets :
        d \in b.measurement[m] <=>
          ~(d \in M[m] <=> (d = T /\ Odd({i \in 1 .. Len(op.on) : a.measured + 1 - op.on[i] = m})))
  BY <1>1, <1>3, <1>5
<1> QED
  BY <1>4, <1>5, <1>6, <1>7, <1>8 DEF Looked, b

\* What is recalled before and after.
LEMMA LookedRecalls ==
  ASSUME NEW a \in Live, NEW op, NEW K, op.on \in Seq(K), NEW T \in Targets,
         WithinReach(op, a.measured), NEW b, Looked(a, op, T, b),
         NEW flips \in Seq(BOOLEAN), Len(flips) = a.measured, NEW d \in Targets
  PROVE  Recalls(b, flips, d) <=> ~(Recalls(a, flips, d) <=> (d = T /\ Parity(flips, op)))
<1> DEFINE n == a.measured
           k == Len(op.on)
           p == [i \in 1 .. k |-> n + 1 - op.on[i]]
           Set == {m \in 1 .. n : flips[m]}
           A == {m \in 1 .. n : flips[m] /\ d \in a.measurement[m]}
           B == {m \in 1 .. n : flips[m] /\ d \in b.measurement[m]}
           C == IF d = T THEN {m \in Set : Odd({i \in 1 .. k : p[i] = m})} ELSE {}
<1>1. /\ n \in Nat /\ k \in Nat /\ DOMAIN flips = 1 .. n /\ DOMAIN op.on = 1 .. k
      /\ n <= Len(a.measurement) /\ Len(a.measurement) \in Nat
  BY LiveParts DEF Live
<1>2. \A m : {i \in 1 .. k : p[i] = m} = {i \in 1 .. k : n + 1 - op.on[i] = m}
  OBVIOUS
<1>3. \A m \in 1 .. n : d \in b.measurement[m] <=>
        ~(d \in a.measurement[m] <=> (d = T /\ Odd({i \in 1 .. k : p[i] = m})))
  <2> SUFFICES ASSUME NEW m \in 1 .. n
               PROVE  d \in b.measurement[m] <=>
                        ~(d \in a.measurement[m] <=> (d = T /\ Odd({i \in 1 .. k : p[i] = m})))
    OBVIOUS
  <2>1. m \in 1 .. Len(a.measurement)
    BY <1>1
  <2>2. d \in b.measurement[m] <=>
          ~(d \in a.measurement[m] <=> (d = T /\ Odd({i \in 1 .. k : n + 1 - op.on[i] = m})))
    BY <2>1 DEF Looked
  <2> HIDE DEF p
  <2> QED
    BY <1>2, <2>2
<1> DEFINE O(m) == Odd({i \in 1 .. k : p[i] = m})
<1>4. B = SymDiff(A, C)
  <2> HIDE DEF O, n
  <2>1. \A m \in 1 .. n : d \in b.measurement[m] <=> ~(d \in a.measurement[m] <=> (d = T /\ O(m)))
    BY <1>3 DEF O
  <2>2. C = IF d = T THEN {m \in Set : O(m)} ELSE {}
    BY DEF O
  <2> HIDE DEF C
  <2> QED
    BY <2>1, <2>2 DEF SymDiff
<1>5. IsFiniteSet(A) /\ IsFiniteSet(C)
  <2>1. IsFiniteSet(1 .. n) /\ A \in SUBSET (1 .. n) /\ C \in SUBSET (1 .. n)
    BY <1>1, FirstPlaces
  <2> HIDE DEF A, C
  <2> QED
    BY <2>1, FS_Subset
<1>6. Odd(C) <=> (d = T /\ Parity(flips, op))
  <2>1. CASE d # T
    <3>1. C = {} /\ Cardinality({}) = 0
      BY <2>1, FS_EmptySet
    <3> HIDE DEF C
    <3> QED
      BY <2>1, <3>1 DEF Odd
  <2>2. CASE d = T
    <3>1. C = {m \in Set : Odd({i \in 1 .. k : p[i] = m})}
      BY <2>2
    <3>2. Odd(C) <=> Odd({i \in 1 .. k : p[i] \in Set})
      <4>1. Set \in SUBSET (1 .. n)
        OBVIOUS
      <4> HIDE DEF C, Set, p, n, k
      <4>2. Odd(PutOddly(Set, p, k)) <=> Odd(PutIn(Set, p, k))
        BY <1>1, <4>1, OddPlaces
      <4> QED
        BY <3>1, <4>2 DEF PutOddly, PutIn
    <3>3. {i \in 1 .. k : p[i] \in Set} = {i \in DOMAIN op.on : flips[n + 1 - op.on[i]]}
      <4>1. \A i \in 1 .. k : p[i] = n + 1 - op.on[i] /\ p[i] \in 1 .. n
        <5> SUFFICES ASSUME NEW i \in 1 .. k PROVE n + 1 - op.on[i] \in 1 .. n
          OBVIOUS
        <5>1. op.on[i] \in 1 .. n
          BY DEF WithinReach
        <5> HIDE DEF n, k
        <5> QED
          BY <1>1, <5>1
      <4> HIDE DEF p, n, k
      <4> QED
        BY <1>1, <4>1
    <3>4. Parity(flips, op) <=> Odd({i \in DOMAIN op.on : flips[n + 1 - op.on[i]]})
      BY DEF Parity
    <3> HIDE DEF C, Set, p, n, k
    <3> QED
      BY <2>2, <3>2, <3>3, <3>4
  <2> QED
    BY <2>1, <2>2
<1>7. (Recalls(a, flips, d) <=> Odd(A)) /\ (Recalls(b, flips, d) <=> Odd(B))
  BY <1>1 DEF Recalls
<1> HIDE DEF A, B, C
<1>8. Odd(B) <=> ~(Odd(A) <=> Odd(C))
  BY <1>4, <1>5, OddSymDiff
<1> QED
  BY <1>6, <1>7, <1>8

\* What is left of an annotation without noise, which it has not.
LEMMA QuietOn ==
  ASSUME NEW op, Valid(op)
  PROVE  Quiet(op).on = op.on /\ (op.name = "OBSERVABLE_INCLUDE" => Quiet(op) = op)
BY DEF Quiet, Valid

\* The parity of a frame's results, the reference sample being 0.
LEMMA FrameParityIs ==
  ASSUME NEW a \in Live, NEW op, Valid(op), op.name \in {"DETECTOR", "OBSERVABLE_INCLUDE"},
         WithinReach(op, a.measured), NEW s \in SimsAt(a)
  PROVE  FrameParity(s, Quiet(op), Zeros(a)) = Parity(s.flips, op)
<1> DEFINE n == a.measured
           zeros == Zeros(a)
           first == SubSeq(zeros, 1, Len(s.flips))
           none == {i \in DOMAIN op.on : first[Len(first) + 1 - op.on[i]]}
<1>1. /\ n \in Nat /\ Len(s.flips) = n /\ n <= Len(a.measurement) /\ Len(a.measurement) \in Nat
      /\ DOMAIN a.measurement = 1 .. Len(a.measurement)
      /\ op.on \in Seq(Groups(op.name))
  BY LiveParts, InstructionIs DEF Live, SimsAt
<1>2. zeros \in Seq(BOOLEAN) /\ Len(zeros) = Len(a.measurement)
      /\ \A m \in 1 .. Len(a.measurement) : zeros[m] = FALSE
  BY <1>1 DEF Zeros
<1> HIDE DEF zeros
<1>3. Len(first) = n /\ \A m \in 1 .. n : first[m] = FALSE
  BY <1>1, <1>2
<1> HIDE DEF first
<1>4. none = {}
  <2> SUFFICES ASSUME NEW i \in DOMAIN op.on PROVE ~first[Len(first) + 1 - op.on[i]]
    OBVIOUS
  <2>1. i \in 1 .. Len(op.on)
    BY <1>1
  <2>2. op.on[i] \in 1 .. n
    BY <2>1 DEF WithinReach
  <2>3. n + 1 - op.on[i] \in 1 .. n
    <3> HIDE DEF n
    <3> QED
      BY <1>1, <2>2
  <2> QED
    BY <1>3, <2>3
<1>5. Quiet(op).on = op.on
  BY QuietOn
<1>6. Parity(first, Quiet(op)) = FALSE
  <2>1. Parity(first, Quiet(op)) = Odd(none)
    BY <1>5 DEF Parity
  <2>2. Odd(none) = FALSE
    <3> HIDE DEF none
    <3> QED
      BY <1>4, FS_EmptySet DEF Odd
  <2> QED
    BY <2>1, <2>2
<1>7. Parity(s.flips, Quiet(op)) = Parity(s.flips, op) /\ Parity(s.flips, op) \in BOOLEAN
  BY <1>5 DEF Parity, Odd
<1>8. FrameParity(s, Quiet(op), zeros) = (Parity(s.flips, Quiet(op)) # Parity(first, Quiet(op)))
  BY DEF FrameParity, first
<1> DEFINE y == Parity(s.flips, op)
<1>9. y \in BOOLEAN /\ FrameParity(s, Quiet(op), zeros) = (y # FALSE)
  BY <1>6, <1>7, <1>8
<1> HIDE DEF y
<1>10. FrameParity(s, Quiet(op), zeros) = y
  BY <1>9
<1> QED
  BY <1>10 DEF y, zeros

\* A target that looks back fires as it is recalled.
LEMMA AnnotationCarries ==
  ASSUME NEW a \in Live, NEW op, NEW K, op.on \in Seq(K), NEW T \in Targets,
         WithinReach(op, a.measured), NEW b, Looked(a, op, T, b),
         NEW s \in SimsAt(b), NEW u, u.frame = s.frame, u.flips = s.flips,
         \A d \in Targets : d \in Fired(u) <=> ~(d \in Fired(s) <=> (d = T /\ Parity(s.flips, op)))
  PROVE  Effect(a, u) = Effect(b, s)
<1>1. s.flips \in Seq(BOOLEAN) /\ Len(s.flips) = a.measured
  BY DEF SimsAt, Sims, Looked
<1>2. \A d \in Targets : Recalls(b, s.flips, d) <=>
        ~(Recalls(a, s.flips, d) <=> (d = T /\ Parity(s.flips, op)))
  BY <1>1, LookedRecalls
<1>3. Mirrors(b, s.frame, a, s.frame)
  <2>1. \A r \in Qubits, d \in Targets : Feels(b, s.frame, r, d) <=> Feels(a, s.frame, r, d)
    BY DEF Looked, SameAt, Feels
  <2> DEFINE f == s.frame
  <2> HIDE DEF f
  <2>2. Mirrors(b, f, a, f)
    BY <2>1, SameMirrors DEF f
  <2> QED
    BY <2>2 DEF f
<1>4. \A d \in Targets : Touches(b, s.frame, d) <=> Touches(a, s.frame, d)
  BY <1>3 DEF Mirrors
<1> QED
  BY <1>2, <1>4 DEF Effect

\* What annotations and correlated noise do not measure.
LEMMA Unmeasured ==
  ASSUME NEW op, op.name \in CorrelatedNoise \cup Annotations
  PROVE  MeasurementsOf(op) = 0
BY DEF MeasurementsOf, CorrelatedNoise, Annotations, Measurements, MeasureResets, PairMeasurements,
       Heralded

\* A detector.
LEMMA DetectorUndid ==
  ASSUME NEW op, Valid(op), op.name = "DETECTOR", NEW a \in Live, a.detector > 0,
         WithinReach(op, a.measured)
  PROVE  Undid(op, a, UndoOp(a, op))
<1> DEFINE k == a.detector
           T == <<"D", k>>
           c == [a EXCEPT !.detector = k - 1]
           b == LooksBack(c, op, T)
           N == Nat \ {0}
<1>1. UndoOp(a, op) = b
  BY DEF UndoOp
<1>2. k \in Nat /\ k - 1 \in Nat /\ a \in Analyses
  BY LiveParts
<1>3. op.on \in Seq(N)
  BY InstructionIs, GroupsAre
<1>4. /\ c \in Live /\ c.measured = a.measured /\ c.measurement = a.measurement
      /\ c.detector = k - 1 /\ c.x = a.x /\ c.z = a.z
  <2>1. k - 1 \in Nat
    BY <1>2
  <2> DEFINE less == k - 1
  <2>2. less \in Nat /\ c = [a EXCEPT !.detector = less]
    BY <2>1
  <2> HIDE DEF less, c
  <2>3. /\ c \in Analyses /\ c.measured = a.measured /\ c.measurement = a.measurement
        /\ c.detector = less /\ c.x = a.x /\ c.z = a.z /\ c.outcome = a.outcome
    BY <1>2, <2>2 DEF Analyses
  <2> QED
    BY <2>3 DEF Live, less
<1>5. T \in Targets
  BY <1>2 DEF Targets
<1> HIDE DEF c, T, N
<1>6. Looked(c, op, T, b) /\ b.detector = k - 1
  BY <1>3, <1>4, <1>5, LooksBackIs
<1> HIDE DEF b
<1>7. Looked(a, op, T, b)
  BY <1>4, <1>6 DEF Looked, SameAt
<1>8. ASSUME NEW s \in SimsAt(b) PROVE Carried(b, s, a, FrameOp(s, Quiet(op), Zeros(a)))
  <2> DEFINE quiet == Quiet(op)
             y == FrameParity(s, quiet, Zeros(a))
             u == [s EXCEPT !.detectors = Append(@, y)]
             ds == s.detectors
  <2>1. quiet.name = "DETECTOR"
    BY InstructionIs
  <2> HIDE DEF quiet
  <2>2. FrameOp(s, quiet, Zeros(a)) = {u}
    BY <2>1 DEF FrameOp, CorrelatedNoise
  <2>3. s \in Sims /\ Len(s.flips) = a.measured /\ ds \in Seq(BOOLEAN) /\ Len(ds) = k - 1
    BY <1>6, <1>7 DEF SimsAt, Sims, Looked
  <2>4. y = Parity(s.flips, op) /\ y \in BOOLEAN
    <3>1. FrameParity(s, Quiet(op), Zeros(a)) = Parity(s.flips, op)
      BY <1>4, <1>6, <1>7, FrameParityIs DEF SimsAt, Looked, c, Zeros
    <3>2. Parity(s.flips, op) \in BOOLEAN
      BY DEF Parity, Odd
    <3> QED
      BY <3>1, <3>2 DEF quiet
  <2> HIDE DEF y
  <2> DEFINE es == Append(ds, y)
             bits == Seq(BOOLEAN)
             named == Seq(Nat \X BOOLEAN)
  <2>5. /\ es \in Seq(BOOLEAN) /\ Len(es) = k /\ es[k] = y
        /\ \A i \in 1 .. (k - 1) : es[i] = ds[i]
    <3> HIDE DEF ds
    <3>1. Len(es) = (k - 1) + 1 /\ es[(k - 1) + 1] = y /\ es \in Seq(BOOLEAN)
      BY <2>3, <2>4
    <3> QED
      BY <1>2, <2>3, <2>4, <3>1
  <2>6. /\ u \in Sims /\ u.flips = s.flips /\ u.detectors = es
        /\ u.observables = s.observables /\ u.frame = s.frame
    <3>1. s \in [frame : Frames, flips : bits, detectors : bits, observables : named, corr : BOOLEAN]
      BY <2>3 DEF Sims
    <3>2. u = [s EXCEPT !.detectors = es] /\ es \in bits
      BY <2>5
    <3> HIDE DEF u, es, bits, named
    <3>3. /\ u \in [frame : Frames, flips : bits, detectors : bits, observables : named, corr : BOOLEAN]
          /\ u.flips = s.flips /\ u.detectors = es
          /\ u.observables = s.observables /\ u.frame = s.frame
      BY <3>1, <3>2
    <3> QED
      BY <3>3 DEF Sims, bits, named
  <2> HIDE DEF u, es
  <2>7. u \in SimsAt(a)
    BY <2>3, <2>5, <2>6 DEF SimsAt
  <2>8. ASSUME NEW d \in Targets
        PROVE  d \in Fired(u) <=> ~(d \in Fired(s) <=> (d = T /\ Parity(s.flips, op)))
    <3>1. CASE \E i \in Nat : d = <<"D", i>>
      <4>1. PICK i \in Nat : d = <<"D", i>>
        BY <3>1
      <4>2. d \in Fired(u) <=> i \in 1 .. k /\ es[i]
        BY <2>5, <2>6, <4>1, FiredIs
      <4>3. d \in Fired(s) <=> i \in 1 .. (k - 1) /\ ds[i]
        BY <2>3, <4>1, FiredIs
      <4>4. d = T <=> i = k
        BY <4>1 DEF T
      <4>5. i \in 1 .. k <=> i \in 1 .. (k - 1) \/ i = k
        BY <1>2
      <4>6. k \notin 1 .. (k - 1)
        BY <1>2
      <4> HIDE DEF k, ds
      <4>7. CASE i = k
        BY <2>4, <2>5, <4>2, <4>3, <4>4, <4>5, <4>6, <4>7
      <4>8. CASE i # k
        BY <2>5, <4>2, <4>3, <4>4, <4>5, <4>8
      <4> QED
        BY <4>7, <4>8
    <3>2. CASE \E i \in Nat : d = <<"L", i>>
      <4>1. PICK i \in Nat : d = <<"L", i>>
        BY <3>2
      <4>2. d \in Fired(u) <=> d \in Fired(s)
        BY <2>3, <2>6, <4>1, FiredIs
      <4>3. d # T
        BY <4>1 DEF T
      <4> QED
        BY <4>2, <4>3
    <3> QED
      BY <3>1, <3>2 DEF Targets
  <2>9. Effect(a, u) = Effect(b, s)
    BY <1>3, <1>5, <1>7, <2>6, <2>8, AnnotationCarries
  <2> QED
    BY <2>2, <2>7, <2>9 DEF Carried, quiet
<1>9. Link(op, b, a)
  BY <1>8, CarriedIsOpDual, <1>7, LosslessLinks DEF Annotations, Looked
<1>10. MeasurementsOf(op) = 0
  BY Unmeasured DEF Annotations
<1>11. b.measured = a.measured - 0
  BY <1>7, LiveParts DEF Looked
<1>12. Undid(op, a, b)
  BY <1>6, <1>7, <1>9, <1>10, <1>11 DEF Undid, Looked
<1> QED
  BY <1>1, <1>12

\* One more observable recorded.
LEMMA ObservedMore ==
  ASSUME NEW os \in Seq(Nat \X BOOLEAN), NEW k \in Nat, NEW y \in BOOLEAN, NEW i \in Nat
  PROVE  /\ Append(os, <<k, y>>) \in Seq(Nat \X BOOLEAN)
         /\ Odd(Observed(Append(os, <<k, y>>), i)) <=> ~(Odd(Observed(os, i)) <=> (i = k /\ y))
<1> DEFINE n == Len(os)
           o == <<k, y>>
           more == Append(os, o)
           A == Observed(os, i)
           B == Observed(more, i)
           C == IF i = k /\ y THEN {n + 1} ELSE {}
<1>1. o \in Nat \X BOOLEAN /\ n \in Nat
  OBVIOUS
<1>2. /\ more \in Seq(Nat \X BOOLEAN) /\ Len(more) = n + 1 /\ more[n + 1] = o
      /\ \A j \in 1 .. n : more[j] = os[j]
  <2> HIDE DEF o
  <2> QED
    BY <1>1
<1>3. o = <<i, TRUE>> <=> i = k /\ y
  OBVIOUS
<1> HIDE DEF o, more
<1>4. B = SymDiff(A, C)
  <2>1. \A j \in 1 .. (n + 1) : j = n + 1 \/ (j \in 1 .. n /\ j # n + 1)
    BY <1>1
  <2>2. \A j \in 1 .. n : j # n + 1 /\ j \in 1 .. (n + 1)
    BY <1>1
  <2>3. n + 1 \in 1 .. (n + 1) /\ n + 1 \notin 1 .. n
    BY <1>1
  <2>4. A = {j \in 1 .. n : os[j] = <<i, TRUE>>} /\ B = {j \in 1 .. (n + 1) : more[j] = <<i, TRUE>>}
    BY <1>2 DEF Observed
  <2> HIDE DEF A, B
  <2> QED
    BY <1>2, <1>3, <2>1, <2>2, <2>3, <2>4 DEF SymDiff
<1>5. IsFiniteSet(A) /\ IsFiniteSet(C) /\ (Odd(C) <=> i = k /\ y)
  <2>1. IsFiniteSet(1 .. n) /\ A \in SUBSET (1 .. n)
    BY <1>1, FirstPlaces DEF Observed
  <2>2. IsFiniteSet(A)
    <3> HIDE DEF A
    <3> QED
      BY <2>1, FS_Subset
  <2>3. Cardinality({}) = 0 /\ Cardinality({n + 1}) = 1 /\ IsFiniteSet({}) /\ IsFiniteSet({n + 1})
    BY FS_EmptySet, FS_Singleton
  <2> HIDE DEF A
  <2>4. CASE i = k /\ y
    BY <2>2, <2>3, <2>4 DEF Odd
  <2>5. CASE ~(i = k /\ y)
    <3>1. C = {}
      BY <2>5
    <3> HIDE DEF C
    <3> QED
      BY <2>2, <2>3, <2>5, <3>1 DEF Odd
  <2> QED
    BY <2>4, <2>5
<1> HIDE DEF A, B, C
<1>6. Odd(B) <=> ~(Odd(A) <=> Odd(C))
  BY <1>4, <1>5, OddSymDiff
<1> QED
  BY <1>2, <1>5, <1>6 DEF A, B, more, o

\* An observable.
LEMMA ObservableUndid ==
  ASSUME NEW op, Valid(op), op.name = "OBSERVABLE_INCLUDE", NEW a \in Live,
         WithinReach(op, a.measured)
  PROVE  Undid(op, a, UndoOp(a, op))
<1> DEFINE k == op.arg
           T == <<"L", k>>
           b == LooksBack(a, op, T)
           N == Nat \ {0}
<1>1. UndoOp(a, op) = b
  BY DEF UndoOp
<1>2. k \in Nat /\ a \in Analyses
  BY LiveParts, InstructionIs
<1>3. op.on \in Seq(N)
  BY InstructionIs, GroupsAre
<1>4. T \in Targets
  BY <1>2 DEF Targets
<1> HIDE DEF T, N
<1>5. Looked(a, op, T, b) /\ b.detector = a.detector
  BY <1>3, <1>4, LooksBackIs
<1> HIDE DEF b
<1>6. ASSUME NEW s \in SimsAt(b) PROVE Carried(b, s, a, FrameOp(s, Quiet(op), Zeros(a)))
  <2> DEFINE y == FrameParity(s, op, Zeros(a))
             os == s.observables
             u == [s EXCEPT !.observables = Append(@, <<k, y>>)]
             bits == Seq(BOOLEAN)
             named == Seq(Nat \X BOOLEAN)
  <2>1. Quiet(op) = op
    BY QuietOn
  <2>2. FrameOp(s, op, Zeros(a)) = {u}
    BY DEF FrameOp, CorrelatedNoise
  <2>3. s \in Sims /\ s \in SimsAt(a) /\ os \in Seq(Nat \X BOOLEAN)
    BY <1>5 DEF SimsAt, Sims, Looked
  <2>4. y = Parity(s.flips, op) /\ y \in BOOLEAN
    <3>1. FrameParity(s, Quiet(op), Zeros(a)) = Parity(s.flips, op)
      BY <2>3, FrameParityIs
    <3>2. Parity(s.flips, op) \in BOOLEAN
      BY DEF Parity, Odd
    <3> QED
      BY <2>1, <3>1, <3>2
  <2> HIDE DEF y
  <2> DEFINE es == Append(os, <<k, y>>)
  <2>5. /\ es \in Seq(Nat \X BOOLEAN)
        /\ \A i \in Nat : Odd(Observed(es, i)) <=> ~(Odd(Observed(os, i)) <=> (i = k /\ y))
    <3> HIDE DEF os
    <3> QED
      BY <1>2, <2>3, <2>4, ObservedMore
  <2>6. /\ u \in Sims /\ u.flips = s.flips /\ u.detectors = s.detectors
        /\ u.observables = es /\ u.frame = s.frame
    <3>1. s \in [frame : Frames, flips : bits, detectors : bits, observables : named, corr : BOOLEAN]
      BY <2>3 DEF Sims
    <3>2. u = [s EXCEPT !.observables = es] /\ es \in named
      BY <2>5
    <3> HIDE DEF u, es, bits, named
    <3>3. /\ u \in [frame : Frames, flips : bits, detectors : bits, observables : named, corr : BOOLEAN]
          /\ u.flips = s.flips /\ u.detectors = s.detectors
          /\ u.observables = es /\ u.frame = s.frame
      BY <3>1, <3>2
    <3> QED
      BY <3>3 DEF Sims, bits, named
  <2> HIDE DEF u, es
  <2>7. u \in SimsAt(a)
    BY <2>3, <2>6 DEF SimsAt
  <2>8. ASSUME NEW d \in Targets
        PROVE  d \in Fired(u) <=> ~(d \in Fired(s) <=> (d = T /\ Parity(s.flips, op)))
    <3>1. CASE \E i \in Nat : d = <<"L", i>>
      <4>1. PICK i \in Nat : d = <<"L", i>>
        BY <3>1
      <4>2. d \in Fired(u) <=> Odd(Observed(es, i))
        BY <2>6, <4>1, FiredIs
      <4>3. d \in Fired(s) <=> Odd(Observed(os, i))
        BY <2>3, <4>1, FiredIs
      <4>4. d = T <=> i = k
        BY <4>1 DEF T
      <4>5. Odd(Observed(es, i)) <=> ~(Odd(Observed(os, i)) <=> (i = k /\ y))
        BY <2>5
      <4> HIDE DEF os, k
      <4> QED
        BY <2>4, <4>2, <4>3, <4>4, <4>5
    <3>2. CASE \E i \in Nat : d = <<"D", i>>
      <4>1. PICK i \in Nat : d = <<"D", i>>
        BY <3>2
      <4>2. d \in Fired(u) <=> d \in Fired(s)
        BY <2>3, <2>6, <4>1, FiredIs
      <4>3. d # T
        BY <4>1 DEF T
      <4> QED
        BY <4>2, <4>3
    <3> QED
      BY <3>1, <3>2 DEF Targets
  <2>9. Effect(a, u) = Effect(b, s)
    BY <1>3, <1>4, <1>5, <2>6, <2>8, AnnotationCarries
  <2> QED
    BY <2>1, <2>2, <2>7, <2>9 DEF Carried
<1>7. Link(op, b, a)
  BY <1>6, CarriedIsOpDual, <1>5, LosslessLinks DEF Annotations, Looked
<1>8. MeasurementsOf(op) = 0
  BY Unmeasured DEF Annotations
<1>9. b.measured = a.measured - 0
  BY <1>5, LiveParts DEF Looked
<1>10. Undid(op, a, b)
  BY <1>5, <1>7, <1>8, <1>9 DEF Undid, Looked
<1> QED
  BY <1>1, <1>10

\* What is undone from the last group to the first takes away what they record.
LEMMA ChainUndid ==
  ASSUME NEW op, Valid(op), Reversible(op), op.name \in Stepwise, NEW a \in Live, NEW b, NEW c,
         Chain(c, op, a, b)
  PROVE  Undid(op, a, b)
<1> DEFINE n == Len(op.on)
           P == {i \in 0 .. n : /\ c[i].measured = Left(a, op, n - i)
                                /\ c[i].detector = a.detector
                                /\ Len(c[i].measurement) = Len(a.measurement)}
<1>1. n \in Nat /\ a.measured \in Nat
  BY InstructionIs, LiveParts
<1>2. n \in P
  <2>1. n \in 0 .. n /\ n - n = 0 /\ c[n] = a
    BY <1>1 DEF Chain
  <2>2. Left(a, op, 0) = a.measured
    BY <1>1 DEF Left
  <2> HIDE DEF n
  <2> QED
    BY <2>1, <2>2
<1>3. ASSUME NEW i \in 1 .. n, i \in P PROVE i - 1 \in P
  <2> DEFINE j == n - i
  <2>1. i - 1 \in 0 .. n /\ n - (i - 1) = j + 1 /\ j \in Nat
    BY <1>1
  <2>2. Undoes(op, op.on[i], c[i], c[i - 1])
    BY DEF Chain
  <2>3. /\ c[i - 1].measured = IF op.name \in Recorders THEN c[i].measured - 1 ELSE c[i].measured
        /\ c[i - 1].detector = c[i].detector
        /\ Len(c[i - 1].measurement) = Len(c[i].measurement)
    BY <2>2 DEF Undoes
  <2>4. c[i].measured = Left(a, op, j) /\ c[i].detector = a.detector
        /\ Len(c[i].measurement) = Len(a.measurement)
    BY <1>3
  <2>5. c[i - 1].measured = Left(a, op, j + 1)
    <3> HIDE DEF j
    <3> QED
      BY <1>1, <2>1, <2>3, <2>4 DEF Left
  <2> HIDE DEF j, n
  <2> QED
    BY <2>1, <2>3, <2>4, <2>5
<1> HIDE DEF P
<1>4. 0 \in P
  <2>1. \A i \in 0 .. n : i \in P
    <3> HIDE DEF n
    <3> QED
      BY <1>1, <1>2, <1>3, Backward
  <2> QED
    BY <1>1, <2>1
<1>5. /\ c[0].measured = Left(a, op, n) /\ c[0].detector = a.detector
      /\ Len(c[0].measurement) = Len(a.measurement)
  BY <1>1, <1>4 DEF P
<1>6. c[0] = b /\ b \in Live
  BY <1>1 DEF Chain
<1>7. Left(a, op, n) = a.measured - MeasurementsOf(op)
  BY <1>1 DEF MeasurementsOf, Left, Recorders
<1>8. op.name # "DETECTOR"
  BY DEF Stepwise, Annotations
<1>9. Link(op, b, a)
  BY ChainLinks
<1> QED
  BY <1>5, <1>6, <1>7, <1>8, <1>9 DEF Undid

\* Correlated noise, which does not occur.
LEMMA AlikeUndid ==
  ASSUME NEW op, Valid(op), op.name \in CorrelatedNoise, NEW a \in Live, NEW b \in Live,
         Alike(b, a)
  PROVE  Undid(op, a, b)
<1>1. MeasurementsOf(op) = 0 /\ op.name # "DETECTOR"
  BY Unmeasured DEF CorrelatedNoise
<1>2. Link(op, b, a)
  BY CorrelatedLinks
<1>3. a.measured \in Nat
  BY LiveParts
<1> QED
  BY <1>1, <1>2, <1>3 DEF Undid, Alike

\* A tick.
LEMMA TickUndid ==
  ASSUME NEW op, Valid(op), op.name = "TICK", NEW a \in Live
  PROVE  Undid(op, a, a)
<1>1. MeasurementsOf(op) = 0
  BY Unmeasured DEF Annotations
<1>2. Link(op, a, a)
  BY TickLinks
<1>3. a.measured \in Nat
  BY LiveParts
<1> QED
  BY <1>1, <1>2, <1>3 DEF Undid

\* A correlated error.
LEMMA ErrorUndid ==
  ASSUME NEW op, Valid(op), op.name \in CorrelatedNoise, NEW a \in Live
  PROVE  /\ Undid(op, a, a)
         /\ \A errors \in SUBSET SUBSET Targets : Undid(op, a, Emit(a, errors))
<1>1. Alike(a, a)
  BY DEF Alike, SameAt
<1>2. ASSUME NEW errors \in SUBSET SUBSET Targets PROVE Undid(op, a, Emit(a, errors))
  BY EmitIs, AlikeUndid
<1> QED
  BY <1>1, <1>2, AlikeUndid

\* An instruction, undone by an analysis that goes on, is taken away from what the analysis senses
\* as it adds to what a frame fires.
THEOREM InstructionsUndone ==
  ASSUME NEW op, Valid(op), Reversible(op), op.name # "ELSE_CORRELATED_ERROR",
         NEW a \in Live, Supplied(op, a), UndoOp(a, op).outcome = "analyzing"
  PROVE  Undid(op, a, UndoOp(a, op))
<1>1. CASE op.name \in Stepwise
  BY LiveParts, <1>1, OpChain, ChainUndid DEF Left, Supplied, MeasurementsOf, Recorders
<1>2. CASE op.name = "DETECTOR"
  BY <1>2, DetectorUndid DEF Supplied
<1>3. CASE op.name = "OBSERVABLE_INCLUDE"
  BY <1>3, ObservableUndid DEF Supplied
<1>4. CASE op.name = "TICK"
  BY <1>4, TickUndid DEF UndoOp
<1>5. CASE op.name = "E"
  <2>1. UndoOp(a, op) = IF op.arg > 0 THEN Emit(a, {Correlated(a, op)}) ELSE a
    BY <1>5 DEF UndoOp
  <2>2. op.name \in CorrelatedNoise
    BY <1>5 DEF CorrelatedNoise
  <2>3. op.on \in Seq(Qubits \X Bases)
    BY <2>2, InstructionIs, GroupsAre
  <2>4. Correlated(a, op) \in SUBSET Targets
    BY <2>3, CorrelatedIs, LiveParts
  <2> QED
    BY <2>1, <2>2, <2>4, ErrorUndid
<1> QED
  BY <1>1, <1>2, <1>3, <1>4, <1>5, InstructionIs DEF Stepwise, CorrelatedNoise, Annotations

\* An error and its one else branch.
LEMMA BlocksUndone ==
  ASSUME NEW block, Len(block) = 2, DOMAIN block = {1, 2},
         \A i \in {1, 2} : Valid(block[i]) /\ block[i].name \in CorrelatedNoise,
         NEW a \in Live
  PROVE  Undid(block[2], a, a) /\ Undid(block[1], a, UndoBlock(a, block))
<1> DEFINE errors == {Correlated(a, block[i]) : i \in {j \in DOMAIN block : block[j].arg > 0}}
<1>1. UndoBlock(a, block) = Emit(a, errors)
  BY DEF UndoBlock
<1>2. ASSUME NEW i \in {1, 2} PROVE Correlated(a, block[i]) \in SUBSET Targets
  <2> DEFINE op == block[i]
  <2>1. Valid(op) /\ op.name \in CorrelatedNoise
    OBVIOUS
  <2> HIDE DEF op
  <2>2. op.on \in Seq(Qubits \X Bases)
    <3>1. op.on \in Seq(Groups(op.name))
      BY <2>1, InstructionIs
    <3>2. Groups(op.name) = Qubits \X Bases
      BY <2>1, GroupsAre, InstructionIs
    <3> QED
      BY <3>1, <3>2
  <2>3. Correlated(a, op) \in SUBSET Targets
    BY <2>2, CorrelatedIs, LiveParts
  <2> QED
    BY <2>3 DEF op
<1>3. errors \in SUBSET SUBSET Targets
  BY <1>2
<1> HIDE DEF errors
<1> QED
  BY <1>1, <1>3, ErrorUndid

(***************************************************************************)
(* The measurements of a circuit's beginnings.                             *)
(***************************************************************************)

\* They are what CountMeasurements comes to.
LEMMA Tallied ==
  ASSUME NEW T, NEW ops \in Seq(T), \A i \in 1 .. Len(ops) : MeasurementsOf(ops[i]) \in Nat
  PROVE  \E v : Tally(v, Len(ops), ops) /\ CountMeasurements(ops) = v[Len(ops)]
<1> DEFINE n == Len(ops)
           U == Nat
           V == [A \in SUBSET (1 .. n) |-> U]
           With(y, i) == y + MeasurementsOf(ops[i])
           step == [k \in 1 .. n |-> [y \in U |-> With(y, k)]]
           Is(g) == g = [A \in SUBSET (1 .. n) |->
                           IF A = {} THEN 0
                           ELSE LET x == Max(A)
                                IN g[A \ {x}] + MeasurementsOf(ops[x])]
           it == CHOOSE g : Is(g)
<1>1. n \in Nat /\ DOMAIN ops = 1 .. n
  OBVIOUS
<1>2. \A i \in 1 .. n : \A y \in U : With(y, i) \in U
  OBVIOUS
<1>3. \A i \in 1 .. n : \A y \in U : step[i][y] = With(y, i) /\ step[i][y] \in U
  BY <1>2
<1>4. CountMeasurements(ops) = it[1 .. n]
  BY <1>1 DEF CountMeasurements, FoldLeft, MapThenFoldSet
<1>5. 0 \in V[{}] /\ \A A \in SUBSET (1 .. n) : V[A] = U
  BY <1>1
<1>6. ASSUME NEW A \in SUBSET (1 .. n), A # {}
      PROVE  \A y \in V[A \ {Max(A)}] : step[Max(A)][y] \in V[A]
  <2>1. Max(A) \in 1 .. n
    BY <1>1, <1>6, LastPlace
  <2> HIDE DEF step, U, V
  <2> QED
    BY <1>3, <1>5, <2>1
<1> HIDE DEF n, step, U, V
<1>7. PICK f, v : FoldTrace(f, v, n, V, 0, step)
  BY <1>1, <1>5, <1>6, FoldsFromLeft
<1>8. \A A \in SUBSET (1 .. n) : f[A] = IF A = {} THEN 0 ELSE With(f[A \ {Max(A)}], Max(A))
  <2> SUFFICES ASSUME NEW A \in SUBSET (1 .. n)
               PROVE  f[A] = IF A = {} THEN 0 ELSE With(f[A \ {Max(A)}], Max(A))
    OBVIOUS
  <2>1. CASE A = {}
    BY <1>7, <2>1 DEF FoldTrace
  <2>2. CASE A # {}
    <3> DEFINE B == A \ {Max(A)}
    <3>1. Max(A) \in 1 .. n /\ B \in SUBSET (1 .. n)
      BY <1>1, <2>2, LastPlace
    <3>2. f[A] = step[Max(A)][f[B]] /\ f[B] \in U
      BY <1>5, <1>7, <2>2, <3>1 DEF FoldTrace
    <3> HIDE DEF B, With
    <3>3. f[A] = With(f[B], Max(A))
      BY <1>3, <3>1, <3>2
    <3> QED
      BY <2>2, <3>3 DEF B
  <2> QED
    BY <2>1, <2>2
<1>9. Is(f)
  <2>1. f = [A \in SUBSET (1 .. n) |-> f[A]]
    BY <1>7 DEF FoldTrace
  <2> QED
    BY <1>8, <2>1
<1>10. Is(it)
  <2> HIDE DEF Is
  <2> QED
    BY <1>9
<1> HIDE DEF it
<1>11. GoesOnAs(f, it, n)
  BY <1>8, <1>10 DEF GoesOnAs
<1>12. CountMeasurements(ops) = v[n]
  BY <1>4, <1>7, <1>11 DEF FoldTrace
<1>13. \A i \in 0 .. n : v[i] \in U
  BY <1>1, <1>5, <1>7 DEF FoldTrace
<1>14. ASSUME NEW i \in 1 .. n PROVE v[i] = v[i - 1] + MeasurementsOf(ops[i])
  <2>1. i - 1 \in 0 .. n
    BY <1>1
  <2>2. v[i] = step[i][v[i - 1]] /\ v[i - 1] \in U
    BY <1>7, <1>13, <2>1 DEF FoldTrace, Trace
  <2> QED
    BY <1>3, <2>2
<1>15. v[0] = 0
  BY <1>7 DEF FoldTrace, Trace
<1>16. Tally(v, n, ops)
  BY <1>13, <1>14, <1>15 DEF Tally, U
<1> QED
  BY <1>12, <1>16 DEF n

\* There is but one tally of a beginning.
LEMMA TalliesAgree ==
  ASSUME NEW n \in Nat, NEW k \in 0 .. n, NEW v, NEW w, NEW ops, NEW first,
         Tally(v, n, ops), Tally(w, k, first), \A i \in 1 .. k : first[i] = ops[i]
  PROVE  v[k] = w[k]
<1> DEFINE D == {i \in Nat : i <= k => v[i] = w[i]}
<1>1. 0 \in D
  BY DEF Tally
<1>2. ASSUME NEW i \in Nat, i \in D PROVE i + 1 \in D
  <2> SUFFICES ASSUME i + 1 <= k PROVE v[i + 1] = w[i + 1]
    OBVIOUS
  <2>1. i + 1 \in 1 .. k /\ i + 1 \in 1 .. n /\ (i + 1) - 1 = i
    OBVIOUS
  <2>2. v[i] = w[i] /\ first[i + 1] = ops[i + 1]
    BY <1>2, <2>1
  <2>3. /\ v[i + 1] = v[(i + 1) - 1] + MeasurementsOf(ops[i + 1])
        /\ w[i + 1] = w[(i + 1) - 1] + MeasurementsOf(first[i + 1])
    BY <2>1 DEF Tally
  <2> QED
    BY <2>1, <2>2, <2>3
<1> HIDE DEF D
<1>3. Nat \subseteq D
  BY <1>1, <1>2, NaturalInduction
<1> QED
  BY <1>3 DEF D

\* What instructions measure.
LEMMA MeasurementsAreCounted ==
  ASSUME NEW op, Valid(op)
  PROVE  /\ MeasurementsOf(op) \in Nat
         /\ op.name \in CorrelatedNoise \cup Annotations => MeasurementsOf(op) = 0
<1>1. Len(op.on) \in Nat
  BY InstructionIs
<1> QED
  BY <1>1, Unmeasured DEF MeasurementsOf

\* There are such counts of every circuit of valid instructions.
LEMMA CircuitCounts ==
  ASSUME NEW T, NEW ops \in Seq(T), \A i \in 1 .. Len(ops) : Valid(ops[i])
  PROVE  \E v : Counts(v, ops)
<1>1. \A i \in 1 .. Len(ops) : MeasurementsOf(ops[i]) \in Nat
  BY MeasurementsAreCounted
<1>2. PICK v : Tally(v, Len(ops), ops) /\ CountMeasurements(ops) = v[Len(ops)]
  BY <1>1, Tallied
<1>3. ASSUME NEW k \in 0 .. Len(ops) PROVE CountMeasurements(SubSeq(ops, 1, k)) = v[k]
  <2> DEFINE first == SubSeq(ops, 1, k)
  <2>1. first \in Seq(T) /\ Len(first) = k /\ \A i \in 1 .. k : first[i] = ops[i]
    OBVIOUS
  <2>2. \A i \in 1 .. k : MeasurementsOf(first[i]) \in Nat
    BY <1>1, <2>1
  <2> HIDE DEF first
  <2>3. PICK w : Tally(w, k, first) /\ CountMeasurements(first) = w[k]
    BY <2>1, <2>2, Tallied
  <2>4. v[k] = w[k]
    BY <1>2, <2>1, <2>3, TalliesAgree
  <2> QED
    BY <2>3, <2>4 DEF first
<1> QED
  BY <1>2, <1>3 DEF Counts

\* A detector adds one to their number.
LEMMA DetectorsCounted ==
  ASSUME NEW ops, NEW k \in Nat
  PROVE  /\ Cardinality(Detectors(ops, k)) \in Nat
         /\ k > 0 => Cardinality(Detectors(ops, k))
                       = IF ops[k].name = "DETECTOR" THEN Cardinality(Detectors(ops, k - 1)) + 1
                         ELSE Cardinality(Detectors(ops, k - 1))
<1>1. ASSUME NEW j \in Nat
      PROVE  IsFiniteSet(Detectors(ops, j)) /\ Cardinality(Detectors(ops, j)) \in Nat
  <2>1. IsFiniteSet(1 .. j) /\ Detectors(ops, j) \subseteq 1 .. j
    BY FS_Interval DEF Detectors
  <2> QED
    BY <2>1, FS_Subset, FS_CardinalityType
<1>2. ASSUME k > 0, ops[k].name = "DETECTOR"
      PROVE  Cardinality(Detectors(ops, k)) = Cardinality(Detectors(ops, k - 1)) + 1
  <2>1. Detectors(ops, k) = Detectors(ops, k - 1) \cup {k} /\ k \notin Detectors(ops, k - 1)
    BY <1>2 DEF Detectors
  <2>2. k - 1 \in Nat
    BY <1>2
  <2> QED
    BY <1>1, <2>1, <2>2, FS_AddElement
<1>3. ASSUME k > 0, ops[k].name # "DETECTOR"
      PROVE  Detectors(ops, k) = Detectors(ops, k - 1)
  BY <1>3 DEF Detectors
<1> QED
  BY <1>1, <1>2, <1>3

(***************************************************************************)
(* A circuit, undone.                                                      *)
(***************************************************************************)

\* A valid circuit.
LEMMA CircuitIs ==
  ASSUME NEW ops, ValidCircuit(ops)
  PROVE  /\ ops \in Seq(Range(ops)) /\ Len(ops) \in Nat \ {0} /\ DOMAIN ops = 1 .. Len(ops)
         /\ \A i \in 1 .. Len(ops) :
              Valid(ops[i]) /\ LooksBackWithin(ops[i], CountMeasurements(SubSeq(ops, 1, i - 1)))
         /\ \E v : Counts(v, ops)
<1>1. ops \in Seq(Range(ops)) /\ Len(ops) \in Nat \ {0} /\ DOMAIN ops = 1 .. Len(ops)
  BY DEF ValidCircuit
<1>2. \A i \in 1 .. Len(ops) :
        Valid(ops[i]) /\ LooksBackWithin(ops[i], CountMeasurements(SubSeq(ops, 1, i - 1)))
  BY <1>1 DEF ValidCircuit
<1> QED
  BY <1>1, <1>2, CircuitCounts

\* An analysis begins with all of the circuit's measurements and detectors.
LEMMA NewAnalysisFits ==
  ASSUME NEW ops, ValidCircuit(ops)
  PROVE  Fits(NewAnalysis(ops), ops, Len(ops))
<1>1. Len(ops) \in Nat /\ DOMAIN ops = 1 .. Len(ops)
  BY CircuitIs
<1>2. PICK v : Counts(v, ops)
  BY CircuitIs
<1> DEFINE n == CountMeasurements(ops)
           d == Cardinality(Detectors(ops, Len(ops)))
           a == NewAnalysis(ops)
           none == [q \in Qubits |-> {}]
           silent == [m \in 1 .. n |-> {}]
<1>3. n \in Nat /\ CountMeasurements(SubSeq(ops, 1, Len(ops))) = n
  BY <1>1, <1>2 DEF Counts, Tally
<1>4. d \in Nat
  BY <1>1, DetectorsCounted
<1>5. {i \in DOMAIN ops : ops[i].name = "DETECTOR"} = Detectors(ops, Len(ops))
  BY <1>1 DEF Detectors
<1>6. a = [x |-> none, z |-> none, measurement |-> silent, measured |-> n, detector |-> d,
           errors |-> {}, outcome |-> "analyzing"]
  BY <1>5 DEF NewAnalysis
<1> HIDE DEF n, d, a
<1>7. none \in [Qubits -> SUBSET Targets]
  OBVIOUS
<1>8. silent \in Seq(SUBSET Targets) /\ Len(silent) = n
  BY <1>3
<1> HIDE DEF none, silent
<1> DEFINE named == Seq(SUBSET Targets)
           errors == SUBSET SUBSET Targets
           sensed == [Qubits -> SUBSET Targets]
<1>9. {} \in errors
  OBVIOUS
<1>10. none \in sensed /\ silent \in named
  BY <1>7, <1>8
<1> HIDE DEF named, errors, sensed
<1>11. /\ a \in [x : sensed, z : sensed, measurement : named, measured : Nat, detector : Nat,
                 errors : errors, outcome : {"analyzing", "accepted", "gauge", "unsupported"}]
       /\ a.outcome = "analyzing" /\ a.measured = n /\ a.measurement = silent /\ a.detector = d
  BY <1>3, <1>4, <1>6, <1>9, <1>10
<1>12. a \in Analyses
  BY <1>11 DEF Analyses, named, errors, sensed
<1>13. a \in Live
  BY <1>3, <1>8, <1>11, <1>12 DEF Live
<1> QED
  BY <1>3, <1>8, <1>11, <1>13 DEF Fits, a, d, n

\* What the next instruction to be undone records and looks back at is there.
LEMMA FitsSupplied ==
  ASSUME NEW ops, ValidCircuit(ops), NEW k \in 1 .. Len(ops), NEW a, Fits(a, ops, k)
  PROVE  Supplied(ops[k], a)
<1> DEFINE op == ops[k]
           m == MeasurementsOf(op)
<1>1. Len(ops) \in Nat /\ Valid(op) /\ LooksBackWithin(op, CountMeasurements(SubSeq(ops, 1, k - 1)))
  BY CircuitIs
<1>2. PICK v : Counts(v, ops)
  BY CircuitIs
<1>3. k - 1 \in 0 .. Len(ops) /\ k \in 0 .. Len(ops) /\ k \in Nat /\ k - 1 \in Nat
  BY <1>1
<1>4. /\ a.measured = v[k - 1] + m /\ v[k - 1] \in Nat
      /\ CountMeasurements(SubSeq(ops, 1, k - 1)) = v[k - 1]
  BY <1>2, <1>3 DEF Counts, Tally, Fits
<1>5. m \in Nat /\ (op.name \in CorrelatedNoise \cup Annotations => m = 0)
  BY <1>1, MeasurementsAreCounted
<1>6. ASSUME op.name = "DETECTOR" PROVE a.detector > 0
  BY <1>3, <1>6, DetectorsCounted DEF Fits
<1>7. ASSUME op.name \in {"DETECTOR", "OBSERVABLE_INCLUDE"} PROVE WithinReach(op, a.measured)
  <2>1. m = 0
    BY <1>5, <1>7 DEF Annotations
  <2>2. op.on \in Seq(Nat \ {0})
    <3>1. op.on \in Seq(Groups(op.name)) /\ op.name \in InstructionNames
      BY <1>1, InstructionIs
    <3>2. Groups(op.name) = Nat \ {0}
      BY <1>7, <3>1, GroupsAre
    <3> QED
      BY <3>1, <3>2
  <2>3. \A i \in 1 .. Len(op.on) : op.on[i] <= v[k - 1]
    <3>1. DOMAIN op.on = 1 .. Len(op.on)
      BY <2>2
    <3> HIDE DEF op
    <3> QED
      BY <1>1, <1>4, <1>7, <3>1 DEF LooksBackWithin
  <2> HIDE DEF op, m
  <2>4. ASSUME NEW i \in 1 .. Len(op.on) PROVE op.on[i] \in 1 .. a.measured
    BY <2>2, <1>4, <2>1, <2>3
  <2> QED
    BY <2>4 DEF WithinReach
<1>8. a.measured >= m
  BY <1>4, <1>5
<1> QED
  BY <1>6, <1>7, <1>8 DEF Supplied

\* What the undoing of an instruction leaves is what it ought to.
LEMMA UndidFits ==
  ASSUME NEW ops, ValidCircuit(ops), NEW k \in 1 .. Len(ops), NEW a, Fits(a, ops, k),
         NEW b, Undid(ops[k], a, b)
  PROVE  Fits(b, ops, k - 1)
<1> DEFINE op == ops[k]
           m == MeasurementsOf(op)
<1>1. Len(ops) \in Nat /\ Valid(op)
  BY CircuitIs
<1>2. PICK v : Counts(v, ops)
  BY CircuitIs
<1>3. k - 1 \in 0 .. Len(ops) /\ k \in 0 .. Len(ops) /\ k \in Nat /\ k - 1 \in Nat
  BY <1>1
<1>4. /\ a.measured = v[k - 1] + m /\ v[k - 1] \in Nat
      /\ CountMeasurements(SubSeq(ops, 1, k - 1)) = v[k - 1]
  BY <1>2, <1>3 DEF Counts, Tally, Fits
<1>5. m \in Nat
  BY <1>1, MeasurementsAreCounted
<1>6. b.measured = v[k - 1]
  <2>1. b.measured = a.measured - m
    BY DEF Undid
  <2> HIDE DEF m
  <2> QED
    BY <1>4, <1>5, <2>1
<1>7. b.detector = Cardinality(Detectors(ops, k - 1))
  <2>1. b.detector = IF op.name = "DETECTOR" THEN a.detector - 1 ELSE a.detector
    BY DEF Undid
  <2>2. /\ Cardinality(Detectors(ops, k)) = IF op.name = "DETECTOR"
                                            THEN Cardinality(Detectors(ops, k - 1)) + 1
                                            ELSE Cardinality(Detectors(ops, k - 1))
        /\ Cardinality(Detectors(ops, k - 1)) \in Nat
    BY <1>3, DetectorsCounted
  <2>3. a.detector = Cardinality(Detectors(ops, k))
    BY DEF Fits
  <2> HIDE DEF op
  <2> QED
    BY <2>1, <2>2, <2>3
<1> QED
  BY <1>4, <1>6, <1>7 DEF Undid, Fits

\* One more instruction undone.
LEMMA HistoryGrows ==
  ASSUME NEW ops, ValidCircuit(ops), NEW p \in 1 .. Len(ops), NEW a, NEW c, History(c, ops, p, a),
         NEW b, Undid(ops[p], a, b)
  PROVE  \E d : History(d, ops, p - 1, b)
<1> DEFINE n == Len(ops)
           d == [k \in p - 1 .. n |-> IF k = p - 1 THEN b ELSE c[k]]
<1>1. n \in Nat /\ p \in Nat /\ p - 1 \in Nat /\ p <= n
  BY CircuitIs
<1>2. Fits(b, ops, p - 1)
  BY <1>1, UndidFits DEF History
<1>3. d[p - 1] = b /\ \A k \in p .. n : d[k] = c[k]
  BY <1>1
<1> HIDE DEF d
<1>4. \A k \in p - 1 .. n : Fits(d[k], ops, k)
  BY <1>1, <1>2, <1>3 DEF History
<1>5. ASSUME NEW k \in p .. n PROVE Link(ops[k], d[k - 1], d[k])
  BY <1>1, <1>3 DEF History, Undid
<1>6. d[n] = NewAnalysis(ops)
  BY <1>1, <1>3 DEF History
<1>7. (p - 1) + 1 = p
  BY <1>1
<1>8. History(d, ops, p - 1, b)
  BY <1>3, <1>4, <1>5, <1>6, <1>7 DEF History
<1> QED
  BY <1>8

\* What remains of a circuit is undone in reverse if each instruction of it is.
LEMMA RemainderReversible ==
  ASSUME NEW ops, ValidCircuit(ops), NEW p \in 0 .. Len(ops)
  PROVE  /\ Len(SubSeq(ops, p + 1, Len(ops))) = Len(ops) - p
         /\ \A i \in 1 .. Len(ops) - p : SubSeq(ops, p + 1, Len(ops))[i] = ops[p + i]
         /\ UndoneInReverse(SubSeq(ops, p + 1, Len(ops)))
              <=> \A k \in p + 1 .. Len(ops) : Reversible(ops[k])
<1> DEFINE n == Len(ops)
           rest == SubSeq(ops, p + 1, n)
<1>1. n \in Nat /\ p \in Nat /\ p <= n /\ ops \in Seq(Range(ops))
  BY CircuitIs
<1>2. /\ Len(rest) = n - p /\ DOMAIN rest = 1 .. n - p
      /\ \A i \in 1 .. n - p : rest[i] = ops[p + i]
  BY <1>1
<1> HIDE DEF rest
<1>3. UndoneInReverse(rest) <=> \A i \in 1 .. n - p : Reversible(rest[i])
  BY <1>2 DEF UndoneInReverse, Reversible
<1>4. (\A i \in 1 .. n - p : Reversible(rest[i])) <=> \A k \in p + 1 .. n : Reversible(ops[k])
  <2>1. ASSUME \A i \in 1 .. n - p : Reversible(rest[i]), NEW k \in p + 1 .. n
        PROVE  Reversible(ops[k])
    <3>1. k - p \in 1 .. n - p /\ p + (k - p) = k
      BY <1>1
    <3> QED
      BY <1>2, <2>1, <3>1
  <2>2. ASSUME \A k \in p + 1 .. n : Reversible(ops[k]), NEW i \in 1 .. n - p
        PROVE  Reversible(rest[i])
    <3>1. p + i \in p + 1 .. n
      BY <1>1
    <3> QED
      BY <1>2, <2>2, <3>1
  <2> QED
    BY <2>1, <2>2
<1> QED
  BY <1>2, <1>3, <1>4 DEF rest

\* The last of some numbers from 0 on.
LEMMA LastOfSome ==
  ASSUME NEW n \in Nat, NEW A \in SUBSET (0 .. n), A # {}
  PROVE  Max(A) \in A
<1> DEFINE B == {n - x : x \in A}
<1>1. \A x \in A : x \in Nat /\ n - x \in Nat
  OBVIOUS
<1>2. B \in SUBSET Nat /\ B # {}
  BY <1>1
<1>3. PICK y \in B : \A z \in B : y <= z
  BY <1>2, LeastNatural
<1>4. PICK x \in A : y = n - x
  BY <1>3
<1>5. ASSUME NEW z \in A PROVE x >= z
  <2>1. n - z \in B
    OBVIOUS
  <2>2. n - x <= n - z
    BY <1>3, <1>4, <2>1
  <2> QED
    BY <1>1, <2>2
<1> QED
  BY <1>5 DEF Max

\* It begins so.
LEMMA AnalysisBegins ==
  ASSUME NEW ops, ValidCircuit(ops)
  PROVE  Analyzed(ops, Len(ops), NewAnalysis(ops))
<1> DEFINE n == Len(ops)
           c == [k \in {n} |-> NewAnalysis(ops)]
<1>1. n \in Nat
  BY CircuitIs
<1>2. c[n] = NewAnalysis(ops) /\ Fits(NewAnalysis(ops), ops, n)
  BY NewAnalysisFits
<1> HIDE DEF c
<1>3. (\A k \in n .. n : k = n) /\ n + 1 .. n = {}
  BY <1>1
<1>4. History(c, ops, n, NewAnalysis(ops))
  BY <1>2, <1>3 DEF History
<1>5. NewAnalysis(ops).outcome = "analyzing"
  BY DEF NewAnalysis
<1> QED
  BY <1>4, <1>5 DEF Analyzed

\* An instruction undone, if the analysis goes on.
LEMMA AnalysisGoesOn ==
  ASSUME NEW ops, ValidCircuit(ops), NEW p \in 1 .. Len(ops), NEW a, Analyzed(ops, p, a),
         ops[p].name # "ELSE_CORRELATED_ERROR", UndoOp(a, ops[p]).outcome = "analyzing"
  PROVE  Analyzed(ops, p - 1, UndoOp(a, ops[p]))
<1> DEFINE op == ops[p]
           b == UndoOp(a, op)
           n == Len(ops)
<1>1. n \in Nat /\ p \in Nat /\ p - 1 \in 0 .. n /\ p \in 0 .. n /\ (p - 1) + 1 = p /\ Valid(op)
  BY CircuitIs
<1>2. ASSUME UndoneInReverse(SubSeq(ops, (p - 1) + 1, n)) PROVE \E d : History(d, ops, p - 1, b)
  <2>1. \A k \in p .. n : Reversible(ops[k])
    BY <1>1, <1>2, RemainderReversible
  <2>2. UndoneInReverse(SubSeq(ops, p + 1, n))
    BY <1>1, <2>1, RemainderReversible
  <2>3. PICK c : History(c, ops, p, a)
    BY <2>2 DEF Analyzed
  <2>4. Fits(a, ops, p) /\ p \in p .. n
    BY <1>1, <2>3 DEF History
  <2>5. a \in Live /\ Supplied(op, a)
    BY <2>4, FitsSupplied DEF Fits
  <2>6. Reversible(op)
    BY <1>1, <2>1
  <2>7. Undid(op, a, b)
    <3> HIDE DEF op
    <3> QED
      BY <1>1, <2>5, <2>6, InstructionsUndone DEF op
  <2> HIDE DEF b
  <2> QED
    BY <2>3, <2>7, HistoryGrows
<1> QED
  BY <1>2 DEF Analyzed

\* A block of an error and an else branch undone, if the analysis goes on.
LEMMA BlockGoesOn ==
  ASSUME NEW ops, ValidCircuit(ops), NEW p \in 1 .. Len(ops), NEW a, Analyzed(ops, p, a),
         ops[p].name = "ELSE_CORRELATED_ERROR", NEW start \in 1 .. p, ops[start].name = "E",
         UndoBlock(a, SubSeq(ops, start, p)).outcome = "analyzing"
  PROVE  Analyzed(ops, start - 1, UndoBlock(a, SubSeq(ops, start, p)))
<1> DEFINE block == SubSeq(ops, start, p)
           b == UndoBlock(a, block)
           n == Len(ops)
<1>1. n \in Nat /\ p \in Nat /\ start \in Nat /\ p <= n /\ start < p /\ ops \in Seq(Range(ops))
  BY CircuitIs
<1>2. Len(block) = p + 1 - start /\ \A i \in 1 .. p + 1 - start : block[i] = ops[start + i - 1]
  BY <1>1
<1>3. Len(block) <= 2
  BY DEF UndoBlock
<1>4. start = p - 1 /\ Len(block) = 2 /\ block[1] = ops[p - 1] /\ block[2] = ops[p]
  BY <1>1, <1>2, <1>3
<1>5. DOMAIN block = {1, 2}
  BY <1>1, <1>4
<1> HIDE DEF block
<1>6. p - 1 \in 1 .. n /\ p - 2 \in 0 .. n /\ p \in 0 .. n /\ (p - 2) + 1 = p - 1 /\ start - 1 = p - 2
  BY <1>1, <1>4
<1>7. Valid(block[1]) /\ Valid(block[2])
  BY <1>4, <1>6, CircuitIs
<1>8. block[1].name \in CorrelatedNoise /\ block[2].name \in CorrelatedNoise
  BY <1>4 DEF CorrelatedNoise
<1>9. ASSUME UndoneInReverse(SubSeq(ops, (p - 2) + 1, n)) PROVE \E d : History(d, ops, p - 2, b)
  <2>1. \A k \in p - 1 .. n : Reversible(ops[k])
    BY <1>6, <1>9, RemainderReversible
  <2>2. UndoneInReverse(SubSeq(ops, p + 1, n))
    BY <1>1, <2>1, <1>6, RemainderReversible
  <2>3. PICK c : History(c, ops, p, a)
    BY <2>2 DEF Analyzed
  <2>4. a \in Live
    BY <1>1, <2>3 DEF History, Fits
  <2>5. Undid(ops[p], a, a) /\ Undid(ops[p - 1], a, b)
    BY <1>4, <1>5, <1>7, <1>8, <2>4, BlocksUndone
  <2>6. PICK d : History(d, ops, p - 1, a)
    BY <2>3, <2>5, HistoryGrows
  <2> HIDE DEF b
  <2>7. \E e : History(e, ops, (p - 1) - 1, b)
    BY <1>6, <2>5, <2>6, HistoryGrows
  <2>8. (p - 1) - 1 = p - 2
    BY <1>1
  <2> QED
    BY <2>7, <2>8
<1> QED
  BY <1>6, <1>9 DEF Analyzed, block

\* It is so before the run begins.
LEMMA StartsAnalyzed == Init => AnalysisInvariance
BY CircuitsAreValid DEF Init, AnalysisInvariance

\* Whatever is done, the analysis goes on as it should, or not at all.
LEMMA StepsKeepAnalyzed == AnalysisInvariance /\ [Next]_vars => AnalysisInvariance'
<1> SUFFICES ASSUME AnalysisInvariance, [Next]_vars PROVE AnalysisInvariance'
  OBVIOUS
<1>1. ValidCircuit(circuit) /\ Len(circuit) \in Nat \ {0}
  BY CircuitIs DEF AnalysisInvariance
<1>2. ASSUME stage \in {"reference", "shots", "frames"}, NEW next \in {"shots", "frames", "analysis"},
             Proceed(next), UNCHANGED <<circuit, analysis>>
      PROVE  AnalysisInvariance'
  BY <1>2, <1>1, AnalysisBegins DEF AnalysisInvariance, Proceed
<1>3. ASSUME NEW a, NEW n \in 1 .. pc, stage = "analysis", Undone(a, n),
             a.outcome = "analyzing" => Analyzed(circuit, pc - n, a)
      PROVE  AnalysisInvariance'
  BY <1>3, <1>1 DEF Undone, AnalysisInvariance
<1>4. CASE RefSample
  BY <1>2, <1>4 DEF RefSample
<1>5. CASE Execute
  <2>1. PICK next \in {"analysis", "frames"} : Proceed(next)
    BY <1>5 DEF Execute
  <2> QED
    BY <1>2, <1>5, <2>1 DEF Execute
<1>6. CASE RunFrames
  BY <1>2, <1>6 DEF RunFrames
<1>7. ASSUME stage = "analysis"
      PROVE  pc \in 1 .. Len(circuit) /\ pc \in Nat \ {0} /\ Analyzed(circuit, pc, analysis)
  BY <1>1, <1>7 DEF AnalysisInvariance
<1>8. CASE Undo
  <2> DEFINE a == UndoOp(analysis, circuit[pc])
  <2>1. stage = "analysis" /\ Undone(a, 1) /\ circuit[pc].name # "ELSE_CORRELATED_ERROR"
    BY <1>8 DEF Undo
  <2>2. 1 \in 1 .. pc
    BY <1>7, <2>1
  <2>3. a.outcome = "analyzing" => Analyzed(circuit, pc - 1, a)
    BY <1>1, <1>7, <2>1, AnalysisGoesOn
  <2> HIDE DEF a
  <2> QED
    BY <1>3, <2>1, <2>2, <2>3
<1>9. CASE UndoElse
  <2> DEFINE A == {0} \cup {i \in 1 .. pc : circuit[i].name # "ELSE_CORRELATED_ERROR"}
             start == Max(A)
             block == SubSeq(circuit, start, pc)
             a == UndoBlock(analysis, block)
             stuck == [analysis EXCEPT !.outcome = "unsupported"]
  <2>1. stage = "analysis" /\ circuit[pc].name = "ELSE_CORRELATED_ERROR"
    BY <1>9 DEF UndoElse
  <2>2. IF start > 0 /\ circuit[start].name = "E" THEN Undone(a, pc + 1 - start) ELSE Undone(stuck, 1)
    BY <1>9 DEF UndoElse
  <2>3. start \in 0 .. pc
    <3>1. pc \in Nat /\ A \in SUBSET (0 .. pc) /\ A # {}
      BY <1>7, <2>1
    <3>2. Max(A) \in A
      <4> HIDE DEF A
      <4> QED
        BY <3>1, LastOfSome
    <3> QED
      BY <3>1, <3>2
  <2> HIDE DEF start, A
  <2>4. CASE start > 0 /\ circuit[start].name = "E"
    <3>1. start \in 1 .. pc /\ pc + 1 - start \in 1 .. pc /\ pc - (pc + 1 - start) = start - 1
      BY <1>7, <2>1, <2>3, <2>4
    <3>2. a.outcome = "analyzing" => Analyzed(circuit, start - 1, a)
      BY <1>1, <1>7, <2>1, <2>4, <3>1, BlockGoesOn
    <3> HIDE DEF a
    <3>3. Undone(a, pc + 1 - start)
      BY <2>2, <2>4
    <3>4. a.outcome = "analyzing" => Analyzed(circuit, pc - (pc + 1 - start), a)
      BY <3>1, <3>2
    <3> QED
      BY <1>3, <2>1, <3>1, <3>3, <3>4
  <2>5. CASE ~(start > 0 /\ circuit[start].name = "E")
    <3>1. Undone(stuck, 1) /\ 1 \in 1 .. pc
      BY <1>7, <2>1, <2>2, <2>5
    <3>2. ASSUME stuck.outcome = "analyzing" PROVE FALSE
      BY <3>2
    <3> HIDE DEF stuck
    <3> QED
      BY <1>3, <2>1, <3>1, <3>2
  <2> QED
    BY <2>4, <2>5
<1>10. CASE UNCHANGED vars
  BY <1>10 DEF vars, AnalysisInvariance
<1> QED
  BY <1>4, <1>5, <1>6, <1>8, <1>9, <1>10 DEF Next

(***************************************************************************)
(* What remains of a circuit, forwards.                                    *)
(***************************************************************************)

\* An instruction makes losses of losses.
LEMMA LossOpIs ==
  ASSUME NEW op, Valid(op), NEW acc \in Losses
  PROVE  LossOp(acc, op) \in Losses
<1>1. PICK u : LossTrace(u, acc, op)
  BY LossTraces
<1>2. Len(op.on) \in Nat
  BY InstructionIs
<1> QED
  BY <1>1, <1>2 DEF LossTrace

\* There is such a course of every circuit that resets what it has measured away.
LEMMA LossesOfCircuit ==
  ASSUME NEW T, NEW ops \in Seq(T), \A i \in 1 .. Len(ops) : Valid(ops[i]),
         ResetAfterMeasurement(ops)
  PROVE  \E l : LossCourse(l, ops)
<1> DEFINE n == Len(ops)
           U == Losses
           V == [A \in SUBSET (1 .. n) |-> U]
           start == [lost |-> {}, kept |-> TRUE]
           step == [k \in 1 .. n |-> [y \in U |-> LossOp(y, ops[k])]]
           Is(g) == g = [A \in SUBSET (1 .. n) |->
                           IF A = {} THEN start
                           ELSE LET x == Max(A) IN LossOp(g[A \ {x}], ops[x])]
           it == CHOOSE g : Is(g)
<1>1. n \in Nat /\ DOMAIN ops = 1 .. n
  OBVIOUS
<1>2. \A i \in 1 .. n : \A y \in U : LossOp(y, ops[i]) \in U
  BY LossOpIs
<1>3. \A i \in 1 .. n : \A y \in U : step[i][y] = LossOp(y, ops[i]) /\ step[i][y] \in U
  BY <1>2
<1>4. it[1 .. n].kept
  BY <1>1 DEF ResetAfterMeasurement, LossOp, LossStep, FoldLeft, MapThenFoldSet
<1>5. start \in V[{}] /\ \A A \in SUBSET (1 .. n) : V[A] = U
  BY <1>1 DEF Losses
<1>6. ASSUME NEW A \in SUBSET (1 .. n), A # {}
      PROVE  \A y \in V[A \ {Max(A)}] : step[Max(A)][y] \in V[A]
  <2>1. Max(A) \in 1 .. n
    BY <1>1, <1>6, LastPlace
  <2> HIDE DEF step, U, V
  <2> QED
    BY <1>3, <1>5, <2>1
<1> HIDE DEF n, step, U, V, start
<1>7. PICK f, v : FoldTrace(f, v, n, V, start, step)
  BY <1>1, <1>5, <1>6, FoldsFromLeft
<1>8. \A A \in SUBSET (1 .. n) : f[A] = IF A = {} THEN start ELSE LossOp(f[A \ {Max(A)}], ops[Max(A)])
  <2> SUFFICES ASSUME NEW A \in SUBSET (1 .. n)
               PROVE  f[A] = IF A = {} THEN start ELSE LossOp(f[A \ {Max(A)}], ops[Max(A)])
    OBVIOUS
  <2>1. CASE A = {}
    BY <1>7, <2>1 DEF FoldTrace
  <2>2. CASE A # {}
    <3> DEFINE B == A \ {Max(A)}
    <3>1. Max(A) \in 1 .. n /\ B \in SUBSET (1 .. n)
      BY <1>1, <2>2, LastPlace
    <3>2. f[A] = step[Max(A)][f[B]] /\ f[B] \in U
      BY <1>5, <1>7, <2>2, <3>1 DEF FoldTrace
    <3> HIDE DEF B
    <3>3. f[A] = LossOp(f[B], ops[Max(A)])
      BY <1>3, <3>1, <3>2
    <3> QED
      BY <2>2, <3>3 DEF B
  <2> QED
    BY <2>1, <2>2
<1>9. Is(f)
  <2>1. f = [A \in SUBSET (1 .. n) |-> f[A]]
    BY <1>7 DEF FoldTrace
  <2> QED
    BY <1>8, <2>1
<1>10. Is(it)
  <2> HIDE DEF Is
  <2> QED
    BY <1>9
<1> HIDE DEF it
<1>11. GoesOnAs(f, it, n)
  BY <1>8, <1>10 DEF GoesOnAs
<1>12. v[n].kept
  BY <1>4, <1>7, <1>11 DEF FoldTrace
<1>13. \A i \in 0 .. n : v[i] \in U
  BY <1>1, <1>5, <1>7 DEF FoldTrace
<1>14. ASSUME NEW i \in 1 .. n PROVE v[i] = LossOp(v[i - 1], ops[i])
  BY <1>1, <1>7, <1>13, <1>3 DEF FoldTrace, Trace
<1>15. v[0].lost = {}
  BY <1>7 DEF FoldTrace, Trace, start
<1>16. LossCourse(v, ops)
  BY <1>12, <1>13, <1>14, <1>15 DEF LossCourse, U, n
<1> QED
  BY <1>16

\* An instruction without noise makes states of a state.
LEMMA OpGoesOn ==
  ASSUME NEW op, Valid(op), Reversible(op), NEW s \in Sims, NEW zeros
  PROVE  FrameOp(s, Quiet(op), zeros) \in SUBSET Sims
<1> DEFINE quiet == Quiet(op)
           y == FrameParity(s, quiet, zeros)
           bits == Seq(BOOLEAN)
           named == Seq(Nat \X BOOLEAN)
           S0 == [frame : Frames, flips : bits, detectors : bits, observables : named, corr : BOOLEAN]
<1>1. /\ op.name \in InstructionNames /\ quiet.name = op.name /\ Valid(quiet)
      /\ s.detectors \in bits /\ s.observables \in named /\ s \in S0
  BY InstructionIs DEF Sims
<1>2. y \in BOOLEAN
  BY DEF FrameParity
<1>3. quiet.arg \in Nat
  BY <1>1, InstructionIs
<1> HIDE DEF quiet, y
<1>4. CASE op.name \in Stepwise
  <2>1. PICK v : /\ Walk(v, Len(op.on), Moves(op), s)
                 /\ v[Len(op.on)] = FrameOp(s, Quiet(op), zeros)
                 /\ \A k \in 0 .. Len(op.on) : v[k] \in SUBSET Sims
    BY <1>4, OpWalks
  <2>2. Len(op.on) \in 0 .. Len(op.on)
    BY InstructionIs
  <2> QED
    BY <2>1, <2>2
<1>5. CASE op.name \in CorrelatedNoise
  <2>1. PICK e \in BOOLEAN : FrameOp(s, Quiet(op), zeros) = {[s EXCEPT !.corr = e]}
    BY <1>5, QuietCorrelated
  <2>2. [s EXCEPT !.corr = e] \in Sims
    BY DEF Sims
  <2> QED
    BY <2>1, <2>2
<1>6. CASE op.name = "DETECTOR"
  <2> DEFINE more == Append(s.detectors, y)
  <2>1. more \in bits
    BY <1>1, <1>2
  <2>2. FrameOp(s, quiet, zeros) = {[s EXCEPT !.detectors = more]}
    BY <1>1, <1>6 DEF FrameOp, CorrelatedNoise, y
  <2> HIDE DEF more, bits, named
  <2>3. [s EXCEPT !.detectors = more] \in S0
    BY <1>1, <2>1
  <2>4. [s EXCEPT !.detectors = more] \in Sims
    BY <2>3 DEF Sims, bits, named
  <2> QED
    BY <2>2, <2>4 DEF quiet
<1>7. CASE op.name = "OBSERVABLE_INCLUDE"
  <2> DEFINE more == Append(s.observables, <<quiet.arg, y>>)
  <2>1. more \in named
    BY <1>1, <1>2, <1>3
  <2>2. FrameOp(s, quiet, zeros) = {[s EXCEPT !.observables = more]}
    BY <1>1, <1>7 DEF FrameOp, CorrelatedNoise, y
  <2> HIDE DEF more, bits, named
  <2>3. [s EXCEPT !.observables = more] \in S0
    BY <1>1, <2>1
  <2>4. [s EXCEPT !.observables = more] \in Sims
    BY <2>3 DEF Sims, bits, named
  <2> QED
    BY <2>2, <2>4 DEF quiet
<1>8. CASE op.name = "TICK"
  BY <1>1, <1>8 DEF FrameOp, CorrelatedNoise, quiet
<1> QED
  BY <1>1, <1>4, <1>5, <1>6, <1>7, <1>8 DEF Stepwise, Annotations

\* They are a walk.
LEMMA CircuitWalks ==
  ASSUME NEW T, NEW ops \in Seq(T), \A i \in 1 .. Len(ops) : Valid(ops[i]) /\ Reversible(ops[i]),
         NEW s \in Sims, NEW zeros
  PROVE  \E v : Walk(v, Len(ops), OpMoves(ops, zeros), s) /\ v[Len(ops)] = Forward(ops, s, zeros)
<1> DEFINE n == Len(ops)
           U == SUBSET Sims
           V == [A \in SUBSET (1 .. n) |-> U]
           step == [k \in 1 .. n |-> [y \in U |-> AllThrough(y, ops[k], zeros)]]
           Is(g) == g = [A \in SUBSET (1 .. n) |->
                           IF A = {} THEN {s}
                           ELSE LET x == Max(A)
                                IN UNION {FrameOp(sim, Quiet(ops[x]), zeros) : sim \in g[A \ {x}]}]
           it == CHOOSE g : Is(g)
<1>1. n \in Nat /\ DOMAIN ops = 1 .. n
  OBVIOUS
<1>2. \A i \in 1 .. n : \A y \in U : AllThrough(y, ops[i], zeros) \in U
  <2> SUFFICES ASSUME NEW i \in 1 .. n, NEW y \in U PROVE AllThrough(y, ops[i], zeros) \in U
    OBVIOUS
  <2>1. \A a \in y : FrameOp(a, Quiet(ops[i]), zeros) \in SUBSET Sims
    BY OpGoesOn
  <2> QED
    BY <2>1 DEF AllThrough
<1>3. \A i \in 1 .. n : \A y \in U :
        step[i][y] = AllThrough(y, ops[i], zeros) /\ step[i][y] \in U
  BY <1>2
<1>4. Forward(ops, s, zeros) = it[1 .. n]
  BY <1>1 DEF Forward, FoldLeft, MapThenFoldSet
<1>5. {s} \in V[{}] /\ \A A \in SUBSET (1 .. n) : V[A] = U
  BY <1>1
<1>6. ASSUME NEW A \in SUBSET (1 .. n), A # {}
      PROVE  \A y \in V[A \ {Max(A)}] : step[Max(A)][y] \in V[A]
  <2>1. Max(A) \in 1 .. n
    BY <1>1, <1>6, LastPlace
  <2> HIDE DEF step, U, V
  <2> QED
    BY <1>3, <1>5, <2>1
<1> HIDE DEF n, step, U, V
<1>7. PICK f, v : FoldTrace(f, v, n, V, {s}, step)
  BY <1>1, <1>5, <1>6, FoldsFromLeft
<1>8. \A A \in SUBSET (1 .. n) :
        f[A] = IF A = {} THEN {s} ELSE AllThrough(f[A \ {Max(A)}], ops[Max(A)], zeros)
  <2> SUFFICES ASSUME NEW A \in SUBSET (1 .. n)
               PROVE  f[A] = IF A = {} THEN {s}
                             ELSE AllThrough(f[A \ {Max(A)}], ops[Max(A)], zeros)
    OBVIOUS
  <2>1. CASE A = {}
    BY <1>7, <2>1 DEF FoldTrace
  <2>2. CASE A # {}
    <3> DEFINE B == A \ {Max(A)}
    <3>1. Max(A) \in 1 .. n /\ B \in SUBSET (1 .. n)
      BY <1>1, <2>2, LastPlace
    <3>2. f[A] = step[Max(A)][f[B]] /\ f[B] \in U
      BY <1>5, <1>7, <2>2, <3>1 DEF FoldTrace
    <3> HIDE DEF B
    <3>3. f[A] = AllThrough(f[B], ops[Max(A)], zeros)
      BY <1>3, <3>1, <3>2
    <3> QED
      BY <2>2, <3>3 DEF B
  <2> QED
    BY <2>1, <2>2
<1>9. Is(f)
  BY <1>7, <1>8 DEF FoldTrace, AllThrough
<1>10. Is(it)
  <2> HIDE DEF Is
  <2> QED
    BY <1>9
<1> HIDE DEF it
<1>11. GoesOnAs(f, it, n)
  BY <1>10, <1>8 DEF AllThrough, GoesOnAs
<1>12. Forward(ops, s, zeros) = v[n]
  BY <1>4, <1>7, <1>11 DEF FoldTrace
<1>13. \A i \in 0 .. n : v[i] \in U
  BY <1>1, <1>5, <1>7 DEF FoldTrace
<1>14. Walk(v, n, OpMoves(ops, zeros), s)
  <2>1. v[0] = {s}
    BY <1>7 DEF FoldTrace, Trace
  <2>2. ASSUME NEW k \in 1 .. n PROVE v[k] = UNION {OpMoves(ops, zeros)[k][t] : t \in v[k - 1]}
    <3>1. k - 1 \in 0 .. n
      BY <1>1
    <3>2. v[k] = step[k][v[k - 1]] /\ v[k - 1] \in U
      BY <1>7, <1>13, <3>1 DEF FoldTrace, Trace
    <3>3. v[k] = AllThrough(v[k - 1], ops[k], zeros)
      BY <1>3, <3>2
    <3>4. \A t \in v[k - 1] : OpMoves(ops, zeros)[k][t] = FrameOp(t, Quiet(ops[k]), zeros)
      BY <3>2 DEF OpMoves, U, n
    <3> QED
      BY <3>3, <3>4 DEF AllThrough
  <2> QED
    BY <2>1, <2>2 DEF Walk
<1> QED
  BY <1>12, <1>14 DEF n

\* The parity of no places, and of one.
LEMMA OddFew ==
  /\ ~Odd({})
  /\ \A q : Odd({q})
<1>1. Cardinality({}) = 0 /\ \A q : Cardinality({q}) = 1
  BY FS_EmptySet, FS_Singleton
<1> QED
  BY <1>1 DEF Odd

\* Its effect is the Pauli's.
LEMMA FaultyEffect ==
  ASSUME NEW a \in Live, NEW q \in Qubits, NEW pauli \in Bases \cup {"I"}
  PROVE  Faulty(a, q, pauli) \in SimsAt(a) /\ Effect(a, Faulty(a, q, pauli)) = Sensitivity(a, q, pauli)
<1> DEFINE s == Faulty(a, q, pauli)
           g == AddPauli(NoFlips, q, pauli)
           ms == [m \in 1 .. a.measured |-> FALSE]
           ds == [d \in 1 .. a.detector |-> FALSE]
           bits == Seq(BOOLEAN)
           named == Seq(Nat \X BOOLEAN)
<1>1. a.measured \in Nat /\ a.detector \in Nat /\ a \in Analyses
  BY LiveParts
<1>2. /\ g.x = IF pauli \in {"X", "Y"} THEN {q} ELSE {}
      /\ g.z = IF pauli \in {"Z", "Y"} THEN {q} ELSE {}
  BY DEF AddPauli, NoFlips, Toggle, SymDiff
<1>3. g \in Frames
  BY <1>2 DEF AddPauli, Frames
<1>4. ms \in bits /\ Len(ms) = a.measured /\ ds \in bits /\ Len(ds) = a.detector /\ <<>> \in named
  <2>1. ms \in [1 .. a.measured -> BOOLEAN] /\ ds \in [1 .. a.detector -> BOOLEAN]
    OBVIOUS
  <2>2. ASSUME NEW n \in Nat, NEW f \in [1 .. n -> BOOLEAN]
        PROVE  f \in Seq(BOOLEAN) /\ Len(f) = n
    OBVIOUS
  <2>3. <<>> \in Seq(Nat \X BOOLEAN)
    OBVIOUS
  <2> HIDE DEF ms, ds
  <2> QED
    BY <1>1, <2>1, <2>2, <2>3
<1>5. s = [frame |-> g, flips |-> ms, detectors |-> ds, observables |-> <<>>, corr |-> FALSE]
  BY DEF Faulty
<1>6. /\ s \in Sims /\ s.frame = g /\ s.flips = ms /\ s.detectors = ds /\ s.observables = <<>>
  <2> HIDE DEF s, g, ms, ds, bits, named
  <2>1. /\ s \in [frame : Frames, flips : bits, detectors : bits, observables : named, corr : BOOLEAN]
        /\ s.frame = g /\ s.flips = ms /\ s.detectors = ds /\ s.observables = <<>>
    BY <1>3, <1>4, <1>5
  <2> QED
    BY <2>1 DEF Sims, bits, named
<1> HIDE DEF s
<1>7. s \in SimsAt(a)
  BY <1>4, <1>6 DEF SimsAt
<1>8. ASSUME NEW d \in Targets PROVE ~Recalls(a, s.flips, d) /\ d \notin Fired(s)
  <2>1. {m \in DOMAIN s.flips : s.flips[m] /\ d \in a.measurement[m]} = {}
    BY <1>6
  <2>2. ~Recalls(a, s.flips, d)
    BY <2>1, OddFew DEF Recalls
  <2>3. d \notin Fired(s)
    <3>1. CASE \E i \in Nat : d = <<"D", i>>
      BY <1>4, <1>6, <3>1, FiredIs
    <3>2. CASE \E k \in Nat : d = <<"L", k>>
      <4>1. PICK k \in Nat : d = <<"L", k>>
        BY <3>2
      <4>2. Observed(s.observables, k) = {}
        BY <1>6 DEF Observed
      <4>3. d \in Fired(s) <=> Odd(Observed(s.observables, k))
        BY <1>6, <4>1, FiredIs
      <4> QED
        BY <4>2, <4>3, OddFew
    <3> QED
      BY <3>1, <3>2 DEF Targets
  <2> QED
    BY <2>2, <2>3
<1>9. ASSUME NEW d \in Targets PROVE Touches(a, g, d) <=> d \in Sensitivity(a, q, pauli)
  <2>1. \A r \in Qubits \ {q} : ~Feels(a, g, r, d)
    BY <1>2 DEF Feels
  <2>2. Feels(a, g, q, d) <=> d \in Sensitivity(a, q, pauli)
    <3> HIDE DEF g
    <3>1. CASE pauli = "I"
      BY <1>2, <3>1 DEF Feels, Sensitivity
    <3>2. CASE pauli = "X"
      BY <1>2, <3>2 DEF Feels, Sensitivity
    <3>3. CASE pauli = "Y"
      BY <1>2, <3>3 DEF Feels, Sensitivity, SymDiff
    <3>4. CASE pauli = "Z"
      BY <1>2, <3>4 DEF Feels, Sensitivity
    <3> QED
      BY <3>1, <3>2, <3>3, <3>4 DEF Bases
  <2>3. {r \in Qubits : Feels(a, g, r, d)} = IF d \in Sensitivity(a, q, pauli) THEN {q} ELSE {}
    <3> HIDE DEF g
    <3> QED
      BY <2>1, <2>2
  <2> QED
    BY <2>3, OddFew DEF Touches
<1>10. Sensitivity(a, q, pauli) \in SUBSET Targets
  BY LiveParts DEF Sensitivity, Bases, SymDiff
<1>11. \A d : d \in Effect(a, s) <=> d \in Sensitivity(a, q, pauli)
  <2> HIDE DEF g
  <2> QED
    BY <1>6, <1>8, <1>9, <1>10 DEF Effect
<1> QED
  BY <1>7, <1>11 DEF s

\* At the end of a circuit what a state fires is what has fired.
LEMMA EffectAtEnd ==
  ASSUME NEW ops, ValidCircuit(ops), NEW s \in SimsAt(NewAnalysis(ops))
  PROVE  Effect(NewAnalysis(ops), s) = Fired(s)
<1> DEFINE a == NewAnalysis(ops)
<1>1. /\ \A q \in Qubits : a.x[q] = {} /\ a.z[q] = {}
      /\ a.measurement = [m \in 1 .. a.measured |-> {}]
  BY DEF NewAnalysis
<1>2. s \in Sims /\ DOMAIN s.flips = 1 .. a.measured
  BY DEF SimsAt, Sims
<1> HIDE DEF a
<1>3. ASSUME NEW d \in Targets PROVE ~Touches(a, s.frame, d) /\ ~Recalls(a, s.flips, d)
  BY <1>1, <1>2, OddFew DEF Feels, Touches, Recalls
<1>4. Fired(s) \in SUBSET Targets
  <2> DEFINE ds == s.detectors
             os == s.observables
  <2>1. ds \in Seq(BOOLEAN) /\ os \in Seq(Nat \X BOOLEAN)
    BY <1>2 DEF Sims
  <2>2. DOMAIN ds \in SUBSET Nat
    BY <2>1
  <2>3. Range(os) \in SUBSET (Nat \X BOOLEAN)
    <3>1. \A i \in DOMAIN os : os[i] \in Nat \X BOOLEAN
      BY <2>1
    <3> HIDE DEF os
    <3> QED
      BY <3>1 DEF Range
  <2>4. Fired(s) = Detection(ds, os)
    BY DEF Fired
  <2> HIDE DEF ds, os
  <2>5. {<<"D", i>> : i \in {j \in DOMAIN ds : ds[j]}} \subseteq Targets
    BY <2>2 DEF Targets
  <2>6. {<<"L", o[1]>> : o \in {p \in Range(os) :
                                Odd({j \in DOMAIN os : os[j] = <<p[1], TRUE>>})}} \subseteq Targets
    <3> DEFINE some == {p \in Range(os) : Odd({j \in DOMAIN os : os[j] = <<p[1], TRUE>>})}
    <3>1. some \subseteq Range(os)
      OBVIOUS
    <3> HIDE DEF some
    <3>2. \A o \in some : o[1] \in Nat
      BY <2>3, <3>1
    <3>3. {<<"L", o[1]>> : o \in some} \subseteq Targets
      BY <3>2 DEF Targets
    <3> QED
      BY <3>3 DEF some
  <2> QED
    BY <2>4, <2>5, <2>6 DEF Detection
<1>5. \A d : d \in Effect(a, s) <=> d \in Fired(s)
  BY <1>3, <1>4 DEF Effect
<1> QED
  BY <1>5 DEF a

\* If no lost qubit is used in what remains of a circuit, each of its instructions adds to the
\* effects of all states the same.
LEMMA DualsAlong ==
  ASSUME NEW ops, ValidCircuit(ops), NEW p \in 0 .. Len(ops), NEW a, NEW c, History(c, ops, p, a),
         UndoneInReverse(SubSeq(ops, p + 1, Len(ops))),
         ResetAfterMeasurement(SubSeq(ops, p + 1, Len(ops)))
  PROVE  \A k \in p + 1 .. Len(ops) : OpDual(ops[k], c[k - 1], c[k])
<1> DEFINE n == Len(ops)
           rest == SubSeq(ops, p + 1, n)
           N == n - p
<1>1. n \in Nat /\ p \in Nat /\ N \in Nat /\ ops \in Seq(Range(ops))
  BY CircuitIs
<1>2. rest \in Seq(Range(ops)) /\ Len(rest) = N /\ \A i \in 1 .. N : rest[i] = ops[p + i]
  BY <1>1, RemainderReversible
<1>3. \A i \in 1 .. N : p + i \in p + 1 .. n /\ p + i \in 1 .. n /\ (p + i) - 1 = p + (i - 1)
  BY <1>1
<1>4. \A i \in 1 .. N : Valid(rest[i])
  BY <1>2, <1>3, CircuitIs
<1>5. ResetAfterMeasurement(rest)
  OBVIOUS
<1> HIDE DEF rest
<1>6. PICK l : LossCourse(l, rest)
  BY <1>2, <1>4, <1>5, LossesOfCircuit
<1> DEFINE P == {i \in 0 .. N : Spared(l[i], c[p + i])}
<1>7. N \in P
  <2>1. l[N] \in Losses /\ l[N].kept
    BY <1>1, <1>2, <1>6 DEF LossCourse
  <2>2. c[p + N] = NewAnalysis(ops)
    BY <1>1 DEF History
  <2>3. \A q \in Qubits : Idle(NewAnalysis(ops), q)
    BY DEF Idle, NewAnalysis
  <2> QED
    BY <1>1, <2>1, <2>2, <2>3 DEF Losses, Spared
<1>8. ASSUME NEW i \in 1 .. N, i \in P
      PROVE  i - 1 \in P /\ OpDual(ops[p + i], c[p + (i - 1)], c[p + i])
  <2>1. i - 1 \in 0 .. N /\ p + i \in p + 1 .. n /\ (p + i) - 1 = p + (i - 1)
    BY <1>1, <1>3
  <2>2. l[i - 1] \in Losses /\ l[i] = LossOp(l[i - 1], rest[i]) /\ rest[i] = ops[p + i]
    BY <1>2, <1>6, <2>1 DEF LossCourse
  <2>3. Link(ops[p + i], c[p + (i - 1)], c[p + i])
    BY <2>1 DEF History
  <2>4. Spared(LossOp(l[i - 1], ops[p + i]), c[p + i])
    BY <1>8, <2>2
  <2> QED
    BY <2>1, <2>2, <2>3, <2>4 DEF Link
<1>9. \A i \in 0 .. N : i \in P
  <2> HIDE DEF P
  <2> QED
    BY <1>1, <1>7, <1>8, Backward
<1>10. ASSUME NEW k \in p + 1 .. n PROVE OpDual(ops[k], c[k - 1], c[k])
  <2>1. k - p \in 1 .. N /\ k - p \in 0 .. N /\ p + (k - p) = k /\ p + ((k - p) - 1) = k - 1
    BY <1>1
  <2>2. OpDual(ops[p + (k - p)], c[p + ((k - p) - 1)], c[p + (k - p)])
    BY <1>8, <1>9, <2>1
  <2> QED
    BY <2>1, <2>2
<1> QED
  BY <1>10

\* Every remainder of a valid circuit adds the same to whatever a simulation comes to it with.
LEMMA RemaindersAdd ==
  ASSUME NEW ops, ValidCircuit(ops), NEW p \in 0 .. Len(ops), NEW a, NEW c, History(c, ops, p, a),
         UndoneInReverse(SubSeq(ops, p + 1, Len(ops))),
         ResetAfterMeasurement(SubSeq(ops, p + 1, Len(ops)))
  PROVE  \E total : RemainderAdds(ops, p, a, total)
<1> DEFINE n == Len(ops)
           rest == SubSeq(ops, p + 1, n)
           N == n - p
           zeros == Zeros(a)
           end == NewAnalysis(ops)
           Plain(op) == op.name \notin PairMeasurements \cup {"MPP"}
           May(op, b, d, added) ==
             /\ Plain(op) => added = {{}}
             /\ \A s \in SimsAt(b) :
                  /\ FrameOp(s, Quiet(op), zeros) \subseteq SimsAt(d)
                  /\ Adds(Senses(d), FrameOp(s, Quiet(op), zeros), Senses(b)[s], added)
           states == [k \in 0 .. N |-> SimsAt(c[p + k])]
           seen == [k \in 0 .. N |-> Senses(c[p + k])]
           move == OpMoves(rest, zeros)
           added == [k \in 1 .. N |-> CHOOSE x : May(rest[k], c[p + (k - 1)], c[p + k], x)]
<1>1. n \in Nat /\ p \in Nat /\ N \in Nat /\ ops \in Seq(Range(ops))
  BY CircuitIs
<1>2. rest \in Seq(Range(ops)) /\ Len(rest) = N /\ \A i \in 1 .. N : rest[i] = ops[p + i]
  BY <1>1, RemainderReversible
<1>3. \A i \in 1 .. N : p + i \in p + 1 .. n /\ p + i \in 1 .. n /\ (p + i) - 1 = p + (i - 1)
  BY <1>1
<1>4. \A i \in 1 .. N : Valid(rest[i]) /\ Reversible(rest[i])
  BY <1>2, <1>3, CircuitIs, RemainderReversible
<1>5. c[p + 0] = a /\ c[p + N] = end
  BY <1>1 DEF History
<1>6. \A i \in 0 .. N : Zeros(c[p + i]) = zeros
  <2>1. \A i \in 0 .. N : Fits(c[p + i], ops, p + i)
    BY <1>1 DEF History
  <2>2. \A i \in 0 .. N : DOMAIN c[p + i].measurement = 1 .. CountMeasurements(ops)
    <3> SUFFICES ASSUME NEW i \in 0 .. N
                 PROVE  DOMAIN c[p + i].measurement = 1 .. CountMeasurements(ops)
      OBVIOUS
    <3> DEFINE b == c[p + i]
    <3>1. Fits(b, ops, p + i)
      BY <2>1
    <3> HIDE DEF b
    <3>2. b \in Live /\ Len(b.measurement) = CountMeasurements(ops)
      BY <3>1 DEF Fits
    <3>3. b.measurement \in Seq(SUBSET Targets)
      BY <3>2, LiveParts
    <3>4. DOMAIN b.measurement = 1 .. CountMeasurements(ops)
      BY <3>2, <3>3
    <3> QED
      BY <3>4 DEF b
  <2>3. 0 \in 0 .. N
    BY <1>1
  <2>4. DOMAIN a.measurement = 1 .. CountMeasurements(ops)
    BY <1>5, <2>2, <2>3
  <2> QED
    BY <2>2, <2>4 DEF Zeros
<1>7. ASSUME NEW k \in 1 .. N PROVE May(rest[k], c[p + (k - 1)], c[p + k], added[k])
  <2>1. OpDual(rest[k], c[p + (k - 1)], c[p + k])
    BY <1>3, DualsAlong, <1>2
  <2>2. Zeros(c[p + k]) = zeros
    <3>1. k \in 0 .. N
      BY <1>1
    <3> HIDE DEF zeros, N
    <3> QED
      BY <1>6, <3>1
  <2>3. \E x : May(rest[k], c[p + (k - 1)], c[p + k], x)
    <3> HIDE DEF rest, zeros
    <3> QED
      BY <2>1, <2>2 DEF OpDual
  <2> HIDE DEF May, rest
  <2> QED
    BY <2>3
<1>8. ASSUME NEW k \in 1 .. N, NEW s \in states[k - 1]
      PROVE  move[k][s] \subseteq states[k] /\ Adds(seen[k], move[k][s], seen[k - 1][s], added[k])
  <2>1. k \in 0 .. N /\ k - 1 \in 0 .. N
    BY <1>1
  <2>2. /\ states[k] = SimsAt(c[p + k]) /\ states[k - 1] = SimsAt(c[p + (k - 1)])
        /\ seen[k] = Senses(c[p + k]) /\ seen[k - 1] = Senses(c[p + (k - 1)])
    BY <2>1
  <2>3. s \in Sims
    BY <2>2 DEF SimsAt
  <2>4. move[k][s] = FrameOp(s, Quiet(rest[k]), zeros)
    <3> HIDE DEF rest, zeros
    <3> QED
      BY <1>2, <2>3 DEF OpMoves
  <2>5. May(rest[k], c[p + (k - 1)], c[p + k], added[k])
    BY <1>7
  <2> HIDE DEF states, seen, move, added, rest, zeros
  <2> QED
    BY <2>2, <2>4, <2>5
<1> HIDE DEF states, seen, move, added
<1>9. PICK total :
        /\ (\A k \in 1 .. N : added[k] = {{}}) => total = {{}}
        /\ \A s \in states[0] : \A v :
             Walk(v, N, move, s) =>
               v[N] \subseteq states[N] /\ Adds(seen[N], v[N], seen[0][s], total)
  BY <1>1, <1>8, WalksAdd
<1>10. /\ states[0] = SimsAt(a) /\ states[N] = SimsAt(end)
       /\ seen[0] = Senses(a) /\ seen[N] = Senses(end)
  <2>1. 0 \in 0 .. N /\ N \in 0 .. N
    BY <1>1
  <2> HIDE DEF end
  <2> QED
    BY <1>5, <2>1 DEF states, seen
<1>11. ASSUME ~ProductsMeasured(rest) PROVE total = {{}}
  <2>1. \A k \in 1 .. N : Plain(rest[k])
    <3>1. DOMAIN rest = 1 .. N
      BY <1>2
    <3> HIDE DEF rest
    <3> QED
      BY <1>11, <3>1 DEF ProductsMeasured
  <2>2. \A k \in 1 .. N : added[k] = {{}}
    <3> HIDE DEF rest, Plain
    <3> QED
      BY <1>7, <2>1
  <2> QED
    BY <1>9, <2>2
<1>12. ASSUME NEW s \in SimsAt(a)
       PROVE  /\ Forward(rest, s, zeros) \subseteq SimsAt(end)
              /\ Adds(Senses(end), Forward(rest, s, zeros), Effect(a, s), total)
  <2>1. s \in Sims /\ Senses(a)[s] = Effect(a, s)
    BY DEF SimsAt, Senses
  <2> HIDE DEF zeros, end
  <2>2. PICK v : Walk(v, N, move, s) /\ v[N] = Forward(rest, s, zeros)
    <3> HIDE DEF rest
    <3>1. \E v : Walk(v, Len(rest), OpMoves(rest, zeros), s) /\ v[Len(rest)] = Forward(rest, s, zeros)
      BY <1>2, <1>4, <2>1, CircuitWalks
    <3> QED
      BY <1>2, <3>1 DEF move
  <2> HIDE DEF rest
  <2> QED
    BY <1>9, <1>10, <2>1, <2>2
<1>13. RemainderAdds(ops, p, a, total)
  BY <1>11, <1>12 DEF RemainderAdds
<1> QED
  BY <1>13

\* The analysis agrees with the simulator at every point it reaches.
LEMMA AnalyzedAgree ==
  ASSUME NEW ops, ValidCircuit(ops), NEW p \in 0 .. Len(ops), NEW a, Analyzed(ops, p, a)
  PROVE  EffectsAgree(ops, p, a)
<1> DEFINE n == Len(ops)
           rest == SubSeq(ops, p + 1, n)
           end == NewAnalysis(ops)
           zeros == Zeros(a)
<1> SUFFICES ASSUME ResetAfterMeasurement(rest), UndoneInReverse(rest), NEW q \in Qubits
             PROVE  /\ \A pauli \in Bases :
                         ForwardFlips(rest, q, pauli, a)
                           = {SymDiff(r, Sensitivity(a, q, pauli)) : r \in ForwardFlips(rest, q, "I", a)}
                    /\ ~ProductsMeasured(rest) => ForwardFlips(rest, q, "I", a) = {{}}
  BY DEF EffectsAgree
<1>1. PICK c : History(c, ops, p, a)
  BY DEF Analyzed
<1>2. PICK total : RemainderAdds(ops, p, a, total)
  BY <1>1, RemaindersAdd
<1>3. a \in Live
  BY CircuitIs, <1>1 DEF History, Fits
<1>4. ASSUME NEW pauli \in Bases \cup {"I"}
      PROVE  ForwardFlips(rest, q, pauli, a) = {SymDiff(Sensitivity(a, q, pauli), x) : x \in total}
  <2> DEFINE s == Faulty(a, q, pauli)
             F == Forward(rest, s, zeros)
             e == Sensitivity(a, q, pauli)
  <2>1. ForwardFlips(rest, q, pauli, a) = {Fired(sim) : sim \in F}
    BY DEF ForwardFlips, Forward, Faulty, Zeros
  <2>2. s \in SimsAt(a) /\ Effect(a, s) = e
    BY <1>3, FaultyEffect
  <2> HIDE DEF s, e
  <2>3. F \subseteq SimsAt(end) /\ Adds(Senses(end), F, e, total)
    BY <1>2, <2>2 DEF RemainderAdds
  <2> HIDE DEF F, end
  <2>4. \A sim \in F : Senses(end)[sim] = Fired(sim)
    BY EffectAtEnd, <2>3 DEF end, Senses
  <2>5. {Fired(sim) : sim \in F} = {SymDiff(e, x) : x \in total}
    BY <2>3, <2>4 DEF Adds
  <2> QED
    BY <2>1, <2>5 DEF e
<1>5. ForwardFlips(rest, q, "I", a) = total
  <2>1. Sensitivity(a, q, "I") = {}
    BY DEF Sensitivity
  <2>2. ForwardFlips(rest, q, "I", a) = {SymDiff({}, x) : x \in total}
    <3> DEFINE e == Sensitivity(a, q, "I")
    <3>1. ForwardFlips(rest, q, "I", a) = {SymDiff(e, x) : x \in total}
      BY <1>4
    <3>2. e = {}
      BY <2>1
    <3> HIDE DEF e, rest
    <3> QED
      BY <3>1, <3>2
  <2>3. \A x : SymDiff({}, x) = x
    BY SymDiffSums
  <2> HIDE DEF rest
  <2> QED
    BY <2>2, <2>3
<1>6. ASSUME NEW pauli \in Bases
      PROVE  ForwardFlips(rest, q, pauli, a) = {SymDiff(r, Sensitivity(a, q, pauli)) : r \in total}
  <2> DEFINE e == Sensitivity(a, q, pauli)
  <2>1. ForwardFlips(rest, q, pauli, a) = {SymDiff(e, x) : x \in total}
    BY <1>4
  <2>2. \A x : SymDiff(e, x) = SymDiff(x, e)
    BY DEF SymDiff
  <2> HIDE DEF e, rest
  <2>3. {SymDiff(e, x) : x \in total} = {SymDiff(r, e) : r \in total}
    BY <2>2
  <2> QED
    BY <2>1, <2>3 DEF e
<1>7. ~ProductsMeasured(rest) => total = {{}}
  BY <1>2 DEF RemainderAdds
<1> QED
  BY <1>5, <1>6, <1>7

\* At every point of the analysis of every valid circuit, on any number of qubits, what an X, a Y or
\* a Z there flips if the frame simulator carries it forwards through what follows is what the
\* backward analysis has for it, beside what random frames flip of themselves (error_analyzer.rs
\* against sim/frame.rs); what follows resets what it measures, and is undone in reverse.
THEOREM EffectsStayExact == Spec => []EffectsExact
<1>1. AnalysisInvariance => EffectsExact
  <2> SUFFICES ASSUME AnalysisInvariance, stage = "analysis" PROVE EffectsAgree(circuit, pc, analysis)
    BY DEF EffectsExact, EffectsAgree
  <2>1. ValidCircuit(circuit) /\ pc \in 1 .. Len(circuit) /\ Analyzed(circuit, pc, analysis)
    BY DEF AnalysisInvariance
  <2>2. pc \in 0 .. Len(circuit)
    BY <2>1, CircuitIs
  <2> QED
    BY <2>1, <2>2, AnalyzedAgree
<1> QED
  BY <1>1, StartsAnalyzed, StepsKeepAnalyzed, PTL DEF Spec

=============================================================================
