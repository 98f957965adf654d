-------------------------- MODULE RmatchingProofs --------------------------
(***************************************************************************)
(* Proofs about the matching decoder.  Of EventQueue, for any items and any *)
(* width of a cyclic time: the radix heap is ordered, and the queue is an  *)
(* agenda.  Of MatchingGraph, for any graph: what is done about negative   *)
(* weights is right.                                                       *)
(***************************************************************************)
EXTENDS EventQueue, FiniteSetTheorems, SequenceTheorems, NaturalsInduction, WellFoundedInduction, TLAPS

-----------------------------------------------------------------------------
(* Induction and recursion on the natural numbers.  The theorems of the     *)
(* library that have an operator as a parameter are restated for sets.      *)

\* Every set of natural numbers that has an element has a least one.
LEMMA LeastNatural ==
  ASSUME NEW S \in SUBSET Nat, S # {}
  PROVE  \E x \in S : \A y \in S : x <= y
  <1> DEFINE R == OpToRel(<, Nat)
  <1>1. IsWellFoundedOn(R, Nat)
    BY NatLessThanWellFounded
  <1>2. \A x, y \in Nat : <<y, x>> \in R <=> y < x
    BY DEF OpToRel
  <1> HIDE DEF R
  <1>3. PICK x \in S : \A y \in S : ~ (<<y, x>> \in R)
    BY <1>1, WFMin
  <1>4. \A y \in S : ~ (y < x)
    BY <1>2, <1>3
  <1>5. \A y \in S : x \in Nat /\ y \in Nat
    OBVIOUS
  <1> QED
    BY <1>4, <1>5

\* Induction, for a set.
LEMMA NaturalInduction ==
  ASSUME NEW S, 0 \in S, \A n \in Nat : n \in S => n + 1 \in S
  PROVE  Nat \subseteq S
  <1> SUFFICES ASSUME Nat \ S # {} PROVE FALSE
    OBVIOUS
  <1>1. PICK x \in Nat \ S : \A y \in Nat \ S : x <= y
    BY LeastNatural
  <1>2. x # 0 /\ x - 1 \in Nat /\ x - 1 \notin Nat \ S
    BY <1>1
  <1>3. (x - 1) + 1 \in S
    BY <1>2
  <1> QED
    BY <1>1, <1>3

\* f begins with first, and goes on by steps.
Steps(V) == [Nat -> [V -> V]]
Recurs(f, V, first, step) ==
  /\ f \in [Nat -> V] /\ f[0] = first
  /\ \A n \in Nat : f[n + 1] = step[n][f[n]]

\* A function can be defined by recursion on the natural numbers.
LEMMA PrimitiveRecursion ==
  ASSUME NEW V, NEW first \in V, NEW step \in Steps(V)
  PROVE  \E f : Recurs(f, V, first, step)
  <1> USE DEF Steps, Recurs
  <1> DEFINE Upto(n, g) == /\ g \in [0..n -> V] /\ g[0] = first
                           /\ \A m \in 0..n : m < n => g[m + 1] = step[m][g[m]]
  <1>1. \A n \in Nat : \E g : Upto(n, g)
    <2> DEFINE S == {n \in Nat : \E g : Upto(n, g)}
    <2>1. 0 \in S
      <3>1. Upto(0, [m \in 0..0 |-> first])
        OBVIOUS
      <3> QED
        BY <3>1
    <2>2. ASSUME NEW n \in Nat, n \in S PROVE n + 1 \in S
      <3>1. PICK g : Upto(n, g)
        BY <2>2
      <3> DEFINE h == [m \in 0..n + 1 |-> IF m <= n THEN g[m] ELSE step[n][g[n]]]
      <3>2. h \in [0..n + 1 -> V]
        BY <3>1
      <3>3. h[0] = first
        BY <3>1
      <3>4. ASSUME NEW m \in 0..n + 1, m < n + 1 PROVE h[m + 1] = step[m][h[m]]
        BY <3>1, <3>4
      <3>5. Upto(n + 1, h)
        BY <3>2, <3>3, <3>4
      <3> HIDE DEF h, Upto
      <3>6. \E x : Upto(n + 1, x)
        BY <3>5
      <3> QED
        BY <3>6
    <2> HIDE DEF S
    <2>3. Nat \subseteq S
      BY <2>1, <2>2, NaturalInduction
    <2> QED
      BY <2>3 DEF S
  <1>2. ASSUME NEW n \in Nat, NEW m \in Nat, NEW g, NEW h, Upto(n, g), Upto(m, h)
        PROVE  \A k \in Nat : k <= n /\ k <= m => g[k] = h[k]
    <2> DEFINE S == {k \in Nat : k <= n /\ k <= m => g[k] = h[k]}
    <2>1. 0 \in S
      BY <1>2
    <2>2. ASSUME NEW k \in Nat, k \in S PROVE k + 1 \in S
      BY <1>2, <2>2
    <2> HIDE DEF S
    <2>3. Nat \subseteq S
      BY <2>1, <2>2, NaturalInduction
    <2> QED
      BY <2>3 DEF S
  <1> DEFINE G(n) == CHOOSE g : Upto(n, g)
             f == [n \in Nat |-> G(n)[n]]
  <1>3. \A n \in Nat : Upto(n, G(n))
    BY <1>1
  <1> HIDE DEF G
  <1>4. \A n \in Nat : G(n)[n] \in V
    BY <1>3
  <1>5. f \in [Nat -> V]
    BY <1>4
  <1>6. f[0] = first
    BY <1>3
  <1>7. ASSUME NEW n \in Nat PROVE f[n + 1] = step[n][f[n]]
    <2>1. G(n + 1)[n + 1] = step[n][G(n + 1)[n]]
      BY <1>3
    <2>2. G(n + 1)[n] = G(n)[n]
      <3>1. Upto(n + 1, G(n + 1)) /\ Upto(n, G(n)) /\ n + 1 \in Nat
        BY <1>3
      <3> HIDE DEF Upto
      <3>2. \A k \in Nat : k <= n + 1 /\ k <= n => G(n + 1)[k] = G(n)[k]
        BY <1>2, <3>1
      <3> QED
        BY <3>2
    <2> QED
      BY <2>1, <2>2
  <1> QED
    BY <1>5, <1>6, <1>7

-----------------------------------------------------------------------------
(* Division.                                                                *)

\* Quotient and remainder.
LEMMA DivMod ==
  ASSUME NEW x \in Int, NEW p \in Nat \ {0}
  PROVE  /\ x \div p \in Int /\ x % p \in Nat /\ x % p < p
         /\ x = p * (x \div p) + (x % p)
  OBVIOUS

\* A multiple of a larger number is larger by the factor at least.
LEMMA TimesMonotone ==
  ASSUME NEW p \in Nat \ {0}, NEW a \in Int, NEW b \in Int, a < b
  PROVE  p * a + p <= p * b
  <1>1. b - a \in Nat /\ b - a >= 1
    OBVIOUS
  <1>2. p * (b - a) >= p
    BY <1>1
  <1>3. p * (b - a) = p * b - p * a
    OBVIOUS
  <1>4. p * a \in Int /\ p * b \in Int
    OBVIOUS
  <1> QED
    BY <1>2, <1>3, <1>4

\* There is one quotient and one remainder.
LEMMA DivUnique ==
  ASSUME NEW x \in Int, NEW p \in Nat \ {0}, NEW q \in Int, NEW r \in Nat, r < p, x = p * q + r
  PROVE  x \div p = q /\ x % p = r
  <1> DEFINE d == x \div p
             m == x % p
  <1>1. d \in Int /\ m \in Nat /\ m < p /\ x = p * d + m
    BY DivMod
  <1> HIDE DEF d, m
  <1>2. p * d \in Int /\ p * q \in Int
    BY <1>1
  <1>3. ~(d < q)
    <2> SUFFICES ASSUME d < q PROVE FALSE
      OBVIOUS
    <2>1. p * d + p <= p * q
      BY <1>1, TimesMonotone
    <2> QED BY <1>1, <1>2, <2>1
  <1>4. ~(q < d)
    <2> SUFFICES ASSUME q < d PROVE FALSE
      OBVIOUS
    <2>1. p * q + p <= p * d
      BY <1>1, TimesMonotone
    <2> QED BY <1>1, <1>2, <2>1
  <1>5. d = q
    BY <1>1, <1>3, <1>4
  <1>6. m = r
    BY <1>1, <1>2, <1>5
  <1> QED
    BY <1>5, <1>6 DEF d, m

\* Division by twice a number.
LEMMA DivHalf ==
  ASSUME NEW x \in Int, NEW p \in Nat \ {0}
  PROVE  x \div (2 * p) = (x \div p) \div 2
  <1> DEFINE d == x \div p
             m == x % p
  <1>1. d \in Int /\ m \in Nat /\ m < p /\ x = p * d + m
    BY DivMod
  <1> HIDE DEF d, m
  <1> DEFINE e == d \div 2
             b == d % 2
  <1>2. e \in Int /\ b \in {0, 1} /\ d = 2 * e + b
    BY <1>1
  <1> HIDE DEF e, b
  <1>3. x = (2 * p) * e + (p * b + m)
    <2>1. p * d = p * (2 * e + b)
      BY <1>2
    <2>2. p * (2 * e + b) = (2 * p) * e + p * b
      BY <1>2
    <2> QED
      BY <1>1, <1>2, <2>1, <2>2
  <1>4. p * b + m \in Nat /\ p * b + m < 2 * p
    BY <1>1, <1>2
  <1>5. 2 * p \in Nat \ {0}
    OBVIOUS
  <1>6. x \div (2 * p) = e
    BY <1>2, <1>3, <1>4, <1>5, DivUnique
  <1> QED
    BY <1>6 DEF d, e

\* A number with a smaller quotient is smaller.
LEMMA DivMonotone ==
  ASSUME NEW x \in Int, NEW y \in Int, NEW p \in Nat \ {0}, x \div p < y \div p
  PROVE  x < y
  <1>1. /\ x \div p \in Int /\ x % p \in Nat /\ x % p < p /\ x = p * (x \div p) + (x % p)
        /\ y \div p \in Int /\ y % p \in Nat /\ y % p < p /\ y = p * (y \div p) + (y % p)
    BY DivMod
  <1> DEFINE d == x \div p
             e == y \div p
             m == x % p
             n == y % p
  <1> HIDE DEF d, e, m, n
  <1>2. p * d + p <= p * e
    BY <1>1, TimesMonotone DEF d, e
  <1>3. d \in Int /\ e \in Int /\ m \in Nat /\ n \in Nat /\ m < p /\ x = p * d + m /\ y = p * e + n
    BY <1>1 DEF d, e, m, n
  <1>4. p * d \in Int /\ p * e \in Int
    BY <1>3
  <1> QED
    BY <1>2, <1>3, <1>4

-----------------------------------------------------------------------------
(* Powers of two.                                                           *)

\* The definition by recursion defines a function.
LEMMA PowerDef ==
  /\ Power \in [0..Width -> Nat]
  /\ Power = [k \in 0..Width |-> IF k = 0 THEN 1 ELSE 2 * Power[k - 1]]
  <1> DEFINE step == [n \in Nat |-> [v \in Nat |-> 2 * v]]
             Is(g) == g = [k \in 0..Width |-> IF k = 0 THEN 1 ELSE 2 * g[k - 1]]
  <1>1. Width \in Nat
    BY WidthAssumption
  <1>2. step \in Steps(Nat) /\ \A n, v \in Nat : step[n][v] = 2 * v
    BY DEF Steps
  <1> HIDE DEF step
  <1>3. PICK f : Recurs(f, Nat, 1, step)
    <2>1. 1 \in Nat
      OBVIOUS
    <2> QED
      BY <1>2, <2>1, PrimitiveRecursion
  <1>12. f \in [Nat -> Nat] /\ f[0] = 1 /\ \A n \in Nat : f[n + 1] = 2 * f[n]
    BY <1>2, <1>3 DEF Recurs
  <1> DEFINE h == [k \in 0..Width |-> f[k]]
  <1>4. Is(h)
    <2>1. \A k \in 0..Width : h[k] = IF k = 0 THEN 1 ELSE 2 * h[k - 1]
      <3> SUFFICES ASSUME NEW k \in 0..Width, k # 0 PROVE h[k] = 2 * h[k - 1]
        BY <1>12
      <3>1. k - 1 \in Nat /\ k - 1 \in 0..Width /\ (k - 1) + 1 = k
        BY <1>1
      <3>2. f[(k - 1) + 1] = 2 * f[k - 1]
        BY <1>12, <3>1
      <3> QED
        BY <3>1, <3>2
    <2> QED
      BY <2>1
  <1> HIDE DEF h
  <1>5. Power = CHOOSE g : Is(g)
    BY DEF Power
  <1>6. Is(Power)
    <2> HIDE DEF Is
    <2> QED
      BY <1>4, <1>5
  <1> DEFINE S == {k \in Nat : k <= Width => Power[k] \in Nat}
  <1>7. \A k \in 0..Width : Power[k] = IF k = 0 THEN 1 ELSE 2 * Power[k - 1]
    BY <1>6
  <1>8. 0 \in S
    BY <1>1, <1>7
  <1>9. ASSUME NEW n \in Nat, n \in S PROVE n + 1 \in S
    <2> SUFFICES ASSUME n + 1 <= Width PROVE Power[n + 1] \in Nat
      OBVIOUS
    <2>1. Power[n] \in Nat /\ n + 1 \in 0..Width /\ n + 1 # 0 /\ (n + 1) - 1 = n
      BY <1>1, <1>9
    <2> QED
      BY <1>7, <2>1
  <1> HIDE DEF S
  <1>10. Nat \subseteq S
    BY <1>8, <1>9, NaturalInduction
  <1>11. \A k \in 0..Width : Power[k] \in Nat
    BY <1>1, <1>10 DEF S
  <1> QED
    BY <1>6, <1>11

\* What the powers are.
LEMMA PowerIs ==
  /\ Width \in Nat \ {0}
  /\ \A k \in 0..Width : Power[k] \in Nat \ {0}
  /\ Power[0] = 1
  /\ \A k \in 1..Width : Power[k] = 2 * Power[k - 1]
  <1>1. Width \in Nat \ {0}
    BY WidthAssumption
  <1>2. Power[0] = 1 /\ \A k \in 1..Width : Power[k] = 2 * Power[k - 1]
    BY <1>1, PowerDef
  <1> DEFINE S == {k \in Nat : k <= Width => Power[k] \in Nat \ {0}}
  <1>3. 0 \in S
    BY <1>2
  <1>4. ASSUME NEW n \in Nat, n \in S PROVE n + 1 \in S
    <2> SUFFICES ASSUME n + 1 <= Width PROVE Power[n + 1] \in Nat \ {0}
      OBVIOUS
    <2>1. Power[n] \in Nat \ {0} /\ n + 1 \in 1..Width /\ (n + 1) - 1 = n
      BY <1>1, <1>4
    <2> QED
      BY <1>2, <2>1
  <1> HIDE DEF S
  <1>5. Nat \subseteq S
    BY <1>3, <1>4, NaturalInduction
  <1> QED
    BY <1>1, <1>2, <1>5 DEF S

\* They grow.
LEMMA PowerMonotone ==
  ASSUME NEW j \in 0..Width, NEW k \in 0..Width, j <= k
  PROVE  Power[j] <= Power[k]
  <1> DEFINE S == {n \in Nat : j + n <= Width => Power[j] <= Power[j + n]}
  <1>1. j \in Nat /\ k \in Nat /\ Width \in Nat
    BY PowerIs
  <1>2. 0 \in S
    BY <1>1, PowerIs
  <1>3. ASSUME NEW n \in Nat, n \in S PROVE n + 1 \in S
    <2> SUFFICES ASSUME j + (n + 1) <= Width PROVE Power[j] <= Power[j + (n + 1)]
      OBVIOUS
    <2>1. Power[j] <= Power[j + n]
      BY <1>1, <1>3
    <2>2. j + n \in 0..Width /\ j + (n + 1) \in 1..Width /\ (j + (n + 1)) - 1 = j + n
      BY <1>1
    <2>3. Power[j + (n + 1)] = 2 * Power[j + n] /\ Power[j + n] \in Nat /\ Power[j] \in Nat
      BY <2>2, PowerIs
    <2> QED
      BY <2>1, <2>3
  <1> HIDE DEF S
  <1>4. k - j \in S
    BY <1>1, <1>2, <1>3, NaturalInduction
  <1>5. j + (k - j) = k
    BY <1>1
  <1> QED
    BY <1>4, <1>5 DEF S

\* Half a cycle, and a whole one.
LEMMA Cycle ==
  /\ Half \in Nat \ {0} /\ Modulus = 2 * Half /\ Modulus \in Nat \ {0}
  /\ Horizon \in Nat /\ Horizon < Half
  <1>1. Width - 1 \in 0..Width /\ Width \in 1..Width
    BY PowerIs
  <1> QED
    BY <1>1, PowerIs, HorizonAssumption DEF Half, Modulus

-----------------------------------------------------------------------------
(* Cyclic times.                                                            *)

\* How far t is ahead of c on the cycle.
Ahead(t, c) == IF c <= t THEN t - c ELSE t - c + Modulus

\* It is what the program computes.
LEMMA AheadIs ==
  ASSUME NEW t \in Times, NEW c \in Times
  PROVE  Ahead(t, c) \in Times /\ (t - c) % Modulus = Ahead(t, c)
  <1>1. t \in Nat /\ c \in Nat /\ t < Modulus /\ c < Modulus /\ Modulus \in Nat \ {0}
    BY Cycle DEF Times
  <1>2. Ahead(t, c) \in Times
    BY <1>1 DEF Ahead, Times
  <1>3. t - c = Modulus * 0 + Ahead(t, c) \/ t - c = Modulus * (-1) + Ahead(t, c)
    BY <1>1 DEF Ahead
  <1>4. Ahead(t, c) \in Nat /\ Ahead(t, c) < Modulus
    BY <1>1, <1>2 DEF Times
  <1> DEFINE x == t - c
             a == Ahead(t, c)
  <1>5. x \in Int /\ a \in Nat /\ a < Modulus /\ (x = Modulus * 0 + a \/ x = Modulus * (-1) + a)
    BY <1>1, <1>3, <1>4
  <1> HIDE DEF x, a
  <1>6. x % Modulus = a
    BY <1>1, <1>5, DivUnique
  <1> QED
    BY <1>2, <1>6 DEF x, a

\* A time of which two are ahead is less ahead of the nearer one.
LEMMA AheadFrom ==
  ASSUME NEW c \in Times, NEW t \in Times, NEW u \in Times, Ahead(t, c) <= Ahead(u, c)
  PROVE  Ahead(u, t) = Ahead(u, c) - Ahead(t, c)
  BY Cycle DEF Ahead, Times

\* The present, on the cycle.
LEMMA NowIs ==
  ASSUME NEW now \in Nat
  PROVE  now % Modulus \in Times
  BY Cycle DEF Times

\* Time moves to where a time is ahead.
LEMMA MovesTo ==
  ASSUME NEW now \in Nat, NEW t \in Times
  PROVE  (now + Ahead(t, now % Modulus)) % Modulus = t
  <1> DEFINE c == now % Modulus
             q == now \div Modulus
  <1>1. /\ Modulus \in Nat \ {0} /\ t \in Nat /\ t < Modulus
        /\ c \in Nat /\ c < Modulus /\ q \in Int /\ now = Modulus * q + c
    <2>1. Modulus \in Nat \ {0} /\ now \in Int
      BY Cycle
    <2>2. c \in Nat /\ c < Modulus /\ q \in Int /\ now = Modulus * q + c
      BY <2>1, DivMod
    <2>3. t \in Nat /\ t < Modulus
      BY <2>1 DEF Times
    <2> QED
      BY <2>1, <2>2, <2>3
  <1> HIDE DEF c, q
  <1>2. Modulus * q \in Int /\ Modulus * (q + 1) = Modulus * q + Modulus
    BY <1>1
  <1>3. now + Ahead(t, c) = Modulus * q + t \/ now + Ahead(t, c) = Modulus * (q + 1) + t
    BY <1>1, <1>2 DEF Ahead
  <1>4. now + Ahead(t, c) \in Int /\ q + 1 \in Int
    BY <1>1 DEF Ahead
  <1>5. (now + Ahead(t, c)) % Modulus = t
    BY <1>1, <1>3, <1>4, DivUnique
  <1> QED
    BY <1>5 DEF c

\* cyclic_gt compares two times that are not far ahead by how far they are.
LEMMA CyclicGtIs ==
  ASSUME NEW c \in Times, NEW t \in Times, NEW u \in Times,
         Ahead(t, c) <= Horizon, Ahead(u, c) <= Horizon
  PROVE  CyclicGt(t, u) <=> Ahead(t, c) > Ahead(u, c)
  <1> DEFINE d == t - u - 1
  <1>1. /\ t \in Nat /\ c \in Nat /\ u \in Nat /\ t < Modulus /\ c < Modulus /\ u < Modulus
        /\ Half \in Nat \ {0} /\ Modulus = 2 * Half /\ Horizon \in Nat /\ Horizon < Half
    BY Cycle DEF Times
  <1>2. Modulus \in Nat \ {0} /\ d \in Int
    BY <1>1
  <1>3. d >= 0 => d % Modulus = d
    <2> HAVE d >= 0
    <2>1. d \in Nat /\ d < Modulus /\ d = Modulus * 0 + d
      BY <1>1
    <2> HIDE DEF d
    <2> QED
      BY <1>2, <2>1, DivUnique
  <1>4. d < 0 => d % Modulus = d + Modulus
    <2> HAVE d < 0
    <2>1. d + Modulus \in Nat /\ d + Modulus < Modulus /\ d = Modulus * (-1) + (d + Modulus)
      BY <1>1
    <2> HIDE DEF d
    <2> QED
      BY <1>2, <2>1, DivUnique
  <1> DEFINE r == d % Modulus
  <1>5. CyclicGt(t, u) <=> r < Half - 1
    BY DEF CyclicGt
  <1>6. r = IF d >= 0 THEN d ELSE d + Modulus
    BY <1>2, <1>3, <1>4
  <1> HIDE DEF r
  <1> QED
    BY <1>1, <1>5, <1>6 DEF Ahead

\* widen_from_nearby_reference finds a time that is not far ahead.
LEMMA WidenIs ==
  ASSUME NEW now \in Nat, NEW t \in Times, Ahead(t, now % Modulus) <= Horizon
  PROVE  Widen(t, now) = now + Ahead(t, now % Modulus)
  <1> DEFINE c == now % Modulus
  <1>1. c \in Times
    BY NowIs
  <1> HIDE DEF c
  <1>2. Ahead(c, c) = 0
    BY <1>1, Cycle DEF Ahead, Times
  <1>3. Ahead(t, c) \in Nat
    BY <1>1, AheadIs DEF Times
  <1>4. ~CyclicGt(c, t)
    BY <1>1, <1>2, <1>3, CyclicGtIs, Cycle DEF c
  <1>5. (t - c) % Modulus = Ahead(t, c)
    BY <1>1, AheadIs
  <1> QED
    BY <1>4, <1>5 DEF Widen, c

-----------------------------------------------------------------------------
(* The bucket of a time.                                                    *)

\* The times agree without their k low bits.
Agree(t, c, k) == t \div Power[k] = c \div Power[k]

\* Times that agree without k bits agree without more.
LEMMA AgreeMore ==
  ASSUME NEW t \in Times, NEW c \in Times, NEW j \in Buckets, NEW k \in Buckets,
         j <= k, Agree(t, c, j)
  PROVE  Agree(t, c, k)
  <1> DEFINE S == {n \in Nat : j + n <= Width => Agree(t, c, j + n)}
  <1>1. j \in Nat /\ k \in Nat /\ Width \in Nat /\ t \in Int /\ c \in Int
    BY PowerIs DEF Buckets, Times
  <1>2. 0 \in S
    BY <1>1
  <1>3. ASSUME NEW n \in Nat, n \in S PROVE n + 1 \in S
    <2> SUFFICES ASSUME j + (n + 1) <= Width PROVE Agree(t, c, j + (n + 1))
      OBVIOUS
    <2> DEFINE m == j + n
    <2>1. m \in 0..Width /\ m + 1 \in 1..Width /\ (m + 1) - 1 = m /\ j + (n + 1) = m + 1
      BY <1>1
    <2>2. Agree(t, c, m)
      BY <1>1, <1>3
    <2> HIDE DEF m
    <2>3. Power[m + 1] = 2 * Power[m] /\ Power[m] \in Nat \ {0}
      BY <2>1, PowerIs
    <2>4. /\ t \div (2 * Power[m]) = (t \div Power[m]) \div 2
          /\ c \div (2 * Power[m]) = (c \div Power[m]) \div 2
      BY <1>1, <2>3, DivHalf
    <2> QED
      BY <2>1, <2>2, <2>3, <2>4 DEF Agree
  <1> HIDE DEF S
  <1>4. k - j \in S
    BY <1>1, <1>2, <1>3, NaturalInduction
  <1>5. j + (k - j) = k /\ k <= Width
    BY <1>1 DEF Buckets
  <1> QED
    BY <1>4, <1>5 DEF S

\* All times agree without any bits.
LEMMA AgreeAll ==
  ASSUME NEW t \in Times, NEW c \in Times
  PROVE  Agree(t, c, Width)
  <1>1. \A x \in Times : x \div Modulus = 0
    <2> SUFFICES ASSUME NEW x \in Times PROVE x \div Modulus = 0
      OBVIOUS
    <2>1. x \in Nat /\ x < Modulus /\ Modulus \in Nat \ {0} /\ x = Modulus * 0 + x
      BY Cycle DEF Times
    <2> QED
      BY <2>1, DivUnique
  <1> QED
    BY <1>1 DEF Agree, Modulus

\* The bucket of a time is the least number of bits without which it agrees
\* with the present.
LEMMA BucketIs ==
  ASSUME NEW t \in Times, NEW now \in Nat
  PROVE  /\ Bucket(t, now) \in Buckets
         /\ \A k \in Buckets : Agree(t, now % Modulus, k) <=> Bucket(t, now) <= k
  <1> DEFINE c == now % Modulus
             S == {k \in Buckets : Agree(t, c, k)}
  <1>1. c \in Times
    BY NowIs
  <1> HIDE DEF c
  <1>2. Width \in Buckets /\ S \in SUBSET Nat
    BY PowerIs DEF Buckets
  <1>3. Width \in S
    BY <1>1, <1>2, AgreeAll
  <1> HIDE DEF S
  <1>4. \E x \in S : \A y \in S : x <= y
    BY <1>2, <1>3, LeastNatural
  <1>5. Bucket(t, now) = Least(S)
    BY DEF Bucket, S, Agree, c
  <1>6. Bucket(t, now) \in S /\ \A y \in S : Bucket(t, now) <= y
    BY <1>4, <1>5 DEF Least
  <1>7. ASSUME NEW k \in Buckets, Bucket(t, now) <= k PROVE Agree(t, c, k)
    BY <1>1, <1>6, <1>7, AgreeMore DEF S
  <1>8. Bucket(t, now) \in Buckets /\ \A k \in Buckets : Agree(t, c, k) => Bucket(t, now) <= k
    BY <1>6 DEF S
  <1> QED
    BY <1>7, <1>8 DEF c

\* It is the first number of bits without which they agree.
LEMMA BucketUnique ==
  ASSUME NEW t \in Times, NEW now \in Nat, NEW k \in Buckets,
         Agree(t, now % Modulus, k), k = 0 \/ ~Agree(t, now % Modulus, k - 1)
  PROVE  Bucket(t, now) = k
  <1> DEFINE b == Bucket(t, now)
  <1>1. b \in Buckets /\ b <= k
    BY BucketIs
  <1>2. k # 0 => ~(b <= k - 1)
    <2> SUFFICES ASSUME k # 0 PROVE ~(b <= k - 1)
      OBVIOUS
    <2>1. k - 1 \in Buckets
      BY PowerIs DEF Buckets
    <2> QED
      BY <2>1, BucketIs
  <1> QED
    BY <1>1, <1>2, PowerIs DEF Buckets

\* The blocks of 2^(k-1) times that two times are in, of which the first bit
\* they differ in is the k-th, are next to each other.
LEMMA NextBlock ==
  ASSUME NEW t \in Times, NEW c \in Times, NEW k \in 1..Width, Agree(t, c, k), ~Agree(t, c, k - 1)
  PROVE  LET p == Power[k - 1] IN
         /\ p \in Nat \ {0} /\ Power[k] = 2 * p
         /\ t \div p \in Int /\ c \div p \in Int /\ t \div p # c \div p
         /\ (t \div p) \div 2 = (c \div p) \div 2
  <1> DEFINE p == Power[k - 1]
  <1>1. p \in Nat \ {0} /\ Power[k] = 2 * p /\ t \in Int /\ c \in Int
    BY PowerIs DEF Times
  <1>2. t \div p # c \div p
    BY DEF Agree
  <1>3. t \div (2 * p) = c \div (2 * p)
    BY <1>1 DEF Agree
  <1> HIDE DEF p
  <1>4. t \div p \in Int /\ c \div p \in Int
    BY <1>1, DivMod
  <1>5. (t \div p) \div 2 = (c \div p) \div 2
    BY <1>1, <1>3, DivHalf
  <1> QED
    BY <1>1, <1>2, <1>4, <1>5 DEF p

\* Two times in the block next to that of c are in one block.
LEMMA OneBlock ==
  ASSUME NEW t \in Times, NEW u \in Times, NEW c \in Times, NEW k \in 1..Width,
         Agree(t, c, k), ~Agree(t, c, k - 1), Agree(u, c, k), ~Agree(u, c, k - 1)
  PROVE  Agree(t, u, k - 1)
  <1> DEFINE p == Power[k - 1]
             x == t \div p
             y == u \div p
             z == c \div p
  <1>1. x \in Int /\ z \in Int /\ x # z /\ x \div 2 = z \div 2
    BY NextBlock
  <1>2. y \in Int /\ y # z /\ y \div 2 = z \div 2
    BY NextBlock
  <1> HIDE DEF x, y, z
  <1>3. x = y
    BY <1>1, <1>2
  <1> QED
    BY <1>3 DEF x, y, p, Agree

\* Times in one block of fewer than half a cycle of times are not far apart, so
\* that one that is not far ahead is not before the other.
LEMMA LaterBlock ==
  ASSUME NEW t \in Times, NEW c \in Times, Ahead(t, c) <= Horizon,
         NEW k \in 1..Width, k < Width, Agree(t, c, k), ~Agree(t, c, k - 1)
  PROVE  c < t /\ c \div Power[k - 1] < t \div Power[k - 1]
  <1> DEFINE p == Power[k - 1]
             P == Power[k]
  <1>1. t \in Int /\ c \in Int /\ p \in Nat \ {0} /\ P \in Nat \ {0}
    BY PowerIs DEF Times
  <1>2. P <= Half
    <2>1. k \in 0..Width /\ Width - 1 \in 0..Width /\ k <= Width - 1
      BY PowerIs
    <2> QED
      BY <2>1, PowerMonotone DEF Half
  <1>3. c - t < P
    <2> DEFINE e == t \div P
               r == t % P
               s == c % P
    <2>1. e \in Int /\ r \in Nat /\ r < P /\ t = P * e + r
      BY <1>1, DivMod
    <2>2. s \in Nat /\ s < P /\ c = P * e + s
      BY <1>1, DivMod DEF Agree
    <2> HIDE DEF e, r, s, P
    <2>3. P * e \in Int
      BY <1>1, <2>1
    <2> QED
      BY <1>1, <2>1, <2>2, <2>3
  <1>4. ~(t < c)
    BY <1>1, <1>2, <1>3, Cycle DEF Ahead
  <1>5. t \div p # c \div p /\ t \div p \in Int /\ c \div p \in Int
    BY NextBlock
  <1> HIDE DEF p
  <1>6. ~(t \div p < c \div p)
    BY <1>1, <1>4, DivMonotone
  <1>7. c \div p < t \div p
    BY <1>5, <1>6
  <1>8. c < t
    BY <1>1, <1>7, DivMonotone
  <1> QED
    BY <1>7, <1>8 DEF p

\* What the bucket of a time that is not the present says.
LEMMA InBucket ==
  ASSUME NEW now \in Nat, NEW t \in Times, Bucket(t, now) # 0
  PROVE  /\ Bucket(t, now) \in 1..Width
         /\ Agree(t, now % Modulus, Bucket(t, now))
         /\ ~Agree(t, now % Modulus, Bucket(t, now) - 1)
  <1> DEFINE b == Bucket(t, now)
  <1>1. b \in Buckets /\ b \in Nat /\ Width \in Nat
    BY BucketIs, PowerIs DEF Buckets
  <1>2. b \in 1..Width /\ b - 1 \in Buckets /\ ~(b <= b - 1)
    BY <1>1 DEF Buckets
  <1> QED
    BY <1>1, <1>2, BucketIs

\* The first bucket has the times that are the present.
LEMMA InFirstBucket ==
  ASSUME NEW now \in Nat, NEW t \in Times
  PROVE  Bucket(t, now) = 0 <=> t = now % Modulus
  <1> DEFINE c == now % Modulus
  <1>1. c \in Times /\ 0 \in Buckets
    BY NowIs, PowerIs DEF Buckets
  <1>2. Agree(t, c, 0) <=> Bucket(t, now) <= 0
    BY <1>1, BucketIs
  <1>3. Bucket(t, now) \in Nat
    BY BucketIs DEF Buckets
  <1>4. t \div 1 = t /\ c \div 1 = c
    BY <1>1 DEF Times
  <1> QED
    BY <1>2, <1>3, <1>4, PowerIs DEF Agree

\* In one bucket the smaller number is less far ahead.
LEMMA OrderInBucket ==
  ASSUME NEW now \in Nat, NEW c \in Times, c = now % Modulus, NEW t \in Times, NEW u \in Times,
         Ahead(t, c) <= Horizon, Ahead(u, c) <= Horizon,
         Bucket(t, now) = Bucket(u, now), t <= u
  PROVE  Ahead(t, c) <= Ahead(u, c)
  <1> DEFINE k == Bucket(t, now)
  <1>1. t \in Int /\ u \in Int /\ c \in Int
    BY DEF Times
  <1>2. CASE k = 0
    <2>1. t = u
      BY <1>2, InFirstBucket
    <2>2. Ahead(t, c) \in Times
      BY AheadIs
    <2> QED
      BY <2>1, <2>2 DEF Times
  <1>3. CASE k # 0
    <2>1. /\ k \in 1..Width /\ Agree(t, c, k) /\ ~Agree(t, c, k - 1)
          /\ Agree(u, c, k) /\ ~Agree(u, c, k - 1)
      BY <1>3, InBucket
    <2> HIDE DEF k
    <2>2. CASE k < Width
      <3>1. c < t /\ c < u
        BY <2>1, <2>2, LaterBlock
      <3> QED
        BY <1>1, <3>1 DEF Ahead
    <2>3. CASE k = Width
      <3> DEFINE p == Power[k - 1]
                 x == t \div p
                 z == c \div p
      <3>1. x \in Int /\ z \in Int /\ x # z /\ p \in Nat \ {0}
        BY <2>1, NextBlock
      <3>2. u \div p = x
        BY <2>1, OneBlock DEF Agree
      <3> HIDE DEF p
      <3>3. CASE x < z
        <4>1. t < c
          BY <1>1, <3>1, <3>3, DivMonotone
        <4>2. u < c
          BY <1>1, <3>1, <3>2, <3>3, DivMonotone
        <4> QED
          BY <1>1, <4>1, <4>2, Cycle DEF Ahead
      <3>4. CASE z < x
        <4>1. c < t
          BY <1>1, <3>1, <3>4, DivMonotone
        <4>2. c < u
          BY <1>1, <3>1, <3>2, <3>4, DivMonotone
        <4> QED
          BY <1>1, <4>1, <4>2 DEF Ahead
      <3> HIDE DEF x, z
      <3> QED
        BY <3>1, <3>3, <3>4
    <2> QED
      BY <2>1, <2>2, <2>3, PowerIs
  <1> QED
    BY <1>2, <1>3

\* What is in a lower bucket is less far ahead.
LEMMA OrderOfBuckets ==
  ASSUME NEW now \in Nat, NEW c \in Times, c = now % Modulus, NEW t \in Times, NEW u \in Times,
         Ahead(t, c) <= Horizon, Ahead(u, c) <= Horizon,
         Bucket(t, now) < Bucket(u, now)
  PROVE  Ahead(t, c) < Ahead(u, c)
  <1> DEFINE j == Bucket(t, now)
             k == Bucket(u, now)
  <1>1. j \in Buckets /\ k \in Buckets
    BY BucketIs
  <1>2. j \in Nat /\ k \in Nat /\ k # 0 /\ j <= k - 1 /\ k - 1 \in Buckets /\ j < Width
    BY <1>1, PowerIs DEF Buckets
  <1>3. k \in 1..Width /\ Agree(u, c, k) /\ ~Agree(u, c, k - 1)
    BY <1>2, InBucket
  <1>4. t \in Nat /\ u \in Nat /\ c \in Nat /\ t < Modulus
    BY Cycle DEF Times
  <1>5. c <= t
    <2>1. CASE j = 0
      BY <1>4, <2>1, InFirstBucket
    <2>2. CASE j # 0
      <3>1. j \in 1..Width /\ Agree(t, c, j) /\ ~Agree(t, c, j - 1)
        BY <2>2, InBucket
      <3> HIDE DEF j
      <3>2. c < t
        BY <1>2, <3>1, LaterBlock
      <3> QED
        BY <1>4, <3>2
    <2> QED
      BY <2>1, <2>2
  <1>6. Agree(t, c, k - 1)
    BY <1>2, BucketIs
  <1> DEFINE p == Power[k - 1]
             y == u \div p
             z == c \div p
  <1>7. y \in Int /\ z \in Int /\ y # z /\ p \in Nat \ {0}
    BY <1>3, NextBlock
  <1>8. t \div p = z
    BY <1>6 DEF Agree
  <1>9. k < Width => z < y
    BY <1>3, LaterBlock
  <1> HIDE DEF p
  <1>10. CASE z < y
    <2>3. c \in Int /\ u \in Int /\ p \in Nat \ {0} /\ c \div p < u \div p
      BY <1>4, <1>7, <1>10
    <2>1. c < u
      BY <2>3, DivMonotone
    <2>2. t < u
      BY <1>4, <1>7, <1>8, <1>10, DivMonotone
    <2> QED
      BY <1>4, <1>5, <2>1, <2>2 DEF Ahead
  <1>11. CASE y < z
    <2>1. u < c
      BY <1>4, <1>7, <1>11, DivMonotone
    <2> QED
      BY <1>4, <1>5, <2>1, Cycle DEF Ahead
  <1> HIDE DEF y, z
  <1> QED
    BY <1>7, <1>10, <1>11

\* When the time moves to t, the events of higher buckets stay where they are,
\* and those of the bucket of t go to lower ones.
LEMMA BucketAfter ==
  ASSUME NEW now \in Nat, NEW next \in Nat, NEW u \in Times,
         next % Modulus \in Times, Bucket(next % Modulus, now) <= Bucket(u, now)
  PROVE  /\ Bucket(next % Modulus, now) < Bucket(u, now) => Bucket(u, next) = Bucket(u, now)
         /\ Bucket(next % Modulus, now) = Bucket(u, now) /\ Bucket(u, now) # 0 =>
              Bucket(u, next) < Bucket(u, now)
  <1> DEFINE c == now % Modulus
             t == next % Modulus
             j == Bucket(t, now)
             k == Bucket(u, now)
  <1>1. c \in Times /\ j \in Buckets /\ k \in Buckets /\ t \in Times
    BY NowIs, BucketIs
  <1>2. CASE j < k
    <2>1. k - 1 \in Buckets /\ j <= k - 1 /\ k # 0 /\ j <= k
      BY <1>1, <1>2, PowerIs DEF Buckets
    <2>2. Agree(t, c, k) /\ Agree(t, c, k - 1)
      BY <1>1, <2>1, BucketIs
    <2>3. Agree(u, c, k) /\ ~Agree(u, c, k - 1)
      BY <2>1, InBucket
    <2>4. Agree(u, t, k) /\ ~Agree(u, t, k - 1)
      BY <2>2, <2>3 DEF Agree
    <2>5. Bucket(u, next) = k
      BY <1>1, <2>4, BucketUnique
    <2> QED
      BY <1>2, <2>5
  <1>3. CASE j = k /\ k # 0
    <2>1. /\ k \in 1..Width /\ Agree(t, c, k) /\ ~Agree(t, c, k - 1)
          /\ Agree(u, c, k) /\ ~Agree(u, c, k - 1)
      BY <1>1, <1>3, InBucket
    <2>2. Agree(u, t, k - 1)
      BY <1>1, <2>1, OneBlock
    <2>3. k - 1 \in Buckets
      BY <2>1, PowerIs DEF Buckets
    <2>4. Bucket(u, next) <= k - 1 /\ Bucket(u, next) \in Nat
      BY <2>2, <2>3, BucketIs DEF Buckets
    <2> QED
      BY <1>3, <2>1, <2>4
  <1> QED
    BY <1>2, <1>3

-----------------------------------------------------------------------------
(* Heaps.                                                                   *)

Events == [item : Items, time : Times]
Heaps  == [Buckets -> Seq(Events)]

\* The events that are not far ahead, and of these the ones bucket k is for.
Near(now)    == {e \in Events : Ahead(e.time, now % Modulus) <= Horizon}
Home(k, now) == {e \in Near(now) : Bucket(e.time, now) = k}

\* Every event is in the bucket it belongs to, and not far ahead.
Sorted(bs, now) == bs \in Heaps /\ \A k \in Buckets : bs[k] \in Seq(Home(k, now))

\* e is somewhere in the heap.
Holds(bs, e) == \E k \in Buckets : \E i \in 1..Len(bs[k]) : bs[k][i] = e

\* The events in the buckets below n, and in all of them.
IsCount(f, bs) ==
  /\ f \in [Nat -> Nat] /\ f[0] = 0
  /\ \A n \in Nat : f[n + 1] = f[n] + (IF n \in Buckets THEN Len(bs[n]) ELSE 0)
Count(bs) == CHOOSE f : IsCount(f, bs)
Total(bs) == Count(bs)[Width + 1]

\* Events can be counted.
LEMMA CountIs ==
  ASSUME NEW bs \in Heaps
  PROVE  IsCount(Count(bs), bs)
  <1> DEFINE step == [n \in Nat |-> [v \in Nat |-> v + (IF n \in Buckets THEN Len(bs[n]) ELSE 0)]]
  <1>1. \A n \in Buckets : Len(bs[n]) \in Nat
    BY DEF Heaps
  <1>2. step \in Steps(Nat)
    BY <1>1 DEF Steps
  <1>3. \A n, v \in Nat : step[n][v] = v + (IF n \in Buckets THEN Len(bs[n]) ELSE 0)
    OBVIOUS
  <1> HIDE DEF step
  <1>4. 0 \in Nat
    OBVIOUS
  <1>5. PICK f : Recurs(f, Nat, 0, step)
    BY <1>2, <1>4, PrimitiveRecursion
  <1>6. IsCount(f, bs)
    BY <1>3, <1>5 DEF Recurs, IsCount
  <1> QED
    BY <1>6 DEF Count

\* The total is a number.
LEMMA TotalIs == ASSUME NEW bs \in Heaps PROVE Total(bs) \in Nat
  BY CountIs, PowerIs DEF IsCount, Total

\* When one bucket changes, the total changes by as much.
LEMMA TotalChange ==
  ASSUME NEW bs \in Heaps, NEW cs \in Heaps, NEW k \in Buckets,
         \A j \in Buckets \ {k} : cs[j] = bs[j]
  PROVE  Total(cs) = Total(bs) + Len(cs[k]) - Len(bs[k])
  <1> DEFINE f == Count(bs)
             g == Count(cs)
             S == {n \in Nat : g[n] = f[n] + (IF n > k THEN Len(cs[k]) - Len(bs[k]) ELSE 0)}
  <1>1. IsCount(f, bs) /\ IsCount(g, cs)
    BY CountIs
  <1> HIDE DEF f, g
  <1>2. /\ f \in [Nat -> Nat] /\ f[0] = 0 /\ g \in [Nat -> Nat] /\ g[0] = 0
        /\ \A n \in Nat : f[n + 1] = f[n] + (IF n \in Buckets THEN Len(bs[n]) ELSE 0)
        /\ \A n \in Nat : g[n + 1] = g[n] + (IF n \in Buckets THEN Len(cs[n]) ELSE 0)
    BY <1>1 DEF IsCount
  <1>3. /\ k \in Nat /\ Width \in Nat /\ k <= Width
        /\ \A j \in Buckets : Len(bs[j]) \in Nat /\ Len(cs[j]) \in Nat
    BY PowerIs DEF Heaps, Buckets
  <1>4. 0 \in S
    <2>1. ~(0 > k) /\ 0 \in Nat
      BY <1>3
    <2> QED
      BY <1>2, <2>1
  <1>5. ASSUME NEW n \in Nat, n \in S PROVE n + 1 \in S
    <2> DEFINE a == IF n \in Buckets THEN Len(bs[n]) ELSE 0
               b == IF n \in Buckets THEN Len(cs[n]) ELSE 0
               l == Len(cs[k])
               m == Len(bs[k])
    <2>1. f[n + 1] = f[n] + a /\ g[n + 1] = g[n] + b
      BY <1>2
    <2>2. g[n] = f[n] + (IF n > k THEN l - m ELSE 0)
      BY <1>5
    <2>3. a \in Nat /\ b \in Nat /\ l \in Nat /\ m \in Nat /\ f[n] \in Nat
      BY <1>2, <1>3
    <2>4. IF n = k THEN a = m /\ b = l ELSE a = b
      OBVIOUS
    <2> HIDE DEF a, b, l, m
    <2>5. g[n + 1] = f[n + 1] + (IF n + 1 > k THEN l - m ELSE 0)
      BY <1>3, <2>1, <2>2, <2>3, <2>4
    <2>6. n + 1 \in Nat
      OBVIOUS
    <2> QED
      BY <2>5, <2>6 DEF l, m
  <1> HIDE DEF S
  <1>6. Width + 1 \in S
    BY <1>3, <1>4, <1>5, NaturalInduction
  <1>7. Width + 1 > k
    BY <1>3
  <1> QED
    BY <1>2, <1>3, <1>6, <1>7 DEF S, Total, f, g

\* There are no events just when all buckets are empty.
LEMMA TotalZero ==
  ASSUME NEW bs \in Heaps
  PROVE  Total(bs) = 0 <=> \A k \in Buckets : bs[k] = <<>>
  <1> DEFINE f == Count(bs)
             S == {n \in Nat : f[n] = 0 <=> \A j \in Buckets : j < n => bs[j] = <<>>}
  <1>1. IsCount(f, bs)
    BY CountIs
  <1> HIDE DEF f
  <1>2. /\ f \in [Nat -> Nat] /\ f[0] = 0
        /\ \A n \in Nat : f[n + 1] = f[n] + (IF n \in Buckets THEN Len(bs[n]) ELSE 0)
    BY <1>1 DEF IsCount
  <1>3. /\ Width \in Nat
        /\ \A j \in Buckets : j \in Nat /\ j <= Width /\ Len(bs[j]) \in Nat /\ (Len(bs[j]) = 0 <=> bs[j] = <<>>)
    BY PowerIs DEF Heaps, Buckets
  <1>4. 0 \in S
    BY <1>2, <1>3
  <1>5. ASSUME NEW n \in Nat, n \in S PROVE n + 1 \in S
    <2>1. f[n] = 0 <=> \A j \in Buckets : j < n => bs[j] = <<>>
      BY <1>5
    <2>2. f[n] \in Nat /\ \A j \in Buckets : (j < n + 1) <=> (j < n \/ j = n)
      <3>1. f[n] \in Nat
        BY <1>2
      <3>2. ASSUME NEW j \in Buckets PROVE (j < n + 1) <=> (j < n \/ j = n)
        BY <1>3
      <3> QED
        BY <3>1, <3>2
    <2>3. CASE n \in Buckets
      <3> DEFINE l == Len(bs[n])
      <3>1. f[n + 1] = f[n] + l
        BY <1>2, <2>3
      <3>2. l \in Nat /\ (l = 0 <=> bs[n] = <<>>)
        BY <1>3, <2>3
      <3> HIDE DEF l
      <3>3. (f[n + 1] = 0) <=> (f[n] = 0 /\ bs[n] = <<>>)
        BY <2>2, <3>1, <3>2
      <3>4. (\A j \in Buckets : j < n + 1 => bs[j] = <<>>)
            <=> ((\A j \in Buckets : j < n => bs[j] = <<>>) /\ bs[n] = <<>>)
        BY <2>2, <2>3, Zenon
      <3> QED
        BY <2>1, <3>3, <3>4
    <2>4. CASE n \notin Buckets
      <3>1. f[n + 1] = f[n]
        BY <1>2, <2>2, <2>4
      <3>2. \A j \in Buckets : (j < n + 1) <=> (j < n)
        BY <2>2, <2>4
      <3> QED
        BY <2>1, <3>1, <3>2
    <2> QED
      BY <2>3, <2>4
  <1> HIDE DEF S
  <1>6. Width + 1 \in S
    BY <1>3, <1>4, <1>5, NaturalInduction
  <1>7. \A j \in Buckets : j < Width + 1
    BY <1>3
  <1> QED
    BY <1>6, <1>7 DEF S, Total, f

\* Enqueueing adds an event and keeps the heap in order.
LEMMA PushedIs ==
  ASSUME NEW now \in Nat, NEW bs, Sorted(bs, now), NEW e \in Near(now)
  PROVE  /\ Sorted(Pushed(bs, e, now), now)
         /\ Total(Pushed(bs, e, now)) = Total(bs) + 1
         /\ Holds(Pushed(bs, e, now), e)
         /\ \A x \in Events : Holds(bs, x) => Holds(Pushed(bs, e, now), x)
  <1> DEFINE b == Bucket(e.time, now)
             cs == Pushed(bs, e, now)
  <1>1. e \in Events /\ b \in Buckets /\ e \in Home(b, now)
    BY BucketIs DEF Near, Home, Events
  <1>2. bs \in Heaps /\ \A k \in Buckets : bs[k] \in Seq(Home(k, now)) /\ bs[k] \in Seq(Events)
    BY DEF Sorted, Heaps
  <1>3. cs = [bs EXCEPT ![b] = Append(bs[b], e)]
    BY DEF Pushed
  <1> HIDE DEF b, cs
  <1>4. Append(bs[b], e) \in Seq(Home(b, now)) /\ Append(bs[b], e) \in Seq(Events)
    <2>1. bs[b] \in Seq(Home(b, now)) /\ bs[b] \in Seq(Events)
      BY <1>1, <1>2
    <2> QED
      BY <1>1, <2>1, Zenon, AppendProperties
  <1>5. cs \in Heaps
    BY <1>1, <1>2, <1>3, <1>4 DEF Heaps
  <1>6. cs[b] = Append(bs[b], e) /\ \A k \in Buckets \ {b} : cs[k] = bs[k]
    BY <1>1, <1>2, <1>3 DEF Heaps
  <1>7. Sorted(cs, now)
    BY <1>2, <1>4, <1>5, <1>6 DEF Sorted
  <1>8. /\ Len(bs[b]) \in Nat /\ Len(cs[b]) = Len(bs[b]) + 1 /\ cs[b][Len(bs[b]) + 1] = e
        /\ \A i \in 1..Len(bs[b]) : cs[b][i] = bs[b][i]
    BY <1>1, <1>2, <1>6
  <1>9. Total(cs) = Total(bs) + 1
    <2>1. Total(cs) = Total(bs) + Len(cs[b]) - Len(bs[b])
      BY <1>1, <1>2, <1>5, <1>6, TotalChange
    <2> QED
      BY <1>2, <1>8, <2>1, TotalIs
  <1>10. Holds(cs, e)
    <2>1. Len(bs[b]) + 1 \in 1..Len(cs[b])
      BY <1>8
    <2> QED
      BY <1>1, <1>8, <2>1 DEF Holds
  <1>11. ASSUME NEW x \in Events, Holds(bs, x) PROVE Holds(cs, x)
    <2>1. PICK k \in Buckets : \E i \in 1..Len(bs[k]) : bs[k][i] = x
      BY <1>11 DEF Holds
    <2>2. PICK i \in 1..Len(bs[k]) : bs[k][i] = x
      BY <2>1
    <2>3. i \in 1..Len(cs[k]) /\ cs[k][i] = x
      <3>1. CASE k = b
        BY <1>8, <2>2, <3>1
      <3>2. CASE k # b
        BY <1>6, <2>2, <3>2
      <3> QED
        BY <3>1, <3>2
    <2> QED
      BY <2>3 DEF Holds
  <1> QED
    BY <1>7, <1>9, <1>10, <1>11 DEF cs

\* So does enqueueing some events in turn.
LEMMA SpreadIs ==
  ASSUME NEW now \in Nat, NEW bs, Sorted(bs, now), NEW events \in Seq(Near(now))
  PROVE  /\ Sorted(Spread(bs, events, now), now)
         /\ Total(Spread(bs, events, now)) = Total(bs) + Len(events)
         /\ \A i \in 1..Len(events) : Holds(Spread(bs, events, now), events[i])
         /\ \A x \in Events : Holds(bs, x) => Holds(Spread(bs, events, now), x)
  <1> DEFINE V == {v \in Heaps : Sorted(v, now)}
             N == Len(events)
             step == [n \in Nat |-> [v \in V |-> IF n < N THEN Pushed(v, events[n + 1], now) ELSE v]]
             Is(g) == g = [n \in 0..N |-> IF n = 0 THEN bs ELSE Pushed(g[n - 1], events[n], now)]
  <1>1. N \in Nat /\ \A i \in 1..N : events[i] \in Near(now)
    OBVIOUS
  <1>2. \A v : v \in V <=> Sorted(v, now)
    BY DEF Sorted
  <1> HIDE DEF N, V
  <1>3. ASSUME NEW n \in Nat, NEW v \in V
        PROVE  (IF n < N THEN Pushed(v, events[n + 1], now) ELSE v) \in V
    <2>1. CASE n < N
      <3>1. events[n + 1] \in Near(now)
        BY <1>1, <2>1
      <3>2. Sorted(Pushed(v, events[n + 1], now), now)
        BY <1>2, <3>1, PushedIs
      <3> QED
        BY <1>2, <2>1, <3>2
    <2> QED
      BY <2>1
  <1>4. step \in Steps(V)
    BY <1>3 DEF Steps
  <1>5. ASSUME NEW n \in Nat, NEW v \in V, n < N PROVE step[n][v] = Pushed(v, events[n + 1], now)
    BY <1>5
  <1> HIDE DEF step
  <1>6. PICK f : Recurs(f, V, bs, step)
    <2>1. bs \in V
      BY <1>2
    <2> QED
      BY <1>4, <2>1, PrimitiveRecursion
  <1>7. f \in [Nat -> V] /\ f[0] = bs /\ \A n \in Nat : f[n + 1] = step[n][f[n]]
    BY <1>6 DEF Recurs
  <1> DEFINE h == [n \in 0..N |-> f[n]]
  <1>8. Is(h)
    <2>1. ASSUME NEW n \in 0..N PROVE h[n] = IF n = 0 THEN bs ELSE Pushed(h[n - 1], events[n], now)
      <3> SUFFICES ASSUME n # 0 PROVE h[n] = Pushed(h[n - 1], events[n], now)
        BY <1>7
      <3>1. n - 1 \in Nat /\ n - 1 \in 0..N /\ n - 1 < N /\ (n - 1) + 1 = n
        BY <1>1
      <3>2. f[n - 1] \in V
        BY <1>7, <3>1
      <3>3. f[(n - 1) + 1] = step[n - 1][f[n - 1]]
        BY <1>7, <3>1
      <3>4. step[n - 1][f[n - 1]] = Pushed(f[n - 1], events[(n - 1) + 1], now)
        BY <1>5, <3>1, <3>2
      <3> QED
        BY <3>1, <3>3, <3>4
    <2> QED
      BY <2>1
  <1> HIDE DEF h
  <1> DEFINE after == CHOOSE g : Is(g)
  <1>9. Spread(bs, events, now) = after[N]
    BY DEF Spread, N
  <1>10. Is(after)
    <2> HIDE DEF Is
    <2> QED
      BY <1>8
  <1> HIDE DEF after
  <1>11. after[0] = bs /\ \A n \in 1..N : after[n] = Pushed(after[n - 1], events[n], now)
    <2>1. \A n \in 0..N : after[n] = IF n = 0 THEN bs ELSE Pushed(after[n - 1], events[n], now)
      <3>1. after = [n \in 0..N |-> IF n = 0 THEN bs ELSE Pushed(after[n - 1], events[n], now)]
        BY <1>10
      <3> QED
        BY <3>1, Zenon
    <2>2. 0 \in 0..N /\ \A n \in 1..N : n \in 0..N /\ n # 0
      BY <1>1
    <2> QED
      BY <2>1, <2>2
  <1> DEFINE Good(v, n) ==
               /\ Sorted(v, now)
               /\ Total(v) = Total(bs) + n
               /\ \A i \in 1..n : Holds(v, events[i])
               /\ \A x \in Events : Holds(bs, x) => Holds(v, x)
             S == {n \in Nat : n <= N => Good(after[n], n)}
  <1>12. Total(bs) \in Nat
    BY TotalIs DEF Sorted
  <1>13. 0 \in S
    BY <1>1, <1>11, <1>12
  <1>14. ASSUME NEW n \in Nat, n \in S PROVE n + 1 \in S
    <2> SUFFICES ASSUME n + 1 <= N PROVE Good(after[n + 1], n + 1)
      OBVIOUS
    <2> DEFINE v == after[n]
               w == after[n + 1]
               e == events[n + 1]
    <2>1. Good(v, n)
      BY <1>1, <1>14
    <2>2. n + 1 \in 1..N /\ (n + 1) - 1 = n
      BY <1>1
    <2>3. w = Pushed(v, e, now) /\ e \in Near(now)
      BY <1>1, <1>11, <2>2
    <2>4. \A i \in 1..n + 1 : i = n + 1 \/ (i \in 1..n /\ events[i] \in Events)
      BY <1>1, <2>2 DEF Near
    <2> HIDE DEF v, w
    <2>5. Sorted(w, now) /\ Total(w) = Total(v) + 1 /\ Holds(w, e) /\ \A x \in Events : Holds(v, x) => Holds(w, x)
      BY <2>1, <2>3, PushedIs
    <2>6. Total(w) = Total(bs) + (n + 1)
      BY <1>12, <2>1, <2>5
    <2>7. \A i \in 1..n + 1 : Holds(w, events[i])
      BY <2>1, <2>4, <2>5
    <2> QED
      BY <2>1, <2>5, <2>6, <2>7 DEF w
  <1> HIDE DEF S
  <1>15. Good(after[N], N)
    <2>1. N \in S
      BY <1>1, <1>13, <1>14, NaturalInduction
    <2> QED
      BY <1>1, <2>1 DEF S
  <1> QED
    BY <1>9, <1>15 DEF N

-----------------------------------------------------------------------------
(* Dequeueing.                                                              *)

\* An event in the heap is in its bucket, and not far ahead.
LEMMA HeldIs ==
  ASSUME NEW bs, NEW now, Sorted(bs, now), NEW e, Holds(bs, e)
  PROVE  /\ e \in Near(now)
         /\ Bucket(e.time, now) \in Buckets
         /\ \E i \in 1..Len(bs[Bucket(e.time, now)]) : bs[Bucket(e.time, now)][i] = e
  <1>1. PICK k \in Buckets : \E i \in 1..Len(bs[k]) : bs[k][i] = e
    BY DEF Holds
  <1>2. bs[k] \in Seq(Home(k, now))
    BY <1>1 DEF Sorted
  <1>3. e \in Home(k, now)
    BY <1>1, <1>2
  <1> QED
    BY <1>1, <1>3 DEF Home

\* The first bucket that is not empty has the event that is the least far
\* ahead, and the time dequeue moves to is its time.
LEMMA EarliestIs ==
  ASSUME curTime \in Nat, Sorted(buckets, curTime), Total(buckets) # 0
  PROVE  /\ First \in Buckets /\ First \in Nat
         /\ \A k \in Buckets : k < First => buckets[k] = <<>>
         /\ TimeOf(First) \in Times
         /\ Ahead(TimeOf(First), curTime % Modulus) <= Horizon
         /\ Bucket(TimeOf(First), curTime) = First
         /\ \E e \in Events : Holds(buckets, e) /\ e.time = TimeOf(First)
         /\ \A e \in Events : Holds(buckets, e) =>
              Ahead(TimeOf(First), curTime % Modulus) <= Ahead(e.time, curTime % Modulus)
  <1> DEFINE c == curTime % Modulus
             F == {k \in Buckets : buckets[k] # <<>>}
             T == {buckets[First][i].time : i \in 1..Len(buckets[First])}
             t == TimeOf(First)
  <1>1. c \in Times /\ buckets \in Heaps /\ Width \in Nat
    BY NowIs, PowerIs DEF Sorted
  <1>2. F # {} /\ F \in SUBSET Nat
    BY <1>1, TotalZero DEF Buckets
  <1>3. First \in F /\ \A k \in F : First <= k
    <2> HIDE DEF F
    <2>1. \E x \in F : \A y \in F : x <= y
      BY <1>2, LeastNatural
    <2>2. First = Least(F)
      BY DEF First, F
    <2> QED
      BY <2>1, <2>2 DEF Least
  <1>4. First \in Buckets /\ First \in Nat /\ buckets[First] # <<>> /\ buckets[First] \in Seq(Home(First, curTime))
    BY <1>2, <1>3 DEF Sorted
  <1>5. ASSUME NEW k \in Buckets, k < First PROVE buckets[k] = <<>>
    <2>1. k \in Nat
      BY DEF Buckets
    <2> QED
      BY <1>3, <1>4, <1>5, <2>1
  <1>6. \A i \in 1..Len(buckets[First]) : buckets[First][i] \in Home(First, curTime)
    BY <1>4
  <1>7. 1 \in 1..Len(buckets[First])
    BY <1>4
  <1>8. \A u \in T : /\ u \in Times /\ Ahead(u, c) <= Horizon /\ Bucket(u, curTime) = First
                     /\ \E e \in Events : Holds(buckets, e) /\ e.time = u
    BY <1>4, <1>6 DEF Home, Near, Events, Holds
  <1>9. t \in T /\ \A u \in T : t <= u
    <2>1. T # {} /\ T \in SUBSET Nat
      <3>1. buckets[First][1].time \in T
        BY <1>7
      <3> HIDE DEF T
      <3>2. \A u \in T : u \in Nat
        BY <1>8 DEF Times
      <3> QED
        BY <3>1, <3>2
    <2>2. t = Least(T)
      BY DEF TimeOf
    <2> HIDE DEF T, t
    <2>3. \E x \in T : \A y \in T : x <= y
      BY <2>1, LeastNatural
    <2> QED
      BY <2>2, <2>3 DEF Least
  <1>10. /\ t \in Times /\ Ahead(t, c) <= Horizon /\ Bucket(t, curTime) = First
         /\ \E e \in Events : Holds(buckets, e) /\ e.time = t
    BY <1>8, <1>9
  <1>11. ASSUME NEW e \in Events, Holds(buckets, e) PROVE Ahead(t, c) <= Ahead(e.time, c)
    <2> DEFINE u == e.time
               k == Bucket(u, curTime)
    <2>1. /\ u \in Times /\ Ahead(u, c) <= Horizon /\ k \in Buckets
          /\ \E i \in 1..Len(buckets[k]) : buckets[k][i] = e
      BY <1>11, HeldIs DEF Near, Events
    <2>2. buckets[k] # <<>> /\ k \in Nat
      BY <1>1, <2>1 DEF Buckets
    <2>3. First <= k
      BY <1>3, <2>1, <2>2
    <2>4. First = k => t <= u
      <3> HAVE First = k
      <3>1. u \in T
        BY <2>1
      <3> QED
        BY <1>9, <3>1
    <2>5. c = curTime % Modulus /\ k = Bucket(u, curTime) /\ u = e.time
      OBVIOUS
    <2> HIDE DEF c, t, u, k, T
    <2>6. CASE First = k
      BY <1>1, <1>10, <2>1, <2>4, <2>5, <2>6, OrderInBucket
    <2>7. CASE First < k
      <3>1. Ahead(t, c) < Ahead(u, c)
        BY <1>1, <1>10, <2>1, <2>5, <2>7, OrderOfBuckets
      <3>2. Ahead(t, c) \in Nat /\ Ahead(u, c) \in Nat
        BY <1>1, <1>10, <2>1, AheadIs DEF Times
      <3> QED
        BY <3>1, <3>2, <2>5
    <2> QED
      BY <1>4, <2>2, <2>3, <2>6, <2>7 DEF c, t, u
  <1> QED
    BY <1>4, <1>5, <1>10, <1>11

\* dequeue moves the time to that of the event that is the least far ahead.
LEMMA SettledTimeIs ==
  ASSUME curTime \in Nat, Sorted(buckets, curTime), Total(buckets) # 0
  PROVE  /\ SettledTime \in Nat
         /\ SettledTime = curTime + Ahead(TimeOf(First), curTime % Modulus)
         /\ SettledTime % Modulus = TimeOf(First)
  <1> DEFINE c == curTime % Modulus
             t == TimeOf(First)
  <1>1. /\ First \in Buckets /\ First \in Nat /\ t \in Times
        /\ Ahead(t, c) <= Horizon /\ Bucket(t, curTime) = First
    BY EarliestIs
  <1>2. c \in Times
    BY NowIs
  <1>3. Ahead(t, c) \in Nat
    BY <1>1, <1>2, AheadIs DEF Times
  <1>4. CASE First = 0
    <2>1. t = c
      BY <1>1, <1>4, InFirstBucket
    <2>2. Ahead(t, c) = 0
      BY <1>2, <2>1 DEF Ahead, Times
    <2> QED
      BY <1>4, <2>2, <2>1 DEF SettledTime
  <1>5. CASE First = 1
    <2>1. 1 \in 1..Width /\ Agree(t, c, 1) /\ ~Agree(t, c, 1 - 1)
      BY <1>1, <1>5, InBucket
    <2>2. c \in Nat /\ t \in Nat /\ Power[1] = 2 /\ t \div 2 = c \div 2 /\ 1 - 1 = 0 /\ Width \in Nat
      BY <1>1, <1>2, <2>1, PowerIs DEF Agree, Times
    <2>3. CASE 1 < Width
      <3>1. c < t
        BY <1>1, <1>2, <2>1, <2>3, LaterBlock
      <3>2. t = c + 1
        BY <2>2, <3>1
      <3> QED
        BY <2>2, <3>1, <3>2, MovesTo, <1>1, <1>5 DEF Ahead, SettledTime
    <2>4. CASE Width = 1
      <3>1. Half = 1 /\ Horizon = 0
        BY <2>4, PowerIs, Cycle DEF Half
      <3>2. Ahead(t, c) = 0
        BY <1>1, <1>3, <3>1
      <3>3. t = c
        BY <1>1, <1>2, <3>2, Cycle DEF Ahead, Times
      <3> QED
        BY <2>1, <3>3 DEF Agree
    <2> QED
      BY <2>1, <2>2, <2>3, <2>4
  <1>6. CASE First # 0 /\ First # 1
    <2>1. SettledTime = Widen(t, curTime)
      BY <1>6 DEF SettledTime
    <2> QED
      BY <1>1, <1>3, <2>1, WidenIs, MovesTo
  <1> QED
    BY <1>3, <1>4, <1>5, <1>6, MovesTo, <1>1

\* A sequence is one over any set its members are in.
LEMMA SeqOver ==
  ASSUME NEW S, NEW T, NEW s \in Seq(S), \A i \in 1..Len(s) : s[i] \in T
  PROVE  s \in Seq(T)
  <1>1. Len(s) \in Nat /\ s \in [1..Len(s) -> S]
    BY LenProperties
  <1>2. s \in [1..Len(s) -> T]
    BY <1>1
  <1> QED
    BY <1>1, <1>2, SeqDef

\* What becomes of an event in the heap when the time moves to the earliest one.
LEMMA MovedIs ==
  ASSUME curTime \in Nat, Sorted(buckets, curTime), Total(buckets) # 0,
         NEW e \in Events, Holds(buckets, e)
  PROVE  /\ e \in Near(SettledTime)
         /\ Bucket(e.time, curTime) \in Buckets /\ First <= Bucket(e.time, curTime)
         /\ First < Bucket(e.time, curTime) => Bucket(e.time, SettledTime) = Bucket(e.time, curTime)
         /\ First = Bucket(e.time, curTime) /\ First # 0 =>
              Bucket(e.time, SettledTime) < Bucket(e.time, curTime)
  <1> DEFINE c == curTime % Modulus
             t == TimeOf(First)
             u == e.time
             k == Bucket(u, curTime)
             next == SettledTime
  <1>1. /\ First \in Nat /\ t \in Times /\ Ahead(t, c) <= Ahead(u, c) /\ Bucket(t, curTime) = First
        /\ \A j \in Buckets : j < First => buckets[j] = <<>>
    BY EarliestIs
  <1>2. next \in Nat /\ next % Modulus = t
    BY SettledTimeIs
  <1>3. /\ u \in Times /\ Ahead(u, c) <= Horizon /\ k \in Buckets
        /\ \E i \in 1..Len(buckets[k]) : buckets[k][i] = e
    BY HeldIs DEF Near, Events
  <1>4. c \in Times /\ k \in Nat
    BY <1>3, NowIs DEF Buckets
  <1>5. First <= k
    <2>1. buckets[k] # <<>>
      BY <1>3
    <2> QED
      BY <1>1, <1>3, <1>4, <2>1
  <1>6. Ahead(u, t) <= Horizon
    <2> HIDE DEF c, t, u
    <2>1. Ahead(u, t) = Ahead(u, c) - Ahead(t, c)
      BY <1>1, <1>3, <1>4, AheadFrom
    <2>2. Ahead(u, c) \in Times /\ Ahead(t, c) \in Times
      BY <1>1, <1>3, <1>4, AheadIs
    <2>3. Ahead(u, c) \in Nat /\ Ahead(t, c) \in Nat
      BY <2>2 DEF Times
    <2> QED
      BY <1>3, <2>1, <2>3, Cycle
  <1>7. e \in Near(next)
    BY <1>2, <1>6 DEF Near
  <1>8. /\ First < k => Bucket(u, next) = k
        /\ First = k /\ First # 0 => Bucket(u, next) < k
    <2> HIDE DEF c, t, u, next
    <2>1. Bucket(next % Modulus, curTime) = First /\ next % Modulus \in Times
      BY <1>1, <1>2
    <2>2. Bucket(next % Modulus, curTime) <= Bucket(u, curTime)
      BY <1>5, <2>1
    <2> QED
      BY <1>2, <1>3, <2>1, <2>2, BucketAfter
  <1> QED
    BY <1>3, <1>5, <1>7, <1>8

\* The buckets when dequeue has moved the time are in order again, and have the
\* same events, of which at least one is due.
LEMMA SettledIs ==
  ASSUME curTime \in Nat, Sorted(buckets, curTime), Total(buckets) # 0
  PROVE  /\ Sorted(Settled, SettledTime)
         /\ Total(Settled) = Total(buckets)
         /\ \A x \in Events : Holds(buckets, x) => Holds(Settled, x)
         /\ Settled[0] # <<>>
  <1> DEFINE next == SettledTime
  <1>1. /\ First \in Buckets /\ First \in Nat /\ next \in Nat /\ 0 \in Buckets
        /\ buckets \in Heaps /\ \A k \in Buckets : k \in Nat /\ (k < First => buckets[k] = <<>>)
    BY EarliestIs, SettledTimeIs, PowerIs DEF Sorted, Buckets
  <1> HIDE DEF next
  <1>2. ASSUME NEW k \in Buckets, NEW i \in 1..Len(buckets[k])
        PROVE  buckets[k][i] \in Events /\ Holds(buckets, buckets[k][i]) /\ Bucket(buckets[k][i].time, curTime) = k
    <2>1. buckets[k] \in Seq(Home(k, curTime))
      BY DEF Sorted
    <2>2. buckets[k][i] \in Home(k, curTime)
      BY <2>1
    <2> QED
      BY <2>2 DEF Home, Near, Holds
  <1>3. ASSUME NEW k \in Buckets, k # First PROVE buckets[k] \in Seq(Home(k, next))
    <2>1. CASE k < First
      <3>1. buckets[k] = <<>>
        BY <1>1, <2>1
      <3> QED
        BY <3>1, EmptySeq
    <2>2. CASE First < k
      <3>1. ASSUME NEW i \in 1..Len(buckets[k]) PROVE buckets[k][i] \in Home(k, next)
        BY <1>2, <2>2, MovedIs DEF Home, next
      <3>2. buckets[k] \in Seq(Events)
        BY <1>1 DEF Heaps
      <3> QED
        BY <3>1, <3>2, SeqOver
    <2> QED
      BY <1>1, <1>3, <2>1, <2>2
  <1>4. ASSUME First # 0, NEW i \in 1..Len(buckets[First])
        PROVE  /\ buckets[First][i] \in Near(next)
               /\ Bucket(buckets[First][i].time, next) < First
    BY <1>1, <1>2, <1>4, MovedIs DEF next
  <1>5. buckets[First] \in Seq(Events) /\ buckets[0] \in Seq(Events)
    BY <1>1 DEF Heaps
  <1>6. /\ Sorted(Settled, next) /\ Total(Settled) = Total(buckets)
        /\ \A x \in Events : Holds(buckets, x) => Holds(Settled, x)
    <2>1. CASE First = 0
      <3>1. Settled = buckets /\ next = curTime
        BY <2>1 DEF Settled, SettledTime, next
      <3> QED
        BY <3>1
    <2>2. CASE First = 1
      <3> DEFINE bs == [buckets EXCEPT ![0] = buckets[1]]
                 cs == Settled
      <3>1. cs = [buckets EXCEPT ![0] = buckets[1], ![1] = buckets[0]]
        BY <2>2 DEF Settled
      <3>2. buckets \in Heaps /\ 1 \in Buckets /\ 0 \in Buckets /\ buckets[0] = <<>>
        BY <1>1, <2>2
      <3>3. /\ bs \in Heaps /\ cs \in Heaps
            /\ cs[0] = buckets[1] /\ cs[1] = buckets[0] /\ bs[0] = buckets[1] /\ bs[1] = buckets[1]
            /\ \A k \in Buckets \ {0} : bs[k] = buckets[k]
            /\ \A k \in Buckets \ {1} : cs[k] = bs[k]
            /\ \A k \in Buckets \ {0, 1} : cs[k] = buckets[k]
        BY <3>1, <3>2 DEF Heaps
      <3> HIDE DEF bs, cs
      <3>4. buckets[1] \in Seq(Home(0, next))
        <4>1. ASSUME NEW i \in 1..Len(buckets[1]) PROVE buckets[1][i] \in Home(0, next)
          <5>1. buckets[1][i] \in Near(next) /\ Bucket(buckets[1][i].time, next) < 1
            BY <1>4, <2>2
          <5>2. Bucket(buckets[1][i].time, next) \in Nat
            <6>1. buckets[1][i].time \in Times
              BY <5>1 DEF Near, Events
            <6> QED
              BY <1>1, <6>1, BucketIs DEF Buckets
          <5> QED
            BY <5>1, <5>2 DEF Home
        <4> QED
          BY <1>5, <2>2, <4>1, SeqOver
      <3>5. Sorted(cs, next)
        <4>1. \A k \in Buckets \ {0, 1} : cs[k] \in Seq(Home(k, next))
          BY <1>3, <2>2, <3>3
        <4>2. cs[0] \in Seq(Home(0, next)) /\ cs[1] \in Seq(Home(1, next))
          BY <3>2, <3>3, <3>4
        <4> QED
          BY <3>3, <4>1, <4>2 DEF Sorted
      <3>6. Total(cs) = Total(buckets)
        <4> DEFINE l == Len(buckets[0])
                   m == Len(buckets[1])
        <4>1. l \in Nat /\ m \in Nat /\ Len(bs[0]) = m /\ Len(bs[1]) = m /\ Len(cs[1]) = l
          BY <1>5, <2>2, <3>3
        <4> HIDE DEF l, m
        <4>2. Total(bs) = Total(buckets) + Len(bs[0]) - l
          BY <3>2, <3>3, TotalChange DEF l
        <4>3. Total(cs) = Total(bs) + Len(cs[1]) - Len(bs[1])
          BY <3>2, <3>3, TotalChange
        <4>4. Total(buckets) \in Nat /\ Total(bs) \in Nat /\ Total(cs) \in Nat
          BY <3>2, <3>3, TotalIs
        <4> QED
          BY <4>1, <4>2, <4>3, <4>4
      <3>7. ASSUME NEW x \in Events, Holds(buckets, x) PROVE Holds(cs, x)
        <4>1. PICK k \in Buckets : \E i \in 1..Len(buckets[k]) : buckets[k][i] = x
          BY <3>7 DEF Holds
        <4>2. CASE k = 1
          BY <3>2, <3>3, <4>1, <4>2 DEF Holds
        <4>3. CASE k # 1
          <5>1. k # 0
            BY <3>2, <4>1
          <5>2. cs[k] = buckets[k]
            BY <3>3, <4>3, <5>1
          <5> QED
            BY <4>1, <5>2 DEF Holds
        <4> QED
          BY <4>2, <4>3
      <3> QED
        BY <3>5, <3>6, <3>7 DEF cs
    <2>3. CASE First # 0 /\ First # 1
      <3> DEFINE bs == [buckets EXCEPT ![First] = <<>>]
                 events == buckets[First]
      <3>1. Settled = Spread(bs, events, next)
        BY <2>3 DEF Settled, next
      <3>2. bs \in Heaps /\ bs[First] = <<>> /\ \A k \in Buckets \ {First} : bs[k] = buckets[k]
        BY <1>1 DEF Heaps
      <3> HIDE DEF bs
      <3>3. events \in Seq(Near(next))
        BY <1>4, <1>5, <2>3, SeqOver
      <3>4. Sorted(bs, next)
        <4>1. bs[First] \in Seq(Home(First, next))
          BY <3>2, EmptySeq
        <4>2. \A k \in Buckets : bs[k] \in Seq(Home(k, next))
          BY <1>3, <3>2, <4>1
        <4> QED
          BY <3>2, <4>2 DEF Sorted
      <3>5. /\ Sorted(Settled, next) /\ Total(Settled) = Total(bs) + Len(events)
            /\ \A i \in 1..Len(events) : Holds(Settled, events[i])
            /\ \A x \in Events : Holds(bs, x) => Holds(Settled, x)
        BY <1>1, <3>1, <3>3, <3>4, SpreadIs
      <3>6. Total(Settled) = Total(buckets)
        <4>1. Total(bs) = Total(buckets) + Len(bs[First]) - Len(events)
          BY <1>1, <3>2, TotalChange
        <4>2. Total(buckets) \in Nat /\ Total(bs) \in Nat /\ Len(events) \in Nat /\ Len(bs[First]) = 0
          BY <1>1, <1>5, <3>2, TotalIs
        <4> HIDE DEF events
        <4> QED
          BY <3>5, <4>1, <4>2
      <3>7. ASSUME NEW x \in Events, Holds(buckets, x) PROVE Holds(Settled, x)
        <4>1. PICK k \in Buckets : \E i \in 1..Len(buckets[k]) : buckets[k][i] = x
          BY <3>7 DEF Holds
        <4>2. CASE k = First
          BY <3>5, <4>1, <4>2
        <4>3. CASE k # First
          BY <3>2, <3>5, <4>1, <4>3 DEF Holds
        <4> QED
          BY <4>2, <4>3
      <3> QED
        BY <3>5, <3>6, <3>7
    <2> QED
      BY <2>1, <2>2, <2>3
  <1>7. Settled[0] # <<>>
    <2>1. PICK e \in Events : Holds(buckets, e) /\ e.time = TimeOf(First)
      BY EarliestIs
    <2>2. Holds(Settled, e) /\ e.time \in Times
      BY <1>6, <2>1 DEF Events
    <2>3. Bucket(e.time, next) = 0
      <3>1. next % Modulus = e.time
        BY <2>1, SettledTimeIs DEF next
      <3> QED
        BY <1>1, <2>2, <3>1, InFirstBucket
    <2>4. \E i \in 1..Len(Settled[Bucket(e.time, next)]) : Settled[Bucket(e.time, next)][i] = e
      BY <1>6, <2>2, HeldIs
    <2> QED
      BY <2>3, <2>4
  <1> QED
    BY <1>6, <1>7 DEF next

\* What dequeue takes out is the event that is the least far ahead, at the time
\* that comes, and it leaves all the others in order.
LEMMA Dequeued ==
  ASSUME curTime \in Nat, Sorted(buckets, curTime), Total(buckets) # 0
  PROVE  /\ Out \in Events /\ SettledTime \in Nat
         /\ SettledTime = curTime + Ahead(Out.time, curTime % Modulus)
         /\ SettledTime % Modulus = Out.time
         /\ Ahead(Out.time, curTime % Modulus) <= Horizon
         /\ \A e \in Events : Holds(buckets, e) =>
              Ahead(Out.time, curTime % Modulus) <= Ahead(e.time, curTime % Modulus)
         /\ Sorted(Rest, SettledTime) /\ Total(Rest) = Total(buckets) - 1
         /\ \A e \in Events : Holds(buckets, e) /\ e # Out => Holds(Rest, e)
  <1> DEFINE next == SettledTime
             s == Settled[0]
             n == Len(s)
  <1>1. /\ Sorted(Settled, next) /\ Total(Settled) = Total(buckets)
        /\ \A x \in Events : Holds(buckets, x) => Holds(Settled, x)
        /\ s # <<>>
    BY SettledIs
  <1>2. /\ next \in Nat /\ next = curTime + Ahead(TimeOf(First), curTime % Modulus)
        /\ next % Modulus = TimeOf(First)
    BY SettledTimeIs
  <1>3. 0 \in Buckets /\ Settled \in Heaps /\ s \in Seq(Home(0, next)) /\ s \in Seq(Events)
    BY <1>1, PowerIs DEF Sorted, Heaps, Buckets
  <1> HIDE DEF next, s
  <1>4. n \in Nat \ {0} /\ Out = s[n] /\ \A i \in 1..n : s[i] \in Home(0, next)
    BY <1>1, <1>3 DEF Out, Last, s
  <1> HIDE DEF n
  <1>5. Out \in Events /\ Out.time = next % Modulus
    <2>1. Out \in Home(0, next)
      BY <1>4
    <2>2. Out.time \in Times /\ Out \in Events
      BY <2>1 DEF Home, Near, Events
    <2>3. Bucket(Out.time, next) = 0
      BY <2>1 DEF Home
    <2> QED
      BY <1>2, <2>2, <2>3, InFirstBucket
  <1> DEFINE f == Front(s)
  <1>6. f \in Seq(Home(0, next)) /\ f \in Seq(Events) /\ Len(f) = n - 1 /\ \A i \in 1..n - 1 : f[i] = s[i]
    <2>1. f = SubSeq(s, 1, n - 1)
      BY DEF Front, n
    <2>2. \A i \in 1..n - 1 : s[i] \in Home(0, next) /\ s[i] \in Events
      BY <1>4 DEF Home, Near
    <2>3. n - 1 \in Nat
      BY <1>4
    <2> HIDE DEF f
    <2> QED
      BY <1>4, <2>1, <2>2, <2>3, SubSeqProperties
  <1> HIDE DEF f
  <1>7. /\ Rest \in Heaps /\ Rest[0] = f /\ \A k \in Buckets \ {0} : Rest[k] = Settled[k]
    BY <1>3, <1>6 DEF Rest, Heaps, f, s
  <1>8. Sorted(Rest, next)
    BY <1>1, <1>6, <1>7 DEF Sorted
  <1>9. Total(Rest) = Total(buckets) - 1
    <2>1. Total(Rest) = Total(Settled) + Len(f) - n
      BY <1>3, <1>7, TotalChange DEF n, s
    <2>2. Total(Settled) \in Nat
      BY <1>3, TotalIs
    <2> QED
      BY <1>1, <1>4, <1>6, <2>1, <2>2
  <1>10. ASSUME NEW e \in Events, Holds(buckets, e), e # Out PROVE Holds(Rest, e)
    <2>1. PICK k \in Buckets : \E i \in 1..Len(Settled[k]) : Settled[k][i] = e
      BY <1>1, <1>10 DEF Holds
    <2>2. CASE k = 0
      <3>1. PICK i \in 1..n : s[i] = e
        BY <2>1, <2>2 DEF n, s
      <3>2. i \in 1..n - 1
        BY <1>4, <1>10, <3>1
      <3>3. i \in 1..Len(f) /\ f[i] = e
        BY <1>6, <3>1, <3>2
      <3> QED
        BY <1>3, <1>7, <3>3 DEF Holds
    <2>3. CASE k # 0
      BY <1>7, <2>1, <2>3 DEF Holds
    <2> QED
      BY <2>2, <2>3
  <1>11. /\ Ahead(Out.time, curTime % Modulus) <= Horizon
         /\ \A e \in Events : Holds(buckets, e) =>
              Ahead(Out.time, curTime % Modulus) <= Ahead(e.time, curTime % Modulus)
    BY <1>2, <1>5, EarliestIs
  <1> QED
    BY <1>2, <1>5, <1>8, <1>9, <1>10, <1>11 DEF next

-----------------------------------------------------------------------------
(* The inductive invariant.                                                 *)

Trackers == [desired : Times, queued : Times, hasDesired : BOOLEAN, hasQueued : BOOLEAN]

TypeOK ==
  /\ curTime \in Nat
  /\ tracker \in [Items -> Trackers]
  /\ look \in Items \cup {"none", "pending"}

\* The counter counts the events in the heap.
Counted == enqueued = Total(buckets)

\* The event a tracker counts as queued is in the heap.
Queued ==
  \A i \in Items : tracker[i].hasQueued => Holds(buckets, [item |-> i, time |-> tracker[i].queued])

\* An item that wants to be looked at is woken up no later than it wants, and
\* does not want to be looked at in the past.
Awake ==
  \A i \in Items : tracker[i].hasDesired =>
    /\ tracker[i].hasQueued
    /\ Ahead(tracker[i].desired, curTime % Modulus) <= Horizon
    /\ Ahead(tracker[i].queued, curTime % Modulus) <= Ahead(tracker[i].desired, curTime % Modulus)

QueueInv == TypeOK /\ Sorted(buckets, curTime) /\ Counted /\ Queued /\ Awake

\* A time that is some way after the present is as far ahead on the cycle.
LEMMA AheadOfNow ==
  ASSUME NEW now \in Nat, NEW a \in 0..Horizon
  PROVE  /\ (now + a) % Modulus \in Times
         /\ Ahead((now + a) % Modulus, now % Modulus) = a
  <1> DEFINE c == now % Modulus
             q == now \div Modulus
             t == (now + a) % Modulus
  <1>1. /\ Modulus \in Nat \ {0} /\ a \in Nat /\ a < Modulus
        /\ c \in Nat /\ c < Modulus /\ q \in Int /\ now = Modulus * q + c
    <2>1. Modulus \in Nat \ {0} /\ now \in Int /\ a \in Nat /\ a < Modulus
      BY Cycle
    <2> QED
      BY <2>1, DivMod
  <1> HIDE DEF c, q
  <1>2. Modulus * q \in Int /\ Modulus * (q + 1) = Modulus * q + Modulus /\ q + 1 \in Int /\ now + a \in Int
    BY <1>1
  <1>3. CASE c + a < Modulus
    <2>1. c + a \in Nat /\ now + a = Modulus * q + (c + a)
      BY <1>1, <1>2
    <2>2. t = c + a
      BY <1>1, <1>2, <1>3, <2>1, DivUnique
    <2> HIDE DEF t
    <2> QED
      BY <1>1, <1>3, <2>2 DEF Ahead, Times, t, c
  <1>4. CASE ~(c + a < Modulus)
    <2>1. /\ c + a - Modulus \in Nat /\ c + a - Modulus < Modulus
          /\ now + a = Modulus * (q + 1) + (c + a - Modulus)
      BY <1>1, <1>2, <1>4
    <2>2. t = c + a - Modulus
      BY <1>1, <1>2, <2>1, DivUnique
    <2> HIDE DEF t
    <2> QED
      BY <1>1, <1>4, <2>1, <2>2 DEF Ahead, Times, t, c
  <1> QED
    BY <1>3, <1>4

\* Initially and after a reset there is nothing in the heap.
LEMMA EmptyIs ==
  /\ Sorted([k \in Buckets |-> <<>>], 0)
  /\ Total([k \in Buckets |-> <<>>]) = 0
  <1> DEFINE bs == [k \in Buckets |-> <<>>]
  <1>1. bs \in Heaps /\ \A k \in Buckets : bs[k] = <<>>
    BY EmptySeq DEF Heaps
  <1> HIDE DEF bs
  <1>2. Sorted(bs, 0)
    BY <1>1, EmptySeq DEF Sorted
  <1>3. Total(bs) = 0
    BY <1>1, TotalZero
  <1> QED
    BY <1>2, <1>3 DEF bs

\* What an item's event and its wish become when dequeue moves the time.
LEMMA TimeMoves ==
  ASSUME QueueInv, enqueued > 0, NEW i \in Items
  PROVE  /\ tracker[i].hasQueued /\ ~(Out.item = i /\ Out.time = tracker[i].queued) =>
              Holds(Rest, [item |-> i, time |-> tracker[i].queued])
         /\ tracker[i].hasDesired =>
              LET old == Ahead(tracker[i].desired, curTime % Modulus)
                  new == Ahead(tracker[i].desired, SettledTime % Modulus)
              IN /\ old \in Nat /\ new \in Nat /\ new <= Horizon
                 /\ Ahead(tracker[i].queued, SettledTime % Modulus) <= new
                 /\ SettledTime + new = curTime + old
                 /\ (tracker[i].desired = Out.time) <=> (new = 0)
  <1> DEFINE e == [item |-> i, time |-> tracker[i].queued]
             c == curTime % Modulus
             next == SettledTime
             t == Out.time
             d == tracker[i].desired
             u == tracker[i].queued
  <1>1. /\ curTime \in Nat /\ Sorted(buckets, curTime) /\ Total(buckets) # 0 /\ c \in Times
        /\ tracker[i] \in Trackers /\ d \in Times /\ u \in Times
    BY NowIs DEF QueueInv, TypeOK, Counted, Trackers
  <1>2. /\ Out \in Events /\ next \in Nat /\ next = curTime + Ahead(t, c) /\ next % Modulus = t
        /\ \A x \in Events : Holds(buckets, x) => Ahead(t, c) <= Ahead(x.time, c)
        /\ \A x \in Events : Holds(buckets, x) /\ x # Out => Holds(Rest, x)
    BY <1>1, Dequeued
  <1>3. e \in Events /\ t \in Times
    BY <1>1, <1>2 DEF Events
  <1>4. ASSUME tracker[i].hasQueued PROVE Holds(buckets, e)
    BY <1>4 DEF QueueInv, Queued
  <1>5. ASSUME tracker[i].hasQueued, ~(Out.item = i /\ t = u) PROVE Holds(Rest, e)
    BY <1>2, <1>3, <1>4, <1>5
  <1>6. ASSUME tracker[i].hasDesired
        PROVE  /\ Ahead(d, c) \in Nat /\ Ahead(d, t) \in Nat /\ Ahead(d, t) <= Horizon
               /\ Ahead(u, t) <= Ahead(d, t)
               /\ next + Ahead(d, t) = curTime + Ahead(d, c)
               /\ (d = t) <=> (Ahead(d, t) = 0)
    <2>1. tracker[i].hasQueued /\ Ahead(d, c) <= Horizon /\ Ahead(u, c) <= Ahead(d, c)
      BY <1>6 DEF QueueInv, Awake
    <2>2. Ahead(t, c) <= Ahead(u, c)
      BY <1>2, <1>3, <1>4, <2>1
    <2> HIDE DEF c, next, t, d, u
    <2>3. Ahead(t, c) \in Nat /\ Ahead(u, c) \in Nat /\ Ahead(d, c) \in Nat /\ Ahead(d, t) \in Nat
      <3>1. Ahead(t, c) \in Times /\ Ahead(u, c) \in Times /\ Ahead(d, c) \in Times /\ Ahead(d, t) \in Times
        BY <1>1, <1>3, AheadIs
      <3> QED
        BY <3>1 DEF Times
    <2>4. Ahead(t, c) <= Ahead(d, c)
      BY <2>1, <2>2, <2>3
    <2>5. Ahead(u, t) = Ahead(u, c) - Ahead(t, c) /\ Ahead(d, t) = Ahead(d, c) - Ahead(t, c)
      BY <1>1, <1>3, <2>2, <2>4, AheadFrom
    <2>6. (d = t) <=> (Ahead(d, t) = 0)
      BY <1>1, <1>3, Cycle DEF Ahead, Times
    <2> QED
      BY <1>1, <1>2, <2>1, <2>2, <2>3, <2>5, <2>6, Cycle
  <1> QED
    BY <1>2, <1>5, <1>6

-----------------------------------------------------------------------------
(* Every step keeps the invariant.                                          *)

\* The heap and the trackers start empty, and the invariant with them.
LEMMA InitInv ==
  ASSUME Init PROVE QueueInv
  <1>1. 0 \in Times
    BY Cycle DEF Times
  <1>2. TypeOK
    BY <1>1 DEF Init, TypeOK, Default, Trackers
  <1> QED
    BY <1>2, EmptyIs DEF Init, QueueInv, Counted, Queued, Awake, Default

\* reset, between two decodings, leaves the heap and the trackers as new.
LEMMA ResetInv ==
  ASSUME Reset PROVE QueueInv'
  <1>1. 0 \in Times
    BY Cycle DEF Times
  <1>2. TypeOK'
    BY <1>1 DEF Reset, TypeOK, Default, Trackers
  <1> QED
    BY <1>2, EmptyIs DEF Reset, QueueInv, Counted, Queued, Awake, Default

\* What a wish does to the item's tracker and to the heap.
LEMMA WantIs ==
  ASSUME QueueInv, NEW i \in Items, Want(i)
  PROVE  /\ \E t \in Times, q \in Times :
              /\ tracker' = [tracker EXCEPT ![i] =
                   [desired |-> t, queued |-> q, hasDesired |-> TRUE, hasQueued |-> TRUE]]
              /\ Ahead(t, curTime % Modulus) <= Horizon
              /\ Ahead(q, curTime % Modulus) <= Ahead(t, curTime % Modulus)
              /\ Holds(buckets', [item |-> i, time |-> q])
         /\ curTime' = curTime /\ look' = look
         /\ Sorted(buckets', curTime) /\ Counted'
         /\ \A x \in Events : Holds(buckets, x) => Holds(buckets', x)
  <1>1. PICK a \in 0..Horizon : SetDesired(i, curTime + a)
    BY DEF Want
  <1> DEFINE t == (curTime + a) % Modulus
             c == curTime % Modulus
             old == tracker[i].queued
             wakes == ~ tracker[i].hasQueued \/ CyclicGt(old, t)
             q == IF wakes THEN t ELSE old
             e == [item |-> i, time |-> t]
  <1>2. /\ curTime \in Nat /\ Sorted(buckets, curTime) /\ enqueued = Total(buckets)
        /\ c \in Times /\ old \in Times
        /\ tracker[i].hasQueued => Holds(buckets, [item |-> i, time |-> old])
    BY NowIs DEF QueueInv, TypeOK, Counted, Queued, Trackers
  <1>3. t \in Times /\ Ahead(t, c) = a /\ a \in Nat /\ a <= Horizon
    BY <1>2, AheadOfNow, Cycle
  <1>4. e \in Near(curTime)
    BY <1>3 DEF Near, Events
  <1>5. /\ tracker' = [tracker EXCEPT ![i] =
             [desired |-> t, queued |-> q, hasDesired |-> TRUE, hasQueued |-> TRUE]]
        /\ IF wakes
           THEN /\ buckets' = Pushed(buckets, e, curTime)
                /\ enqueued' = enqueued + 1
                /\ curTime' = curTime
           ELSE buckets' = buckets /\ curTime' = curTime /\ enqueued' = enqueued
        /\ look' = look
    BY <1>1 DEF SetDesired, heap
  <1>6. CASE wakes
    <2>1. buckets' = Pushed(buckets, e, curTime) /\ enqueued' = enqueued + 1 /\ curTime' = curTime /\ q = t
      BY <1>5, <1>6
    <2>2. /\ Sorted(buckets', curTime) /\ Total(buckets') = Total(buckets) + 1
          /\ Holds(buckets', e) /\ \A x \in Events : Holds(buckets, x) => Holds(buckets', x)
      BY <1>2, <1>4, <2>1, PushedIs
    <2> HIDE DEF t, c
    <2>3. Ahead(q, c) <= Ahead(t, c)
      BY <1>3, <2>1
    <2>4. Counted'
      BY <1>2, <2>1, <2>2 DEF Counted
    <2> QED
      BY <1>3, <1>5, <2>1, <2>2, <2>3, <2>4 DEF c
  <1>7. CASE ~wakes
    <2>1. buckets' = buckets /\ enqueued' = enqueued /\ curTime' = curTime /\ q = old
      BY <1>5, <1>7
    <2>2. tracker[i].hasQueued /\ ~CyclicGt(old, t)
      BY <1>7
    <2>3. Ahead(old, c) <= Horizon
      <3>1. [item |-> i, time |-> old] \in Near(curTime)
        BY <1>2, <2>2, HeldIs
      <3> QED
        BY <3>1 DEF Near
    <2> HIDE DEF t, c, old
    <2>4. Ahead(old, c) <= Ahead(t, c)
      <3>1. ~(Ahead(old, c) > Ahead(t, c))
        BY <1>2, <1>3, <2>2, <2>3, CyclicGtIs
      <3>2. Ahead(old, c) \in Nat
        BY <1>2, AheadIs DEF Times
      <3> QED
        BY <1>3, <3>1, <3>2
    <2>5. Counted'
      BY <1>2, <2>1 DEF Counted
    <2>6. Sorted(buckets', curTime) /\ Holds(buckets', [item |-> i, time |-> old])
      BY <1>2, <2>1, <2>2
    <2> QED
      BY <1>2, <1>3, <1>5, <2>1, <2>4, <2>5, <2>6 DEF c
  <1> QED
    BY <1>6, <1>7

\* set_desired_event, that queues an event only when none comes before it.
LEMMA WantInv ==
  ASSUME QueueInv, NEW i \in Items, Want(i)
  PROVE  QueueInv'
  <1>1. PICK t \in Times, q \in Times :
              /\ tracker' = [tracker EXCEPT ![i] =
                   [desired |-> t, queued |-> q, hasDesired |-> TRUE, hasQueued |-> TRUE]]
              /\ Ahead(t, curTime % Modulus) <= Horizon
              /\ Ahead(q, curTime % Modulus) <= Ahead(t, curTime % Modulus)
              /\ Holds(buckets', [item |-> i, time |-> q])
    BY WantIs
  <1>2. /\ curTime' = curTime /\ look' = look /\ Sorted(buckets', curTime) /\ Counted'
        /\ \A x \in Events : Holds(buckets, x) => Holds(buckets', x)
    BY WantIs
  <1>3. TypeOK /\ Queued /\ Awake
    BY DEF QueueInv
  <1>4. /\ \A j \in Items \ {i} : tracker'[j] = tracker[j]
        /\ tracker'[i] = [desired |-> t, queued |-> q, hasDesired |-> TRUE, hasQueued |-> TRUE]
    BY <1>1, <1>3 DEF TypeOK
  <1>5. TypeOK'
    BY <1>1, <1>2, <1>3 DEF TypeOK, Trackers
  <1>6. Queued'
    <2>1. ASSUME NEW j \in Items, tracker'[j].hasQueued
          PROVE  Holds(buckets', [item |-> j, time |-> tracker'[j].queued])
      <3>1. CASE j = i
        BY <1>1, <1>4, <3>1
      <3>2. CASE j # i
        <4>1. tracker'[j] = tracker[j] /\ tracker[j].queued \in Times
          BY <1>3, <1>4, <3>2 DEF TypeOK, Trackers
        <4>2. [item |-> j, time |-> tracker[j].queued] \in Events
          BY <4>1 DEF Events
        <4>3. Holds(buckets, [item |-> j, time |-> tracker[j].queued])
          BY <1>3, <2>1, <4>1 DEF Queued
        <4> QED
          BY <1>2, <4>1, <4>2, <4>3
      <3> QED
        BY <3>1, <3>2
    <2> QED
      BY <2>1 DEF Queued
  <1>7. Awake'
    BY <1>1, <1>2, <1>3, <1>4 DEF Awake
  <1> QED
    BY <1>2, <1>5, <1>6, <1>7 DEF QueueInv

\* set_no_desired_event, that leaves the event queued.
LEMMA SetNoDesiredInv ==
  ASSUME QueueInv, NEW i \in Items, SetNoDesired(i)
  PROVE  QueueInv'
  <1>1. /\ tracker' = [tracker EXCEPT ![i].hasDesired = FALSE]
        /\ buckets' = buckets /\ curTime' = curTime /\ enqueued' = enqueued /\ look' = look
    BY DEF SetNoDesired, heap
  <1>2. TypeOK /\ Queued /\ Awake
    BY DEF QueueInv
  <1>3. /\ tracker' \in [Items -> Trackers]
        /\ \A j \in Items : /\ tracker'[j].queued = tracker[j].queued
                            /\ tracker'[j].desired = tracker[j].desired
                            /\ tracker'[j].hasQueued = tracker[j].hasQueued
                            /\ tracker'[j].hasDesired => tracker[j].hasDesired
    BY <1>1, <1>2 DEF TypeOK, Trackers
  <1>4. TypeOK'
    BY <1>1, <1>2, <1>3 DEF TypeOK
  <1>5. Queued' /\ Awake'
    BY <1>1, <1>2, <1>3 DEF Queued, Awake
  <1> QED
    BY <1>1, <1>4, <1>5 DEF QueueInv, Counted

\* A slot used again: its new tracker counts nothing as queued, whatever is in the heap.
LEMMA ReuseInv ==
  ASSUME QueueInv, NEW i \in Items, Reuse(i)
  PROVE  QueueInv'
  <1>1. /\ tracker' = [tracker EXCEPT ![i] = Default]
        /\ buckets' = buckets /\ curTime' = curTime /\ enqueued' = enqueued /\ look' = look
    BY DEF Reuse, heap
  <1>2. TypeOK /\ Queued /\ Awake /\ 0 \in Times
    BY Cycle DEF QueueInv, Times
  <1>3. Default \in Trackers /\ ~Default.hasQueued /\ ~Default.hasDesired
    BY <1>2 DEF Default, Trackers
  <1>4. /\ tracker' \in [Items -> Trackers] /\ tracker'[i] = Default
        /\ \A j \in Items \ {i} : tracker'[j] = tracker[j]
    BY <1>1, <1>2, <1>3 DEF TypeOK
  <1>5. TypeOK'
    BY <1>1, <1>2, <1>4 DEF TypeOK
  <1>6. Queued' /\ Awake'
    BY <1>1, <1>2, <1>3, <1>4 DEF Queued, Awake
  <1> QED
    BY <1>1, <1>5, <1>6 DEF QueueInv, Counted

\* An event that is taken out for good was no tracker's, or is no longer.
LEMMA TakenInv ==
  ASSUME QueueInv, Taken, buckets' = Rest, enqueued' = enqueued - 1,
         look' \in Items \cup {"none", "pending"},
         tracker' \in [Items -> Trackers],
         \A j \in Items :
           \/ ~tracker'[j].hasQueued /\ ~tracker'[j].hasDesired
           \/ /\ tracker'[j] = tracker[j]
              /\ tracker[j].hasQueued => ~(Out.item = j /\ Out.time = tracker[j].queued)
  PROVE  QueueInv'
  <1>1. /\ TypeOK /\ Sorted(buckets, curTime) /\ enqueued = Total(buckets) /\ Queued /\ Awake
        /\ enqueued > 0 /\ curTime' = SettledTime
    BY DEF QueueInv, Counted, Taken
  <1>2. curTime \in Nat /\ Total(buckets) # 0
    BY <1>1 DEF TypeOK
  <1>3. SettledTime \in Nat /\ Sorted(Rest, SettledTime) /\ Total(Rest) = Total(buckets) - 1
    BY <1>1, <1>2, Dequeued
  <1>4. TypeOK'
    BY <1>1, <1>3 DEF TypeOK
  <1>5. Sorted(buckets', curTime') /\ Counted'
    BY <1>1, <1>3 DEF Counted
  <1>6. Queued'
    <2>1. ASSUME NEW j \in Items, tracker'[j].hasQueued
          PROVE  Holds(Rest, [item |-> j, time |-> tracker'[j].queued])
      BY <1>1, <2>1, TimeMoves
    <2> QED
      BY <2>1 DEF Queued
  <1>7. Awake'
    <2>1. ASSUME NEW j \in Items, tracker'[j].hasDesired
          PROVE  /\ tracker'[j].hasQueued
                 /\ Ahead(tracker'[j].desired, SettledTime % Modulus) <= Horizon
                 /\ Ahead(tracker'[j].queued, SettledTime % Modulus)
                      <= Ahead(tracker'[j].desired, SettledTime % Modulus)
      <3>1. tracker'[j] = tracker[j] /\ tracker[j].hasDesired
        BY <2>1
      <3>2. tracker[j].hasQueued
        BY <1>1, <3>1 DEF Awake
      <3> QED
        BY <1>1, <3>1, <3>2, TimeMoves
    <2> QED
      BY <1>1, <2>1 DEF Awake
  <1> QED
    BY <1>4, <1>5, <1>6, <1>7 DEF QueueInv

\* The event that comes out is about an item.
LEMMA OutIs ==
  ASSUME QueueInv, enqueued > 0
  PROVE  /\ Out \in Events /\ Out.item \in Items /\ Out.time \in Times
         /\ SettledTime \in Nat /\ SettledTime % Modulus = Out.time
         /\ Ahead(Out.time, SettledTime % Modulus) = 0
         /\ curTime <= SettledTime /\ tracker \in [Items -> Trackers]
  <1>1. curTime \in Nat /\ Sorted(buckets, curTime) /\ Total(buckets) # 0 /\ tracker \in [Items -> Trackers]
    BY DEF QueueInv, TypeOK, Counted
  <1>2. /\ Out \in Events /\ SettledTime \in Nat /\ SettledTime % Modulus = Out.time
        /\ SettledTime = curTime + Ahead(Out.time, curTime % Modulus)
    BY <1>1, Dequeued
  <1>3. Out.item \in Items /\ Out.time \in Times
    BY <1>2 DEF Events
  <1>4. Ahead(Out.time, curTime % Modulus) \in Nat
    <2>1. curTime % Modulus \in Times
      BY <1>1, NowIs
    <2>2. Ahead(Out.time, curTime % Modulus) \in Times
      BY <1>3, <2>1, AheadIs
    <2> QED
      BY <2>2 DEF Times
  <1>5. Ahead(Out.time, Out.time) = 0
    BY <1>3, Cycle DEF Ahead, Times
  <1> QED
    BY <1>1, <1>2, <1>3, <1>4, <1>5

\* Dequeueing an event that is stale or no longer wanted.
LEMMA DiscardInv ==
  ASSUME QueueInv, Discard
  PROVE  QueueInv'
  <1>1. Taken /\ buckets' = Rest /\ enqueued' = enqueued - 1 /\ look' = "pending" /\ enqueued > 0
    BY DEF Discard, Taken
  <1>2. Out.item \in Items /\ tracker \in [Items -> Trackers]
    BY <1>1, OutIs
  <1>3. CASE ~Current(Out) /\ tracker' = tracker
    BY <1>1, <1>2, <1>3, TakenInv DEF Current
  <1>4. CASE /\ Current(Out) /\ ~ tracker[Out.item].hasDesired
             /\ tracker' = [tracker EXCEPT ![Out.item].hasQueued = FALSE]
    <2>1. /\ tracker' \in [Items -> Trackers]
          /\ ~tracker'[Out.item].hasQueued /\ ~tracker'[Out.item].hasDesired
          /\ \A j \in Items \ {Out.item} : tracker'[j] = tracker[j]
      BY <1>2, <1>4 DEF Trackers
    <2> QED
      BY <1>1, <2>1, TakenInv
  <1> QED
    BY <1>3, <1>4 DEF Discard

\* A look that is due clears the item's wish and its event.
LEMMA ProcessIs ==
  ASSUME QueueInv, Process
  PROVE  /\ Taken /\ buckets' = Rest /\ enqueued' = enqueued - 1 /\ look' = Out.item
         /\ enqueued > 0 /\ Out.item \in Items
         /\ tracker[Out.item].hasDesired /\ tracker[Out.item].desired = Out.time
         /\ tracker' \in [Items -> Trackers]
         /\ ~tracker'[Out.item].hasQueued /\ ~tracker'[Out.item].hasDesired
         /\ \A j \in Items \ {Out.item} : tracker'[j] = tracker[j]
  <1>1. /\ Taken /\ buckets' = Rest /\ enqueued' = enqueued - 1 /\ look' = Out.item /\ enqueued > 0
        /\ tracker[Out.item].hasDesired /\ tracker[Out.item].desired = Out.time
    BY DEF Process, Taken
  <1>2. Out.item \in Items /\ tracker \in [Items -> Trackers]
    BY <1>1, OutIs
  <1> DEFINE i == Out.item
             mid == [tracker EXCEPT ![i].hasQueued = FALSE]
  <1>3. tracker' = [mid EXCEPT ![i].hasDesired = FALSE]
    BY DEF Process
  <1> HIDE DEF i, mid
  <1>4. /\ mid \in [Items -> Trackers] /\ ~mid[i].hasQueued
        /\ \A j \in Items \ {i} : mid[j] = tracker[j]
    BY <1>2 DEF Trackers, mid, i
  <1>5. /\ tracker' \in [Items -> Trackers] /\ tracker'[i].hasDesired = FALSE
        /\ tracker'[i].hasQueued = mid[i].hasQueued
        /\ \A j \in Items \ {i} : tracker'[j] = mid[j]
    <2>1. i \in Items
      BY <1>2 DEF i
    <2> QED
      BY <1>3, <1>4, <2>1 DEF Trackers
  <1> QED
    BY <1>1, <1>2, <1>4, <1>5 DEF i

\* Dequeueing an event that is processed.
LEMMA ProcessInv ==
  ASSUME QueueInv, Process
  PROVE  QueueInv'
  BY ProcessIs, TakenInv

\* An event that came early is put back where the item is wanted.
LEMMA RequeueInv ==
  ASSUME QueueInv, Requeue
  PROVE  QueueInv'
  <1> DEFINE i == Out.item
             d == tracker[Out.item].desired
             e == [item |-> i, time |-> d]
             next == SettledTime
  <1>1. /\ enqueued > 0 /\ curTime' = next /\ enqueued' = enqueued /\ look' = "pending"
        /\ Current(Out) /\ tracker[i].hasDesired
        /\ tracker' = [tracker EXCEPT ![i].queued = d]
        /\ buckets' = Pushed(Rest, e, next)
    BY DEF Requeue, Taken
  <1>2. /\ TypeOK /\ Sorted(buckets, curTime) /\ enqueued = Total(buckets) /\ Queued /\ Awake
    BY DEF QueueInv, Counted
  <1>3. curTime \in Nat /\ Total(buckets) # 0
    BY <1>1, <1>2 DEF TypeOK
  <1>4. /\ next \in Nat /\ Sorted(Rest, next) /\ Total(Rest) = Total(buckets) - 1
    BY <1>2, <1>3, Dequeued
  <1>5. i \in Items /\ tracker \in [Items -> Trackers] /\ d \in Times
    BY <1>1, OutIs DEF Trackers
  <1>6. Ahead(d, next % Modulus) <= Horizon
    BY <1>1, <1>5, TimeMoves
  <1>7. e \in Near(next)
    BY <1>5, <1>6 DEF Near, Events
  <1> HIDE DEF i, d, next
  <1>8. /\ Sorted(buckets', next) /\ Total(buckets') = Total(Rest) + 1 /\ Holds(buckets', e)
        /\ \A x \in Events : Holds(Rest, x) => Holds(buckets', x)
    BY <1>1, <1>4, <1>7, PushedIs
  <1>9. /\ tracker' \in [Items -> Trackers]
        /\ tracker'[i].queued = d /\ tracker'[i].hasQueued = tracker[i].hasQueued
        /\ \A j \in Items : /\ tracker'[j].desired = tracker[j].desired
                            /\ tracker'[j].hasDesired = tracker[j].hasDesired
        /\ \A j \in Items \ {i} : tracker'[j] = tracker[j]
    BY <1>1, <1>5 DEF Trackers
  <1>10. TypeOK'
    BY <1>1, <1>2, <1>4, <1>9 DEF TypeOK
  <1>11. Counted'
    <2>1. Total(buckets) \in Nat
      BY <1>2, TotalIs DEF Sorted
    <2> QED
      BY <1>1, <1>2, <1>4, <1>8, <2>1 DEF Counted
  <1>12. Queued'
    <2>1. ASSUME NEW j \in Items, tracker'[j].hasQueued
          PROVE  Holds(buckets', [item |-> j, time |-> tracker'[j].queued])
      <3>1. CASE j = i
        BY <1>8, <1>9, <3>1
      <3>2. CASE j # i
        <4>1. tracker'[j] = tracker[j] /\ tracker[j].queued \in Times
          BY <1>5, <1>9, <3>2 DEF Trackers
        <4>2. [item |-> j, time |-> tracker[j].queued] \in Events
          BY <4>1 DEF Events
        <4>3. Out.item # j
          BY <3>2 DEF i
        <4>4. Holds(Rest, [item |-> j, time |-> tracker[j].queued])
          BY <1>1, <2>1, <4>1, <4>3, TimeMoves
        <4> QED
          BY <1>8, <4>1, <4>2, <4>4
      <3> QED
        BY <3>1, <3>2
    <2> QED
      BY <2>1 DEF Queued
  <1>13. Awake'
    <2>1. ASSUME NEW j \in Items, tracker'[j].hasDesired
          PROVE  /\ tracker'[j].hasQueued
                 /\ Ahead(tracker'[j].desired, next % Modulus) <= Horizon
                 /\ Ahead(tracker'[j].queued, next % Modulus) <= Ahead(tracker'[j].desired, next % Modulus)
      <3>1. tracker[j].hasDesired /\ tracker[j].hasQueued
        BY <1>2, <1>9, <2>1 DEF Awake
      <3>2. /\ Ahead(tracker[j].desired, next % Modulus) \in Nat
            /\ Ahead(tracker[j].desired, next % Modulus) <= Horizon
            /\ Ahead(tracker[j].queued, next % Modulus) <= Ahead(tracker[j].desired, next % Modulus)
        BY <1>1, <3>1, TimeMoves DEF next
      <3>3. CASE j = i
        <4>1. tracker'[j].queued = d /\ tracker'[j].desired = d /\ tracker[j].desired = d
          BY <1>9, <3>3 DEF d, i
        <4> QED
          BY <1>9, <3>1, <3>2, <3>3, <4>1
      <3>4. CASE j # i
        BY <1>9, <3>1, <3>2, <3>4
      <3> QED
        BY <3>3, <3>4
    <2> QED
      BY <1>1, <2>1 DEF Awake
  <1> QED
    BY <1>1, <1>8, <1>10, <1>11, <1>12, <1>13 DEF QueueInv

\* The invariant, of every behaviour of the queue.
THEOREM Invariance == Spec => []QueueInv
  <1>1. Init => QueueInv
    BY InitInv
  <1>2. QueueInv /\ [Next]_vars => QueueInv'
    <2> SUFFICES ASSUME QueueInv, [Next]_vars PROVE QueueInv'
      OBVIOUS
    <2>1. CASE UNCHANGED vars
      BY <2>1 DEF vars, QueueInv, TypeOK, Counted, Queued, Awake
    <2>2. CASE NoEvent
      BY <2>2 DEF NoEvent, heap, QueueInv, TypeOK, Counted, Queued, Awake
    <2> QED
      BY <2>1, <2>2, WantInv, SetNoDesiredInv, ReuseInv, DiscardInv, RequeueInv, ProcessInv,
         ResetInv DEF Next
  <1> QED
    BY <1>1, <1>2, PTL DEF Spec

\* The queue's types, whatever the flooders want: in particular the time does not
\* leave the natural numbers, and event and desired times stay cyclic times.
THEOREM TypeCorrect == Spec => []TypeOK
  BY Invariance, PTL DEF QueueInv

\* radix_heap.rs: after every move of the time, also around the end of the cycle,
\* each event is in the bucket its distance belongs to, none is in the past, and
\* num_enqueued says whether there is one.
THEOREM Ordered == Spec => []HeapOrdered
  <1>1. QueueInv => HeapOrdered
    <2> SUFFICES ASSUME QueueInv PROVE HeapOrdered
      OBVIOUS
    <2>1. curTime \in Nat /\ Sorted(buckets, curTime) /\ buckets \in Heaps /\ enqueued = Total(buckets)
      BY DEF QueueInv, TypeOK, Counted, Sorted
    <2>2. ASSUME NEW k \in Buckets, NEW i \in 1..Len(buckets[k])
          PROVE  /\ Bucket(buckets[k][i].time, curTime) = k
                 /\ Absolute(buckets[k][i].time) >= curTime
      <3> DEFINE t == buckets[k][i].time
      <3>1. buckets[k] \in Seq(Home(k, curTime))
        BY <2>1 DEF Sorted
      <3>2. buckets[k][i] \in Home(k, curTime)
        BY <3>1
      <3>3. t \in Times /\ Ahead(t, curTime % Modulus) <= Horizon /\ Bucket(t, curTime) = k
        BY <3>2 DEF Home, Near, Events
      <3> HIDE DEF t
      <3>4. Ahead(t, curTime % Modulus) \in Times
        BY <2>1, <3>3, NowIs, AheadIs
      <3>5. Ahead(t, curTime % Modulus) \in Nat
        BY <3>4 DEF Times
      <3>6. Absolute(t) = curTime + Ahead(t, curTime % Modulus)
        BY <2>1, <3>3, WidenIs DEF Absolute
      <3>7. Absolute(t) >= curTime
        BY <2>1, <3>5, <3>6
      <3> QED
        BY <3>3, <3>7 DEF t
    <2>3. enqueued = 0 <=> \A k \in Buckets : buckets[k] = <<>>
      BY <2>1, TotalZero
    <2> QED
      BY <2>2, <2>3 DEF HeapOrdered
  <1> QED
    BY <1>1, Invariance, PTL

-----------------------------------------------------------------------------
(* The queue is an agenda.                                                  *)

\* What the flooders see: when each item wants to be looked at, or -1.
Wanted == [i \in Items |-> IF tracker[i].hasDesired THEN Absolute(tracker[i].desired) ELSE -1]

\* It is as far after the present as the tracker's time is ahead on the cycle.
LEMMA WantedIs ==
  ASSUME QueueInv, NEW i \in Items
  PROVE  /\ ~tracker[i].hasDesired => Wanted[i] = -1
         /\ tracker[i].hasDesired =>
              /\ Wanted[i] = curTime + Ahead(tracker[i].desired, curTime % Modulus)
              /\ Wanted[i] \in Nat /\ curTime <= Wanted[i]
  <1>1. curTime \in Nat /\ tracker[i].desired \in Times
    BY DEF QueueInv, TypeOK, Trackers
  <1>2. ASSUME tracker[i].hasDesired
        PROVE  /\ Wanted[i] = curTime + Ahead(tracker[i].desired, curTime % Modulus)
               /\ Wanted[i] \in Nat /\ curTime <= Wanted[i]
    <2> DEFINE d == tracker[i].desired
    <2>1. Ahead(d, curTime % Modulus) <= Horizon
      BY <1>2 DEF QueueInv, Awake
    <2>2. Wanted[i] = Widen(d, curTime)
      BY <1>2 DEF Wanted, Absolute
    <2> HIDE DEF d
    <2>3. Ahead(d, curTime % Modulus) \in Times
      BY <1>1, NowIs, AheadIs DEF d
    <2>4. Ahead(d, curTime % Modulus) \in Nat
      BY <2>3 DEF Times
    <2>5. Wanted[i] = curTime + Ahead(d, curTime % Modulus)
      BY <1>1, <2>1, <2>2, WidenIs DEF d
    <2> QED
      BY <1>1, <2>4, <2>5 DEF d
  <1> QED
    BY <1>2 DEF Wanted

\* While dequeue seeks an event, what is wanted does not change, and the time does
\* not pass it.
LEMMA SeekIs ==
  ASSUME QueueInv, enqueued > 0, curTime' = SettledTime
  PROVE  /\ \A j \in Items : Wanted[j] # -1 => SettledTime <= Wanted[j]
         /\ \A j \in Items :
              (/\ tracker'[j].hasDesired = tracker[j].hasDesired
               /\ tracker[j].hasDesired => tracker'[j].desired = tracker[j].desired)
                => Wanted'[j] = Wanted[j]
         /\ SettledTime >= curTime
  <1>1. SettledTime \in Nat /\ curTime <= SettledTime /\ curTime \in Nat
    BY OutIs DEF QueueInv, TypeOK
  <1>2. ASSUME NEW j \in Items, tracker[j].hasDesired
        PROVE  /\ SettledTime <= Wanted[j]
               /\ Wanted[j] = Widen(tracker[j].desired, SettledTime)
    <2> DEFINE d == tracker[j].desired
               old == Ahead(d, curTime % Modulus)
               new == Ahead(d, SettledTime % Modulus)
    <2>1. /\ old \in Nat /\ new \in Nat /\ new <= Horizon /\ SettledTime + new = curTime + old
          /\ Wanted[j] = curTime + old /\ d \in Times
      BY <1>2, TimeMoves, WantedIs DEF QueueInv, TypeOK, Trackers
    <2> HIDE DEF d
    <2>2. Widen(d, SettledTime) = SettledTime + new
      BY <1>1, <2>1, WidenIs
    <2> QED
      BY <1>1, <2>1, <2>2 DEF d
  <1>3. ASSUME NEW j \in Items, Wanted[j] # -1 PROVE tracker[j].hasDesired
    BY <1>3 DEF Wanted
  <1>4. ASSUME NEW j \in Items, tracker'[j].hasDesired = tracker[j].hasDesired,
               tracker[j].hasDesired => tracker'[j].desired = tracker[j].desired
        PROVE  Wanted'[j] = Wanted[j]
    <2>1. Wanted'[j] = IF tracker'[j].hasDesired THEN Widen(tracker'[j].desired, SettledTime) ELSE -1
      BY DEF Wanted, Absolute
    <2>2. CASE tracker[j].hasDesired
      BY <1>2, <1>4, <2>1, <2>2
    <2>3. CASE ~tracker[j].hasDesired
      BY <1>4, <2>1, <2>3 DEF Wanted
    <2> QED
      BY <2>2, <2>3
  <1> QED
    BY <1>1, <1>2, <1>3, <1>4

\* set_desired_event writes one wish into the agenda.
LEMMA PlanWant ==
  ASSUME QueueInv, QueueInv', NEW i \in Items, Want(i)
  PROVE  Plan!Want(i)
  <1>1. PICK t \in Times, q \in Times :
              /\ tracker' = [tracker EXCEPT ![i] =
                   [desired |-> t, queued |-> q, hasDesired |-> TRUE, hasQueued |-> TRUE]]
              /\ Ahead(t, curTime % Modulus) <= Horizon
    BY WantIs
  <1>2. curTime' = curTime /\ look' = look /\ curTime \in Nat /\ tracker \in [Items -> Trackers]
    BY WantIs DEF QueueInv, TypeOK
  <1>3. tracker'[i].hasDesired /\ tracker'[i].desired = t /\ \A j \in Items \ {i} : tracker'[j] = tracker[j]
    BY <1>1, <1>2
  <1>4. \A j \in Items \ {i} : Wanted'[j] = Wanted[j]
    BY <1>2, <1>3 DEF Wanted, Absolute
  <1>5. Wanted'[i] = curTime + Ahead(t, curTime % Modulus)
    <2>1. Wanted'[i] = Widen(t, curTime)
      BY <1>2, <1>3 DEF Wanted, Absolute
    <2> QED
      BY <1>1, <1>2, <2>1, WidenIs
  <1>6. Wanted'[i] \in Int /\ curTime <= Wanted'[i]
    <2>1. curTime % Modulus \in Times
      BY <1>2, NowIs
    <2>2. Ahead(t, curTime % Modulus) \in Times
      BY <1>1, <2>1, AheadIs
    <2>3. Ahead(t, curTime % Modulus) \in Nat
      BY <2>2 DEF Times
    <2> QED
      BY <1>2, <1>5, <2>3
  <1>7. Wanted' = [Wanted EXCEPT ![i] = Wanted'[i]]
    <2>1. Wanted = [j \in Items |-> Wanted[j]] /\ Wanted' = [j \in Items |-> Wanted'[j]]
      BY DEF Wanted
    <2> QED
      BY <1>4, <2>1
  <1> QED
    BY <1>2, <1>6, <1>7 DEF Plan!Want, Wanted

\* set_no_desired_event, and a slot that is used again.
LEMMA PlanForget ==
  ASSUME QueueInv, NEW i \in Items, SetNoDesired(i) \/ Reuse(i)
  PROVE  Plan!Forget(i)
  <1>1. curTime' = curTime /\ look' = look /\ tracker \in [Items -> Trackers]
    BY DEF SetNoDesired, Reuse, heap, QueueInv, TypeOK
  <1>2. ~tracker'[i].hasDesired /\ \A j \in Items \ {i} : tracker'[j] = tracker[j]
    BY <1>1 DEF SetNoDesired, Reuse, Default, Trackers
  <1>3. Wanted'[i] = -1 /\ \A j \in Items \ {i} : Wanted'[j] = Wanted[j]
    BY <1>1, <1>2 DEF Wanted, Absolute
  <1>4. Wanted' = [Wanted EXCEPT ![i] = -1]
    <2>1. Wanted = [j \in Items |-> Wanted[j]] /\ Wanted' = [j \in Items |-> Wanted'[j]]
      BY DEF Wanted
    <2> QED
      BY <1>3, <2>1
  <1> QED
    BY <1>1, <1>4 DEF Plan!Forget, Plan!Never, Wanted

\* Dequeueing an event that is not to be processed.
LEMMA PlanSeek ==
  ASSUME QueueInv, Discard \/ Requeue
  PROVE  Plan!Seek
  <1>1. enqueued > 0 /\ curTime' = SettledTime /\ look' = "pending"
    BY DEF Discard, Requeue, Taken
  <1>2. Out.item \in Items /\ tracker \in [Items -> Trackers]
    BY <1>1, OutIs
  <1>3. \A j \in Items : /\ tracker'[j].hasDesired = tracker[j].hasDesired
                         /\ tracker'[j].desired = tracker[j].desired
    BY <1>2 DEF Discard, Requeue, Trackers
  <1>4. \A j \in Items : Wanted'[j] = Wanted[j]
    BY <1>1, <1>3, SeekIs
  <1>5. Wanted' = Wanted
    <2>1. Wanted = [j \in Items |-> Wanted[j]] /\ Wanted' = [j \in Items |-> Wanted'[j]]
      BY DEF Wanted
    <2> QED
      BY <1>4, <2>1
  <1>6. curTime' >= curTime /\ \A j \in Items : Wanted[j] # -1 => curTime' <= Wanted[j]
    BY <1>1, SeekIs
  <1> QED
    BY <1>1, <1>5, <1>6 DEF Plan!Seek, Plan!NothingBefore, Plan!Never, Wanted

\* Dequeueing an event that is processed.
LEMMA PlanGive ==
  ASSUME QueueInv, Process, NEW i \in Items, i = Out.item
  PROVE  Plan!Give(i)
  <1>1. /\ enqueued > 0 /\ curTime' = SettledTime /\ look' = i
        /\ tracker[i].hasDesired /\ tracker[i].desired = Out.time
        /\ ~tracker'[i].hasDesired /\ \A j \in Items \ {i} : tracker'[j] = tracker[j]
    BY ProcessIs DEF Taken
  <1>2. Wanted[i] = SettledTime /\ Wanted[i] # -1
    <2> DEFINE old == Ahead(tracker[i].desired, curTime % Modulus)
               new == Ahead(tracker[i].desired, SettledTime % Modulus)
    <2>1. SettledTime + new = curTime + old /\ new = 0
      BY <1>1, TimeMoves
    <2>2. Wanted[i] = curTime + old /\ Wanted[i] \in Nat /\ SettledTime \in Nat
      BY <1>1, WantedIs, OutIs
    <2> HIDE DEF old, new
    <2> QED
      BY <2>1, <2>2
  <1>3. \A j \in Items : Wanted[j] # -1 => Wanted[i] <= Wanted[j]
    BY <1>1, <1>2, SeekIs
  <1>4. Wanted'[i] = -1 /\ \A j \in Items \ {i} : Wanted'[j] = Wanted[j]
    <2>1. Wanted'[i] = -1
      BY <1>1 DEF Wanted
    <2>2. \A j \in Items \ {i} : Wanted'[j] = Wanted[j]
      BY <1>1, SeekIs
    <2> QED
      BY <2>1, <2>2
  <1>5. Wanted' = [Wanted EXCEPT ![i] = -1]
    <2>1. Wanted = [j \in Items |-> Wanted[j]] /\ Wanted' = [j \in Items |-> Wanted'[j]]
      BY DEF Wanted
    <2> QED
      BY <1>4, <2>1
  <1>6. curTime' = Wanted[i]
    BY <1>1, <1>2
  <1> QED
    BY <1>1, <1>2, <1>3, <1>5, <1>6 DEF Plan!Give, Plan!NothingBefore, Plan!Never, Wanted

\* There is no event only when nothing is wanted.
LEMMA PlanGiveNone ==
  ASSUME QueueInv, NoEvent
  PROVE  Plan!GiveNone
  <1>1. buckets \in Heaps /\ Total(buckets) = 0 /\ Queued /\ Awake
    BY DEF NoEvent, QueueInv, Counted, Sorted
  <1>2. \A k \in Buckets : buckets[k] = <<>>
    BY <1>1, TotalZero
  <1>3. \A e : ~Holds(buckets, e)
    BY <1>2 DEF Holds
  <1>4. \A j \in Items : ~tracker[j].hasDesired
    BY <1>1, <1>3 DEF Queued, Awake
  <1>5. \A j \in Items : Wanted[j] = -1
    BY <1>4 DEF Wanted
  <1>6. Wanted' = Wanted /\ curTime' = curTime /\ look' = "none"
    BY DEF NoEvent, heap, Wanted, Absolute
  <1> QED
    BY <1>5, <1>6 DEF Plan!GiveNone, Plan!Never, Wanted

\* The queue is an agenda: the flooders' looks come in the order of time, each at
\* the time last wanted and once, and dequeue says that there is no event only
\* when nothing is wanted, however the cyclic times wrap around.
THEOREM ImplementsAgenda == Spec => Implements
  <1>1. Init => Plan!Init
    <2> SUFFICES ASSUME Init PROVE Plan!Init
      OBVIOUS
    <2>1. \A j \in Items : ~tracker[j].hasDesired
      BY DEF Init, Default
    <2> QED
      BY <2>1 DEF Init, Plan!Init, Plan!Never
  <1>2. QueueInv /\ QueueInv' /\ [Next]_vars => [Plan!Next]_Plan!vars
    <2> SUFFICES ASSUME QueueInv, QueueInv', [Next]_vars PROVE [Plan!Next]_Plan!vars
      OBVIOUS
    <2>1. CASE UNCHANGED vars
      BY <2>1 DEF vars, Plan!vars, Absolute
    <2>2. ASSUME NEW i \in Items, Want(i) PROVE Plan!Next
      BY <2>2, PlanWant DEF Plan!Next
    <2>3. ASSUME NEW i \in Items, SetNoDesired(i) \/ Reuse(i) PROVE Plan!Next
      BY <2>3, PlanForget DEF Plan!Next
    <2>4. CASE Discard \/ Requeue
      BY <2>4, PlanSeek DEF Plan!Next
    <2>5. CASE Process
      <3>1. PICK i \in Items : i = Out.item
        BY <2>5, ProcessIs
      <3>2. Plan!Give(i)
        BY <2>5, <3>1, PlanGive
      <3> QED
        BY <3>2 DEF Plan!Next
    <2>6. CASE NoEvent
      BY <2>6, PlanGiveNone DEF Plan!Next
    <2>7. CASE Reset
      <3>1. \A j \in Items : ~tracker'[j].hasDesired
        BY <2>7 DEF Reset, Default
      <3>2. Plan!Restart
        BY <2>7, <3>1 DEF Reset, Plan!Restart, Plan!Never
      <3> QED
        BY <3>2 DEF Plan!Next
    <2> QED
      BY <2>1, <2>2, <2>3, <2>4, <2>5, <2>6, <2>7 DEF Next
  <1> QED
    BY <1>1, <1>2, Invariance, PTL DEF Spec, Implements, Plan!Spec

-----------------------------------------------------------------------------
(* Negative weights (MatchingGraph).                                        *)

G == INSTANCE MatchingGraph

\* The edges a user may give.
UserEdge  == [u : Nat, v : Nat, w : Int, obs : {0, 1}]
UserGraph == [size : Nat, edges : Seq(UserEdge), boundary : SUBSET Nat]

\* The edges E explain the events, and no lighter ones do.
Lightest(user, es, events, E) ==
  /\ G!OddAt(user, es, E) = events
  /\ \A F \in SUBSET DOMAIN es :
       G!OddAt(user, es, F) = events => G!WeightOf(es, E) <= G!WeightOf(es, F)

\* Edges that have weights.
Weighted(es) == IsFiniteSet(DOMAIN es) /\ \A i \in DOMAIN es : es[i].w \in Int

\* Induction on the subsets of a finite set, one element at a time.
LEMMA SubsetInduction ==
  ASSUME NEW D, IsFiniteSet(D), NEW P, {} \in P,
         \A s \in SUBSET D : s # {} /\ (\A x \in s : s \ {x} \in P) => s \in P
  PROVE  \A s \in SUBSET D : s \in P
<1> DEFINE N == {n \in Nat : \A s \in SUBSET D : Cardinality(s) = n => s \in P}
<1>1. \A s \in SUBSET D : IsFiniteSet(s) /\ Cardinality(s) \in Nat
  BY FS_Subset, FS_CardinalityType
<1>2. 0 \in N
  BY <1>1, FS_EmptySet
<1>3. ASSUME NEW n \in Nat, n \in N PROVE n + 1 \in N
  <2> SUFFICES ASSUME NEW s \in SUBSET D, Cardinality(s) = n + 1 PROVE s \in P
    OBVIOUS
  <2>1. s # {}
    <3>1. Cardinality({}) = 0
      BY FS_EmptySet
    <3>2. Cardinality(s) # 0
      OBVIOUS
    <3> QED
      BY <3>1, <3>2
  <2>2. ASSUME NEW x \in s PROVE s \ {x} \in P
    BY <1>1, FS_RemoveElement, <1>3
  <2> QED
    BY <2>1, <2>2
<1> HIDE DEF N
<1>4. Nat \subseteq N
  BY <1>2, <1>3, NaturalInduction
<1> QED
  BY <1>1, <1>4 DEF N

\* The sum that S is for the subsets of D is of some w, whichever element is added last.
SumsUp(S, D, w) ==
  /\ S \in [SUBSET D -> Int] /\ S[{}] = 0
  /\ \A A \in SUBSET D : \A x \in A : S[A] = w[x] + S[A \ {x}]

\* Sums are defined by recursion: what is taken out of a set first is added last.
Sum(S, D, w, pick) ==
  /\ S \in [SUBSET D -> Int] /\ S[{}] = 0
  /\ \A A \in SUBSET D : A # {} => S[A] = w[pick[A]] + S[A \ {pick[A]}]

\* There is such a sum.
LEMMA SumExists ==
  ASSUME NEW D, IsFiniteSet(D), NEW w \in [D -> Int],
         NEW pick, \A A \in SUBSET D : A # {} => pick[A] \in A
  PROVE  \E S : Sum(S, D, w, pick)
<1> DEFINE Upto(n, S) == /\ S \in [SUBSET D -> Int] /\ S[{}] = 0
                         /\ \A A \in SUBSET D :
                              A # {} /\ Cardinality(A) <= n
                                => S[A] = w[pick[A]] + S[A \ {pick[A]}]
           N == {n \in Nat : \E S : Upto(n, S)}
<1>1. \A A \in SUBSET D : /\ IsFiniteSet(A) /\ Cardinality(A) \in Nat
                          /\ Cardinality(A) <= Cardinality(D)
                          /\ Cardinality(A) = 0 <=> A = {}
  BY FS_Subset, FS_CardinalityType, FS_EmptySet
<1>2. 0 \in N
  <2> DEFINE S == [A \in SUBSET D |-> 0]
  <2>1. Upto(0, S)
    BY <1>1
  <2> HIDE DEF S, Upto
  <2> QED
    BY <2>1
<1>3. ASSUME NEW n \in Nat, n \in N PROVE n + 1 \in N
  <2>1. PICK S : Upto(n, S)
    BY <1>3
  <2> DEFINE T == [A \in SUBSET D |-> IF A = {} THEN 0 ELSE w[pick[A]] + S[A \ {pick[A]}]]
  <2>2. ASSUME NEW A \in SUBSET D, A # {}
        PROVE  /\ pick[A] \in A /\ A \ {pick[A]} \in SUBSET D
               /\ T[A] = w[pick[A]] + S[A \ {pick[A]}] /\ T[A] \in Int
    BY <2>1, <2>2
  <2>3. T[{}] = 0 /\ T = [A \in SUBSET D |-> T[A]]
    OBVIOUS
  <2> HIDE DEF T
  <2>4. T \in [SUBSET D -> Int]
    <3>1. ASSUME NEW A \in SUBSET D PROVE T[A] \in Int
      <4>1. CASE A = {}
        BY <2>3, <4>1
      <4>2. CASE A # {}
        BY <2>2, <4>2
      <4> QED
        BY <4>1, <4>2
    <3> QED
      BY <2>3, <3>1
  <2>5. ASSUME NEW A \in SUBSET D, A # {}, Cardinality(A) <= n + 1
        PROVE  T[A] = w[pick[A]] + T[A \ {pick[A]}]
    <3> DEFINE B == A \ {pick[A]}
    <3>1. pick[A] \in A /\ B \in SUBSET D /\ T[A] = w[pick[A]] + S[B]
      BY <2>2, <2>5
    <3>2. Cardinality(B) <= n
      BY <1>1, <2>5, <3>1, FS_RemoveElement
    <3> HIDE DEF B
    <3>3. T[B] = S[B]
      BY <2>1, <2>2, <2>3, <3>1, <3>2
    <3> QED
      BY <3>1, <3>3 DEF B
  <2>6. Upto(n + 1, T)
    BY <2>3, <2>4, <2>5
  <2> HIDE DEF Upto
  <2> QED
    BY <2>6
<1>4. Nat \subseteq N
  <2> HIDE DEF N
  <2> QED
    BY <1>2, <1>3, NaturalInduction
<1>5. Cardinality(D) \in Nat
  BY FS_CardinalityType
<1>6. PICK S : Upto(Cardinality(D), S)
  <2> HIDE DEF Upto
  <2> QED
    BY <1>4, <1>5
<1>7. Sum(S, D, w, pick)
  BY <1>1, <1>6 DEF Sum
<1> QED
  BY <1>7

\* What is taken out first makes no difference.
LEMMA AnyOrder ==
  ASSUME NEW D, IsFiniteSet(D), NEW w \in [D -> Int],
         NEW pick, \A A \in SUBSET D : A # {} => pick[A] \in A,
         NEW S, Sum(S, D, w, pick)
  PROVE  SumsUp(S, D, w)
<1> DEFINE P == {A \in SUBSET D : \A x \in A : S[A] = w[x] + S[A \ {x}]}
<1>1. {} \in P
  OBVIOUS
<1>2. ASSUME NEW A \in SUBSET D, A # {}, \A x \in A : A \ {x} \in P
      PROVE  A \in P
  <2> SUFFICES ASSUME NEW x \in A PROVE S[A] = w[x] + S[A \ {x}]
    OBVIOUS
  <2> DEFINE y == pick[A]
  <2>1. y \in A /\ S[A] = w[y] + S[A \ {y}]
    BY <1>2 DEF Sum
  <2> HIDE DEF y
  <2>2. CASE x = y
    BY <2>1, <2>2
  <2>3. CASE x # y
    <3>1. x \in A \ {y} /\ y \in A \ {x} /\ (A \ {y}) \ {x} = (A \ {x}) \ {y}
      BY <2>1, <2>3
    <3>2. S[A \ {y}] = w[x] + S[(A \ {x}) \ {y}]
      BY <1>2, <2>1, <3>1
    <3>3. S[A \ {x}] = w[y] + S[(A \ {x}) \ {y}]
      BY <1>2, <3>1
    <3>4. w[x] \in Int /\ w[y] \in Int /\ S[(A \ {x}) \ {y}] \in Int
      BY <2>1 DEF Sum
    <3> QED
      BY <2>1, <3>2, <3>3, <3>4
  <2> QED
    BY <2>2, <2>3
<1> HIDE DEF P
<1>3. \A A \in SUBSET D : A \in P
  BY <1>1, <1>2, SubsetInduction
<1> QED
  BY <1>3 DEF P, SumsUp, Sum

\* The weight of edges is their sum.
LEMMA WeightsSumUp ==
  ASSUME NEW es, Weighted(es)
  PROVE  \E S : /\ SumsUp(S, DOMAIN es, [i \in DOMAIN es |-> es[i].w])
                /\ \A E \in SUBSET DOMAIN es : S[E] = G!WeightOf(es, E)
<1> DEFINE D == DOMAIN es
           w == [i \in D |-> es[i].w]
           pick == [A \in SUBSET D |-> CHOOSE x \in A : TRUE]
<1>1. IsFiniteSet(D) /\ w \in [D -> Int] /\ \A i \in D : w[i] = es[i].w
  BY DEF Weighted
<1>2. \A A \in SUBSET D : pick[A] = CHOOSE x \in A : TRUE
  OBVIOUS
<1>3. \A A \in SUBSET D : A # {} => pick[A] \in A
  OBVIOUS
<1> HIDE DEF w, pick
<1>4. PICK S : Sum(S, D, w, pick)
  BY <1>1, <1>3, SumExists
<1>5. ASSUME NEW E \in SUBSET D
      PROVE  S[E] = G!WeightOf(es, E)
  <2> DEFINE Is(g) == g = [A \in SUBSET E |->
                             IF A = {} THEN 0
                             ELSE LET x == CHOOSE y \in A : TRUE IN es[x].w + g[A \ {x}]]
             sum == CHOOSE g : Is(g)
             T == [A \in SUBSET E |-> S[A]]
  <2>1. Is(T)
    <3> SUFFICES ASSUME NEW A \in SUBSET E
                 PROVE  S[A] = IF A = {} THEN 0
                               ELSE LET x == CHOOSE y \in A : TRUE IN es[x].w + T[A \ {x}]
      OBVIOUS
    <3>1. CASE A = {}
      BY <1>4, <3>1 DEF Sum
    <3>2. CASE A # {}
      <4>1. pick[A] \in A /\ pick[A] \in D /\ A \ {pick[A]} \in SUBSET E
        BY <1>3, <3>2
      <4>2. S[A] = es[pick[A]].w + S[A \ {pick[A]}]
        BY <1>1, <1>4, <3>2, <4>1 DEF Sum
      <4>3. T[A \ {pick[A]}] = S[A \ {pick[A]}]
        BY <4>1
      <4> QED
        BY <1>2, <3>2, <4>2, <4>3
    <3> QED
      BY <3>1, <3>2
  <2> HIDE DEF T
  <2>2. Is(sum)
    <3> HIDE DEF Is
    <3> QED
      BY <2>1
  <2>3. G!WeightOf(es, E) = sum[E]
    BY DEF G!WeightOf, G!MapThenSumSet, G!MapThenFoldSet
  <2> HIDE DEF sum
  <2> DEFINE P == {A \in SUBSET E : sum[A] = S[A]}
  <2>4. {} \in P
    BY <1>4, <2>2 DEF Sum
  <2>5. ASSUME NEW A \in SUBSET E, A # {}, \A x \in A : A \ {x} \in P
        PROVE  A \in P
    <3>1. pick[A] \in A /\ pick[A] \in D /\ A \ {pick[A]} \in SUBSET E
      BY <1>3, <2>5
    <3>2. S[A] = es[pick[A]].w + S[A \ {pick[A]}]
      BY <1>1, <1>4, <2>5, <3>1 DEF Sum
    <3>3. sum[A] = es[pick[A]].w + sum[A \ {pick[A]}]
      BY <1>2, <2>2, <2>5
    <3>4. sum[A \ {pick[A]}] = S[A \ {pick[A]}]
      BY <2>5, <3>1
    <3> QED
      BY <3>2, <3>3, <3>4
  <2>6. IsFiniteSet(E)
    BY <1>1, FS_Subset
  <2> HIDE DEF P
  <2>7. E \in P
    BY <2>4, <2>5, <2>6, SubsetInduction
  <2> QED
    BY <2>3, <2>7 DEF P
<1>6. SumsUp(S, D, w)
  BY <1>1, <1>3, <1>4, AnyOrder
<1> QED
  BY <1>5, <1>6 DEF w

\* Weights of disjoint sets of edges add up.
LEMMA WeightsAdd ==
  ASSUME NEW es, Weighted(es), NEW A \in SUBSET DOMAIN es, NEW B \in SUBSET DOMAIN es, A \cap B = {}
  PROVE  /\ G!WeightOf(es, A) \in Int /\ G!WeightOf(es, B) \in Int
         /\ G!WeightOf(es, A \cup B) = G!WeightOf(es, A) + G!WeightOf(es, B)
<1> DEFINE D == DOMAIN es
           w == [i \in D |-> es[i].w]
<1>1. PICK S : /\ SumsUp(S, D, w)
               /\ \A E \in SUBSET D : S[E] = G!WeightOf(es, E)
  BY WeightsSumUp
<1>2. \A i \in D : w[i] \in Int
  BY DEF Weighted
<1> HIDE DEF w
<1> DEFINE P == {C \in SUBSET B : S[A \cup C] = S[A] + S[C]}
<1>3. S \in [SUBSET D -> Int] /\ S[{}] = 0
  BY <1>1 DEF SumsUp
<1>4. {} \in P
  <2>1. A \cup {} = A
    OBVIOUS
  <2> QED
    BY <1>3, <2>1
<1>5. ASSUME NEW C \in SUBSET B, C # {}, \A x \in C : C \ {x} \in P
      PROVE  C \in P
  <2>1. PICK x \in C : TRUE
    BY <1>5
  <2>2. x \in D /\ x \in A \cup C /\ (A \cup C) \ {x} = A \cup (C \ {x})
    BY <2>1
  <2>3. S[A \cup C] = w[x] + S[A \cup (C \ {x})] /\ S[C] = w[x] + S[C \ {x}]
    <3>1. A \cup C \in SUBSET D /\ C \in SUBSET D
      OBVIOUS
    <3>2. \A X \in SUBSET D : \A y \in X : S[X] = w[y] + S[X \ {y}]
      BY <1>1 DEF SumsUp
    <3>3. S[A \cup C] = w[x] + S[(A \cup C) \ {x}] /\ S[C] = w[x] + S[C \ {x}]
      BY <2>2, <3>1, <3>2
    <3> QED
      BY <2>2, <3>3
  <2>4. S[A \cup (C \ {x})] = S[A] + S[C \ {x}]
    BY <1>5
  <2>5. S[A] \in Int /\ S[C \ {x}] \in Int /\ w[x] \in Int
    <3>1. A \in SUBSET D /\ C \ {x} \in SUBSET D
      OBVIOUS
    <3> QED
      BY <1>2, <1>3, <2>2, <3>1
  <2>6. S[A \cup C] = S[A] + S[C]
    BY <2>3, <2>4, <2>5
  <2> QED
    BY <2>6
<1>6. IsFiniteSet(B)
  BY FS_Subset DEF Weighted
<1> HIDE DEF P
<1>7. B \in P
  BY <1>4, <1>5, <1>6, SubsetInduction
<1>8. S[A \cup B] = S[A] + S[B] /\ S[A] \in Int /\ S[B] \in Int
  BY <1>3, <1>7 DEF P
<1>9. A \cup B \in SUBSET D
  OBVIOUS
<1> QED
  BY <1>1, <1>8, <1>9

\* Edges of which the weights are those of others, or all their opposites, weigh as much, or the opposite.
LEMMA WeightsAgree ==
  ASSUME NEW es, Weighted(es), NEW fs, Weighted(fs), DOMAIN fs = DOMAIN es,
         NEW A \in SUBSET DOMAIN es, NEW same \in BOOLEAN,
         \A i \in A : fs[i].w = IF same THEN es[i].w ELSE -es[i].w
  PROVE  G!WeightOf(fs, A) = IF same THEN G!WeightOf(es, A) ELSE -G!WeightOf(es, A)
<1> DEFINE D == DOMAIN es
           v == [i \in D |-> es[i].w]
           w == [i \in D |-> fs[i].w]
<1>1. PICK S : SumsUp(S, D, v) /\ \A E \in SUBSET D : S[E] = G!WeightOf(es, E)
  BY WeightsSumUp
<1>2. PICK T : SumsUp(T, D, w) /\ \A E \in SUBSET D : T[E] = G!WeightOf(fs, E)
  BY WeightsSumUp
<1>3. \A i \in A : /\ v[i] \in Int /\ w[i] \in Int
                   /\ w[i] = IF same THEN v[i] ELSE -v[i]
  BY DEF Weighted
<1> HIDE DEF v, w
<1> DEFINE P == {C \in SUBSET A : T[C] = IF same THEN S[C] ELSE -S[C]}
<1>4. {} \in P
  BY <1>1, <1>2 DEF SumsUp
<1>5. ASSUME NEW C \in SUBSET A, C # {}, \A x \in C : C \ {x} \in P
      PROVE  C \in P
  <2>1. PICK x \in C : TRUE
    BY <1>5
  <2>2. C \in SUBSET D /\ C \ {x} \in SUBSET D
    OBVIOUS
  <2>3. S[C] = v[x] + S[C \ {x}] /\ S[C \ {x}] \in Int
    BY <1>1, <2>2 DEF SumsUp
  <2>4. T[C] = w[x] + T[C \ {x}] /\ T[C \ {x}] \in Int
    BY <1>2, <2>2 DEF SumsUp
  <2>5. T[C \ {x}] = IF same THEN S[C \ {x}] ELSE -S[C \ {x}]
    BY <1>5
  <2>6. v[x] \in Int /\ w[x] = IF same THEN v[x] ELSE -v[x]
    BY <1>3
  <2>7. T[C] = IF same THEN S[C] ELSE -S[C]
    BY <2>3, <2>4, <2>5, <2>6
  <2> QED
    BY <2>7
<1>6. IsFiniteSet(A)
  BY FS_Subset DEF Weighted
<1> HIDE DEF P
<1>7. A \in P
  <2>1. \A C \in SUBSET A : C # {} /\ (\A x \in C : C \ {x} \in P) => C \in P
    BY <1>5
  <2>2. \A C \in SUBSET A : C \in P
    BY <1>4, <1>6, <2>1, SubsetInduction
  <2> QED
    BY <2>2
<1> QED
  BY <1>1, <1>2, <1>7 DEF P

-----------------------------------------------------------------------------
\* A set with an odd number of elements.
Odd(A) == Cardinality(A) % 2 = 1

\* The parity of a symmetric difference.
LEMMA OddSymDiff ==
  ASSUME NEW A, NEW B, IsFiniteSet(A), IsFiniteSet(B)
  PROVE  Odd(G!SymDiff(A, B)) <=> ~ (Odd(A) <=> Odd(B))
<1> DEFINE C == A \cap B
<1>1. /\ IsFiniteSet(C) /\ IsFiniteSet(A \ B) /\ IsFiniteSet(B \ A)
  BY FS_Subset
<1>2. /\ Cardinality(C) \in Nat /\ Cardinality(A \ B) \in Nat /\ Cardinality(B \ A) \in Nat
  BY <1>1, FS_CardinalityType
<1>3. Cardinality(A \ B) = Cardinality(A) - Cardinality(C) /\ Cardinality(A) \in Nat
  BY FS_Difference, FS_CardinalityType
<1>4. Cardinality(B \ A) = Cardinality(B) - Cardinality(C) /\ Cardinality(B) \in Nat
  <2>1. B \cap A = C
    OBVIOUS
  <2> QED
    BY <2>1, FS_Difference, FS_CardinalityType
<1>5. Cardinality(G!SymDiff(A, B)) = Cardinality(A \ B) + Cardinality(B \ A)
  <2>1. (A \ B) \cap (B \ A) = {}
    OBVIOUS
  <2>2. Cardinality((A \ B) \cup (B \ A)) = Cardinality(A \ B) + Cardinality(B \ A) - Cardinality({})
    BY <1>1, <2>1, FS_Union
  <2> QED
    BY <1>2, <2>2, FS_EmptySet DEF G!SymDiff
<1> DEFINE a == Cardinality(A \ B)
           b == Cardinality(B \ A)
           c == Cardinality(C)
<1>6. \A i, j, k \in Nat : (i + j) % 2 = 1 <=> ~ ((i + k) % 2 = 1 <=> (j + k) % 2 = 1)
  OBVIOUS
<1>7. (a + b) % 2 = 1 <=> ~ ((a + c) % 2 = 1 <=> (b + c) % 2 = 1)
  BY <1>2, <1>6
<1>8. Cardinality(A) = a + c /\ Cardinality(B) = b + c
  BY <1>2, <1>3, <1>4
<1> QED
  BY <1>5, <1>7, <1>8 DEF Odd

\* The edges of X that end at a node, and that cross the observable.
Ending(es, X, n) == {i \in X : G!EndsAt(es[i], n)}
Crossing(es, X)  == {i \in X : es[i].obs = 1}

\* Of two sets of edges, those at a node, and those across the observable.
LEMMA EdgesDiffer ==
  ASSUME NEW es, IsFiniteSet(DOMAIN es), NEW E \in SUBSET DOMAIN es, NEW F \in SUBSET DOMAIN es
  PROVE  /\ \A n : Odd(Ending(es, G!SymDiff(E, F), n))
                     <=> ~ (Odd(Ending(es, E, n)) <=> Odd(Ending(es, F, n)))
         /\ Odd(Crossing(es, G!SymDiff(E, F)))
              <=> ~ (Odd(Crossing(es, E)) <=> Odd(Crossing(es, F)))
<1> USE DEF Ending, Crossing
<1>1. ASSUME NEW n
      PROVE  /\ IsFiniteSet(Ending(es, E, n)) /\ IsFiniteSet(Ending(es, F, n))
             /\ Ending(es, G!SymDiff(E, F), n) = G!SymDiff(Ending(es, E, n), Ending(es, F, n))
  <2>1. Ending(es, E, n) \in SUBSET DOMAIN es /\ Ending(es, F, n) \in SUBSET DOMAIN es
    OBVIOUS
  <2>2. Ending(es, G!SymDiff(E, F), n) = G!SymDiff(Ending(es, E, n), Ending(es, F, n))
    BY DEF G!SymDiff
  <2> QED
    BY <2>1, <2>2, FS_Subset
<1>2. /\ IsFiniteSet(Crossing(es, E)) /\ IsFiniteSet(Crossing(es, F))
      /\ Crossing(es, G!SymDiff(E, F)) = G!SymDiff(Crossing(es, E), Crossing(es, F))
  <2>1. Crossing(es, E) \in SUBSET DOMAIN es /\ Crossing(es, F) \in SUBSET DOMAIN es
    OBVIOUS
  <2>2. Crossing(es, G!SymDiff(E, F)) = G!SymDiff(Crossing(es, E), Crossing(es, F))
    BY DEF G!SymDiff
  <2> QED
    BY <2>1, <2>2, FS_Subset
<1> HIDE DEF Ending, Crossing
<1> QED
  BY <1>1, <1>2, OddSymDiff

\* The cardinality of the graph's module.
LEMMA SameCardinality == \A S : G!Cardinality(S) = Cardinality(S)
BY DEF G!Cardinality, Cardinality

\* The events and the observable by parities.
LEMMA OddAtIs ==
  ASSUME NEW user, NEW es, NEW E
  PROVE  /\ \A n : n \in G!OddAt(user, es, E)
                     <=> n \in (1..user.size) \ user.boundary /\ Odd(Ending(es, E, n))
         /\ G!ObsOf(es, E) = Cardinality(Crossing(es, E)) % 2
<1>1. \A n : G!Cardinality({i \in E : G!EndsAt(es[i], n)}) = Cardinality(Ending(es, E, n))
  BY SameCardinality DEF Ending
<1>2. G!Cardinality({i \in E : es[i].obs = 1}) = Cardinality(Crossing(es, E))
  BY SameCardinality DEF Crossing
<1> QED
  BY <1>1, <1>2 DEF G!OddAt, G!ObsOf, Odd

-----------------------------------------------------------------------------
\* Sequences put one after the other are one.
LEMMA FlattenIs ==
  ASSUME NEW V, NEW seqs \in Seq(Seq(V))
  PROVE  G!FlattenSeq(seqs) \in Seq(V)
<1> DEFINE n == Len(seqs)
           Is(g) == g = [i \in 1..n |-> IF i = 1 THEN seqs[i] ELSE g[i - 1] \o seqs[i]]
           flat == CHOOSE g : Is(g)
<1>1. CASE n = 0
  BY <1>1 DEF G!FlattenSeq
<1>2. CASE n # 0
  <2> DEFINE step == [k \in Nat |-> [v \in Seq(V) |-> IF k < n THEN v \o seqs[k + 1] ELSE v]]
  <2>1. \A k \in Nat : k < n => seqs[k + 1] \in Seq(V)
    OBVIOUS
  <2>2. step \in Steps(Seq(V))
    BY <2>1 DEF Steps
  <2>3. \A k \in Nat : \A v \in Seq(V) : k < n => step[k][v] = v \o seqs[k + 1]
    OBVIOUS
  <2> HIDE DEF step
  <2>4. <<>> \in Seq(V)
    OBVIOUS
  <2>5. PICK f : Recurs(f, Seq(V), <<>>, step)
    BY <2>2, <2>4, PrimitiveRecursion
  <2>6. /\ f[0] = <<>>
        /\ \A k \in Nat : f[k] \in Seq(V) /\ (k < n => f[k + 1] = f[k] \o seqs[k + 1])
    BY <2>3, <2>5 DEF Recurs
  <2> DEFINE g == [i \in 1..n |-> f[i]]
  <2>7. Is(g)
    <3> SUFFICES ASSUME NEW i \in 1..n
                 PROVE  f[i] = IF i = 1 THEN seqs[i] ELSE g[i - 1] \o seqs[i]
      OBVIOUS
    <3>1. i - 1 \in Nat /\ i - 1 < n /\ (i - 1) + 1 = i /\ seqs[i] \in Seq(V)
      OBVIOUS
    <3>2. f[i] = f[i - 1] \o seqs[i]
      BY <2>6, <3>1
    <3>3. CASE i = 1
      <4>1. \A s \in Seq(V) : <<>> \o s = s
        OBVIOUS
      <4>2. f[i - 1] = <<>>
        BY <2>6, <3>3
      <4>3. f[i] = seqs[i]
        BY <3>1, <3>2, <4>1, <4>2
      <4> QED
        BY <3>3, <4>3
    <3>4. CASE i # 1
      <4>1. g[i - 1] = f[i - 1]
        BY <3>4
      <4> QED
        BY <3>2, <3>4, <4>1
    <3> QED
      BY <3>3, <3>4
  <2> HIDE DEF g
  <2>8. Is(flat)
    <3> HIDE DEF Is
    <3> QED
      BY <2>7
  <2>9. G!FlattenSeq(seqs) = flat[n]
    BY <1>2 DEF G!FlattenSeq
  <2> HIDE DEF flat
  <2> DEFINE N == {k \in Nat : k + 1 <= n => flat[k + 1] \in Seq(V)}
  <2>10. 0 \in N
    BY <1>2, <2>8
  <2>11. ASSUME NEW k \in Nat, k \in N PROVE k + 1 \in N
    <3> SUFFICES ASSUME k + 2 <= n PROVE flat[k + 2] \in Seq(V)
      OBVIOUS
    <3>1. k + 2 \in 1..n /\ k + 2 # 1 /\ (k + 2) - 1 = k + 1 /\ seqs[k + 2] \in Seq(V)
      OBVIOUS
    <3>2. flat[k + 2] = flat[k + 1] \o seqs[k + 2]
      BY <2>8, <3>1
    <3>3. flat[k + 1] \in Seq(V)
      BY <2>11
    <3> QED
      BY <3>1, <3>2, <3>3
  <2> HIDE DEF N
  <2>12. Nat \subseteq N
    BY <2>10, <2>11, NaturalInduction
  <2>13. n - 1 \in Nat /\ (n - 1) + 1 = n
    BY <1>2
  <2>14. flat[n] \in Seq(V)
    BY <2>12, <2>13 DEF N
  <2> QED
    BY <2>9, <2>14
<1> QED
  BY <1>1, <1>2

\* Of some numbered weights there is a least one, and of those the first.
LEMMA LeastWeight ==
  ASSUME NEW n \in Nat, NEW w \in [1..n -> Int], NEW A \in SUBSET (1..n), A # {}
  PROVE  \E i \in A : \A j \in A : w[i] < w[j] \/ (w[i] = w[j] /\ i <= j)
<1> DEFINE Leads(i, X) == \A j \in X : w[i] < w[j] \/ (w[i] = w[j] /\ i <= j)
           P == {X \in SUBSET A : X = {} \/ \E i \in X : Leads(i, X)}
<1>1. {} \in P
  OBVIOUS
<1>2. ASSUME NEW X \in SUBSET A, X # {}, \A x \in X : X \ {x} \in P
      PROVE  X \in P
  <2>1. PICK x \in X : TRUE
    BY <1>2
  <2>2. \A i \in A : i \in Int /\ w[i] \in Int
    OBVIOUS
  <2>3. CASE X \ {x} = {}
    <3>1. Leads(x, X)
      BY <2>1, <2>2, <2>3
    <3> QED
      BY <3>1
  <2>4. CASE X \ {x} # {}
    <3>1. PICK i \in X \ {x} : Leads(i, X \ {x})
      BY <1>2, <2>4
    <3>2. CASE w[x] < w[i] \/ (w[x] = w[i] /\ x <= i)
      <4>1. Leads(x, X)
        BY <2>2, <3>1, <3>2
      <4> QED
        BY <4>1
    <3>3. CASE ~ (w[x] < w[i] \/ (w[x] = w[i] /\ x <= i))
      <4>1. Leads(i, X)
        BY <2>2, <3>1, <3>3
      <4> QED
        BY <4>1
    <3> QED
      BY <3>2, <3>3
  <2> QED
    BY <2>3, <2>4
<1>3. IsFiniteSet(A)
  <2>1. IsFiniteSet(1..n)
    BY FS_Interval
  <2> QED
    BY <2>1, FS_Subset
<1> HIDE DEF P
<1>4. A \in P
  <2>1. \A X \in SUBSET A : X # {} /\ (\A x \in X : X \ {x} \in P) => X \in P
    BY <1>2
  <2>2. \A X \in SUBSET A : X \in P
    BY <1>1, <1>3, <2>1, SubsetInduction
  <2> QED
    BY <2>2
<1> QED
  BY <1>4 DEF P

\* What the decoder keeps of a user's graph are edges, with weights.
LEMMA SignedEdgesAre ==
  ASSUME NEW user \in UserGraph
  PROVE  /\ G!SignedEdges(user) \in Seq(UserEdge)
         /\ Weighted(G!SignedEdges(user))
<1> DEFINE es == user.edges
           kept == [i \in DOMAIN es |-> G!InnerEdge(user, es[i])]
           ways == [n \in 1..user.size |-> G!BoundaryEdge(user, n)]
<1>1. es \in Seq(UserEdge) /\ user.size \in Nat
  BY DEF UserGraph
<1>2. ASSUME NEW e \in UserEdge PROVE G!InnerEdge(user, e) \in Seq(UserEdge)
  <2>1. [e EXCEPT !.w = 2 * @] \in UserEdge
    BY DEF UserEdge
  <2> QED
    BY <2>1 DEF G!InnerEdge
<1>3. ASSUME NEW n \in 1..user.size PROVE G!BoundaryEdge(user, n) \in Seq(UserEdge)
  <2> DEFINE mine == {i \in DOMAIN es : G!InnerEnd(user, es[i]) = n}
             Leads(i) == \A j \in mine : \/ es[i].w < es[j].w
                                         \/ es[i].w = es[j].w /\ i <= j
             first == CHOOSE i \in mine : Leads(i)
  <2>1. CASE mine = {}
    BY <2>1 DEF G!BoundaryEdge
  <2>2. CASE mine # {}
    <3> DEFINE w == [i \in 1..Len(es) |-> es[i].w]
    <3>1. w \in [1..Len(es) -> Int] /\ mine \in SUBSET (1..Len(es)) /\ Len(es) \in Nat
      <4>1. DOMAIN es = 1..Len(es) /\ Len(es) \in Nat /\ \A i \in 1..Len(es) : es[i] \in UserEdge
        BY <1>1
      <4>2. \A i \in 1..Len(es) : es[i].w \in Int
        BY <4>1 DEF UserEdge
      <4> QED
        BY <4>1, <4>2
    <3>2. \A i \in mine : w[i] = es[i].w
      BY <3>1
    <3> HIDE DEF mine, w
    <3>3. \E i \in mine : \A j \in mine : w[i] < w[j] \/ (w[i] = w[j] /\ i <= j)
      BY <2>2, <3>1, LeastWeight
    <3>4. \E i \in mine : Leads(i)
      BY <3>2, <3>3
    <3>5. first \in mine
      <4> HIDE DEF Leads
      <4> QED
        BY <3>4
    <3>6. G!BoundaryEdge(user, n)
            = <<[u |-> n, v |-> G!None, w |-> 2 * es[first].w, obs |-> es[first].obs]>>
      BY <2>2 DEF G!BoundaryEdge, mine
    <3> HIDE DEF first
    <3>7. es[first] \in UserEdge
      BY <1>1, <3>1, <3>5
    <3>8. [u |-> n, v |-> G!None, w |-> 2 * es[first].w, obs |-> es[first].obs] \in UserEdge
      BY <1>1, <3>7 DEF UserEdge, G!None
    <3> QED
      BY <3>6, <3>8
  <2> QED
    BY <2>1, <2>2
<1>4. kept \in Seq(Seq(UserEdge))
  <2>1. DOMAIN es = 1..Len(es) /\ Len(es) \in Nat /\ \A i \in 1..Len(es) : es[i] \in UserEdge
    BY <1>1
  <2>2. kept \in [1..Len(es) -> Seq(UserEdge)]
    BY <1>2, <2>1
  <2> HIDE DEF kept
  <2> QED
    BY <2>1, <2>2
<1>5. ways \in Seq(Seq(UserEdge))
  <2>1. ways \in [1..user.size -> Seq(UserEdge)]
    BY <1>3
  <2> QED
    BY <1>1, <2>1
<1>6. G!SignedEdges(user) = G!FlattenSeq(kept) \o G!FlattenSeq(ways)
  BY DEF G!SignedEdges
<1> HIDE DEF kept, ways
<1>7. G!SignedEdges(user) \in Seq(UserEdge)
  BY <1>4, <1>5, <1>6, FlattenIs
<1> DEFINE signed == G!SignedEdges(user)
<1> HIDE DEF signed
<1>8. signed \in Seq(UserEdge)
  BY <1>7 DEF signed
<1>9. IsFiniteSet(DOMAIN signed)
  <2>1. DOMAIN signed = 1..Len(signed) /\ Len(signed) \in Nat
    BY <1>8
  <2> QED
    BY <2>1, FS_Interval
<1>10. \A i \in DOMAIN signed : signed[i].w \in Int
  <2>1. \A i \in DOMAIN signed : signed[i] \in UserEdge
    BY <1>8
  <2> QED
    BY <2>1 DEF UserEdge
<1> QED
  BY <1>8, <1>9, <1>10 DEF signed, Weighted

-----------------------------------------------------------------------------
\* The events and the weight of some edges, by those of the edges in which they differ from the
\* negative ones, without signs.
LEMMA Differing ==
  ASSUME NEW user \in UserGraph, NEW E \in SUBSET DOMAIN G!SignedEdges(user)
  PROVE  LET es  == G!SignedEdges(user)
             abs == G!Unsigned(es)
             F   == G!SymDiff(E, G!Negative(es))
         IN /\ F \in SUBSET DOMAIN es /\ G!SymDiff(F, G!Negative(es)) = E
            /\ G!OddAt(user, abs, F) = G!EffectiveEvents(user, G!OddAt(user, es, E))
            /\ G!WeightOf(es, E) = G!WeightOf(abs, F) + G!NegativeSum(user)
            /\ G!ObsOf(es, E) = G!Xor(G!ObsOf(abs, F), G!NegativeObs(user))
            /\ G!WeightOf(abs, F) \in Int /\ G!NegativeSum(user) \in Int
<1> DEFINE es  == G!SignedEdges(user)
           abs == G!Unsigned(es)
           N   == G!Negative(es)
           F   == G!SymDiff(E, N)
           D   == DOMAIN es
<1>1. es \in Seq(UserEdge) /\ Weighted(es)
  BY SignedEdgesAre
<1>2. E \in SUBSET D
  OBVIOUS
<1>3. /\ G!NegativeSum(user) = G!WeightOf(es, N) /\ G!NegativeObs(user) = G!ObsOf(es, N)
      /\ \A n : n \in G!NegativeEvents(user) <=> n \in 1..user.size /\ Odd(Ending(es, N, n))
  <2>1. G!NegativeSum(user) = G!WeightOf(es, N) /\ G!NegativeObs(user) = G!ObsOf(es, N)
    BY DEF G!NegativeSum, G!NegativeObs
  <2>2. \A n : n \in G!NegativeEvents(user)
                <=> /\ n \in 1..user.size
                    /\ G!Cardinality({i \in N : G!EndsAt(es[i], n)}) % 2 = 1
    BY DEF G!NegativeEvents
  <2> HIDE DEF es, N
  <2>3. \A n : G!Cardinality({i \in N : G!EndsAt(es[i], n)}) = Cardinality(Ending(es, N, n))
    BY SameCardinality DEF Ending
  <2> QED
    BY <2>1, <2>2, <2>3 DEF Odd
<1> HIDE DEF es
<1>4. IsFiniteSet(D) /\ \A i \in D : es[i] \in UserEdge /\ es[i].w \in Int
  BY <1>1 DEF Weighted
<1>5. \A i \in D : i \in N <=> es[i].w < 0
  BY DEF G!Negative
<1>6. N \in SUBSET D /\ F \in SUBSET D
  BY <1>2 DEF G!Negative, G!SymDiff
<1>7. abs = [i \in D |-> [es[i] EXCEPT !.w = G!AbsoluteOf(@)]]
  BY DEF G!Unsigned
<1>8. ASSUME NEW i \in D
      PROVE  /\ abs[i].w = IF i \in N THEN -es[i].w ELSE es[i].w
             /\ abs[i].u = es[i].u /\ abs[i].v = es[i].v /\ abs[i].obs = es[i].obs
  <2>1. abs[i] = [es[i] EXCEPT !.w = G!AbsoluteOf(@)]
    BY <1>7
  <2>2. es[i] \in UserEdge /\ es[i].w \in Int
    BY <1>4
  <2>3. abs[i].w = G!AbsoluteOf(es[i].w)
    BY <2>1, <2>2 DEF UserEdge
  <2>4. abs[i].u = es[i].u /\ abs[i].v = es[i].v /\ abs[i].obs = es[i].obs
    BY <2>1, <2>2 DEF UserEdge
  <2> QED
    BY <1>5, <2>2, <2>3, <2>4 DEF G!AbsoluteOf
<1>9. DOMAIN abs = D
  BY <1>7
<1> HIDE DEF abs, N
<1>10. Weighted(abs)
  BY <1>4, <1>8, <1>9 DEF Weighted
<1>11. G!SymDiff(F, N) = E
  BY DEF G!SymDiff
<1>12. G!OddAt(user, abs, F) = G!EffectiveEvents(user, G!OddAt(user, es, E))
  <2>1. \A n : Ending(abs, F, n) = Ending(es, F, n)
    BY <1>6, <1>8 DEF Ending, G!EndsAt
  <2>2. \A n : Odd(Ending(es, F, n)) <=> ~ (Odd(Ending(es, E, n)) <=> Odd(Ending(es, N, n)))
    BY <1>2, <1>4, <1>6, EdgesDiffer
  <2>3. \A n : n \in G!OddAt(user, abs, F) <=> n \in (1..user.size) \ user.boundary /\ Odd(Ending(es, F, n))
    BY <2>1, OddAtIs
  <2>4. \A n : n \in G!OddAt(user, es, E) <=> n \in (1..user.size) \ user.boundary /\ Odd(Ending(es, E, n))
    BY OddAtIs
  <2>5. \A n : n \in G!OddAt(user, abs, F) <=> n \in G!EffectiveEvents(user, G!OddAt(user, es, E))
    BY <1>3, <2>2, <2>3, <2>4 DEF G!EffectiveEvents, G!SymDiff
  <2> QED
    BY <2>5
<1>13. /\ G!WeightOf(es, E) = G!WeightOf(abs, F) + G!WeightOf(es, N)
       /\ G!WeightOf(abs, F) \in Int /\ G!WeightOf(es, N) \in Int
  <2> DEFINE A == E \ N
             B == N \ E
             C == E \cap N
  <2>1. /\ A \in SUBSET D /\ B \in SUBSET D /\ C \in SUBSET D
        /\ A \cap C = {} /\ B \cap C = {} /\ A \cap B = {}
        /\ E = A \cup C /\ N = B \cup C /\ F = A \cup B
    BY <1>2, <1>6 DEF G!SymDiff
  <2>2. /\ \A i \in A : abs[i].w = es[i].w
        /\ \A i \in B : abs[i].w = -es[i].w
    BY <1>8, <2>1
  <2> HIDE DEF A, B, C, F
  <2>3. G!WeightOf(es, E) = G!WeightOf(es, A) + G!WeightOf(es, C)
    BY <1>1, <2>1, WeightsAdd
  <2>4. G!WeightOf(es, N) = G!WeightOf(es, B) + G!WeightOf(es, C)
    BY <1>1, <2>1, WeightsAdd
  <2>5. G!WeightOf(abs, F) = G!WeightOf(abs, A) + G!WeightOf(abs, B)
    BY <1>9, <1>10, <2>1, WeightsAdd
  <2>6. G!WeightOf(abs, A) = G!WeightOf(es, A)
    <3>1. \A i \in A : abs[i].w = IF TRUE THEN es[i].w ELSE -es[i].w
      BY <2>2
    <3>2. TRUE \in BOOLEAN
      OBVIOUS
    <3>3. G!WeightOf(abs, A) = IF TRUE THEN G!WeightOf(es, A) ELSE -G!WeightOf(es, A)
      BY <1>1, <1>9, <1>10, <2>1, <3>1, <3>2, WeightsAgree
    <3> QED
      BY <3>3
  <2>7. G!WeightOf(abs, B) = -G!WeightOf(es, B)
    <3>1. \A i \in B : abs[i].w = IF FALSE THEN es[i].w ELSE -es[i].w
      BY <2>2
    <3>2. FALSE \in BOOLEAN
      OBVIOUS
    <3>3. G!WeightOf(abs, B) = IF FALSE THEN G!WeightOf(es, B) ELSE -G!WeightOf(es, B)
      BY <1>1, <1>9, <1>10, <2>1, <3>1, <3>2, WeightsAgree
    <3> QED
      BY <3>3
  <2>8. /\ G!WeightOf(es, A) \in Int /\ G!WeightOf(es, B) \in Int /\ G!WeightOf(es, C) \in Int
    BY <1>1, <2>1, WeightsAdd
  <2> QED
    BY <2>3, <2>4, <2>5, <2>6, <2>7, <2>8
<1>14. G!ObsOf(es, E) = G!Xor(G!ObsOf(abs, F), G!ObsOf(es, N))
  <2> DEFINE e == Cardinality(Crossing(es, E))
             n == Cardinality(Crossing(es, N))
             f == Cardinality(Crossing(es, F))
  <2>1. f % 2 = 1 <=> ~ (e % 2 = 1 <=> n % 2 = 1)
    BY <1>2, <1>4, <1>6, EdgesDiffer DEF Odd
  <2>2. Crossing(abs, F) = Crossing(es, F)
    BY <1>6, <1>8 DEF Crossing
  <2>3. e \in Nat /\ n \in Nat /\ f \in Nat
    <3>1. /\ Crossing(es, E) \in SUBSET D /\ Crossing(es, N) \in SUBSET D
          /\ Crossing(es, F) \in SUBSET D
      BY <1>2, <1>6 DEF Crossing
    <3> QED
      BY <1>4, <3>1, FS_Subset, FS_CardinalityType
  <2>4. G!ObsOf(es, E) = e % 2 /\ G!ObsOf(es, N) = n % 2 /\ G!ObsOf(abs, F) = f % 2
    BY <2>2, OddAtIs
  <2> HIDE DEF e, n, f
  <2>5. e % 2 = ((f % 2) + (n % 2)) % 2
    BY <2>1, <2>3
  <2>6. G!Xor(f % 2, n % 2) = ((f % 2) + (n % 2)) % 2
    BY DEF G!Xor
  <2> QED
    BY <2>4, <2>5, <2>6
<1> QED
  BY <1>3, <1>6, <1>11, <1>12, <1>13, <1>14 DEF es, N, abs

\* How negative weights are decoded is right, on any graph (driver/decoding.rs, apply_negative_
\* weight_events; flooder/graph.rs): edges are a lightest explanation of the detectors that fired
\* just if the edges in which they differ from the negative ones are, of the effective events and
\* with weights without sign; and the weight and the observable of the latter, with those of the
\* negative edges added as Predict adds them, are those of the former.
THEOREM NegativeWeightsUndone ==
  ASSUME NEW user \in UserGraph, NEW fired \in SUBSET (1..user.size),
         NEW E \in SUBSET DOMAIN G!SignedEdges(user)
  PROVE  LET es  == G!SignedEdges(user)
             abs == G!Unsigned(es)
             F   == G!SymDiff(E, G!Negative(es))
         IN /\ Lightest(user, es, fired \ user.boundary, E)
                 <=> Lightest(user, abs, G!EffectiveEvents(user, fired), F)
            /\ G!WeightOf(es, E) = G!WeightOf(abs, F) + G!NegativeSum(user)
            /\ G!ObsOf(es, E) = G!Xor(G!ObsOf(abs, F), G!NegativeObs(user))
<1> DEFINE es  == G!SignedEdges(user)
           abs == G!Unsigned(es)
           N   == G!Negative(es)
           D   == DOMAIN es
           inner == fired \ user.boundary
           events == G!EffectiveEvents(user, fired)
           sum == G!NegativeSum(user)
           Other(X) == G!SymDiff(X, N)
<1>1. ASSUME NEW X \in SUBSET D
      PROVE  /\ Other(X) \in SUBSET D /\ Other(Other(X)) = X
             /\ G!OddAt(user, abs, Other(X)) = G!EffectiveEvents(user, G!OddAt(user, es, X))
             /\ G!WeightOf(es, X) = G!WeightOf(abs, Other(X)) + sum
             /\ G!ObsOf(es, X) = G!Xor(G!ObsOf(abs, Other(X)), G!NegativeObs(user))
             /\ G!WeightOf(abs, Other(X)) \in Int /\ sum \in Int
  BY Differing
<1>2. DOMAIN abs = D
  BY DEF G!Unsigned
<1>3. ASSUME NEW X \in SUBSET D
      PROVE  G!OddAt(user, es, X) = inner <=> G!OddAt(user, abs, Other(X)) = events
  <2> DEFINE S == G!OddAt(user, es, X)
             M == G!NegativeEvents(user)
  <2>1. S \in SUBSET ((1..user.size) \ user.boundary)
    BY DEF G!OddAt
  <2>2. G!OddAt(user, abs, Other(X)) = G!SymDiff(S, M) \ user.boundary
    BY <1>1 DEF G!EffectiveEvents
  <2>3. events = G!SymDiff(fired, M) \ user.boundary
    BY DEF G!EffectiveEvents
  <2> HIDE DEF S, M, Other, events, abs
  <2>4. S = inner <=> G!SymDiff(S, M) \ user.boundary = G!SymDiff(fired, M) \ user.boundary
    <3>1. ASSUME S = inner
          PROVE  G!SymDiff(S, M) \ user.boundary = G!SymDiff(fired, M) \ user.boundary
      BY <3>1 DEF G!SymDiff
    <3>2. ASSUME G!SymDiff(S, M) \ user.boundary = G!SymDiff(fired, M) \ user.boundary
          PROVE  S = inner
      <4>1. \A n : n \in S <=> n \in inner
        BY <2>1, <3>2 DEF G!SymDiff
      <4> QED
        BY <4>1
    <3> QED
      BY <3>1, <3>2
  <2> QED
    BY <2>2, <2>3, <2>4 DEF S
<1> HIDE DEF es, abs, N, inner, events, sum, Other
<1>4. E \in SUBSET D
  BY DEF es
<1>5. Lightest(user, es, inner, E) <=> Lightest(user, abs, events, Other(E))
  <2>1. ASSUME Lightest(user, es, inner, E)
        PROVE  Lightest(user, abs, events, Other(E))
    <3>1. G!OddAt(user, abs, Other(E)) = events
      BY <1>3, <1>4, <2>1 DEF Lightest
    <3>2. ASSUME NEW Y \in SUBSET D, G!OddAt(user, abs, Y) = events
          PROVE  G!WeightOf(abs, Other(E)) <= G!WeightOf(abs, Y)
      <4>1. Other(Y) \in SUBSET D /\ Other(Other(Y)) = Y
        BY <1>1
      <4>2. G!OddAt(user, es, Other(Y)) = inner
        BY <1>3, <3>2, <4>1
      <4>3. G!WeightOf(es, E) <= G!WeightOf(es, Other(Y))
        BY <2>1, <4>1, <4>2 DEF Lightest
      <4>4. /\ G!WeightOf(es, E) = G!WeightOf(abs, Other(E)) + sum
            /\ G!WeightOf(abs, Other(E)) \in Int /\ sum \in Int
        BY <1>1, <1>4
      <4>5. /\ G!WeightOf(es, Other(Y)) = G!WeightOf(abs, Y) + sum
            /\ G!WeightOf(abs, Y) \in Int
        BY <1>1, <4>1
      <4> QED
        BY <4>3, <4>4, <4>5
    <3> QED
      BY <1>2, <3>1, <3>2 DEF Lightest
  <2>2. ASSUME Lightest(user, abs, events, Other(E))
        PROVE  Lightest(user, es, inner, E)
    <3>1. G!OddAt(user, es, E) = inner
      BY <1>3, <1>4, <2>2 DEF Lightest
    <3>2. ASSUME NEW X \in SUBSET D, G!OddAt(user, es, X) = inner
          PROVE  G!WeightOf(es, E) <= G!WeightOf(es, X)
      <4>1. Other(X) \in SUBSET D /\ G!OddAt(user, abs, Other(X)) = events
        BY <1>1, <1>3, <3>2
      <4>2. G!WeightOf(abs, Other(E)) <= G!WeightOf(abs, Other(X))
        BY <1>2, <2>2, <4>1 DEF Lightest
      <4>3. /\ G!WeightOf(es, E) = G!WeightOf(abs, Other(E)) + sum
            /\ G!WeightOf(abs, Other(E)) \in Int /\ sum \in Int
        BY <1>1, <1>4
      <4>4. /\ G!WeightOf(es, X) = G!WeightOf(abs, Other(X)) + sum
            /\ G!WeightOf(abs, Other(X)) \in Int
        BY <1>1
      <4> QED
        BY <4>2, <4>3, <4>4
    <3> QED
      BY <3>1, <3>2 DEF Lightest
  <2> QED
    BY <2>1, <2>2
<1> QED
  BY <1>1, <1>4, <1>5 DEF es, abs, N, inner, events, sum, Other
=============================================================================
