---------------------------- MODULE Arithmetic_proofs ----------------------------
(***************************************************************************)
(* Induction over numbers and definition by recursion, as facts about sets *)
(* and functions that a proof can cite (the induction theorems of the      *)
(* library take the predicate as an operator, which the provers cannot     *)
(* instantiate; the well-foundedness of < they can use), and division by a *)
(* number that is not known, which is beyond what they do by themselves.   *)
(***************************************************************************)
EXTENDS Integers, WellFoundedInduction, TLAPS

\* A set of natural numbers with a member has a least one.
LEMMA LeastNumber ==
  ASSUME NEW T, T \subseteq Nat, T # {}
  PROVE  \E x \in T : \A y \in T : x <= y
  <1> DEFINE R == OpToRel(<, Nat)
  <1>1. IsWellFoundedOn(R, Nat)
    BY NatLessThanWellFounded
  <1>2. \A x, y \in Nat : x < y => <<x, y>> \in R
    BY DEF OpToRel
  <1> HIDE DEF R
  <1>3. \E x \in T : \A y \in T : ~(<<y, x>> \in R)
    BY <1>1, WFMin
  <1>4. PICK x \in T : \A y \in T : ~(<<y, x>> \in R)
    BY <1>3
  <1>5. \A y \in T : ~(y < x)
    BY <1>2, <1>4
  <1> QED BY <1>5

\* What holds of 0 and is passed on from each number to the next holds up to N.
LEMMA UpTo ==
  ASSUME NEW N \in Nat, NEW T, 0 \in T, \A n \in 0 .. N - 1 : n \in T => n + 1 \in T
  PROVE  \A n \in 0 .. N : n \in T
  <1> DEFINE C == (0 .. N) \ T
  <1> SUFFICES ASSUME C # {} PROVE FALSE
    OBVIOUS
  <1>1. C \subseteq Nat
    OBVIOUS
  <1>2. PICK n \in C : \A m \in C : n <= m
    <2> HIDE DEF C
    <2> QED BY <1>1, LeastNumber
  <1>3. n # 0 /\ n - 1 \in 0 .. N - 1 /\ n - 1 \notin C
    BY <1>2
  <1> QED BY <1>3

\* What holds of N and is passed on from each number to the one before holds down to 0.
LEMMA DownTo ==
  ASSUME NEW N \in Nat, NEW T, N \in T, \A n \in 1 .. N : n \in T => n - 1 \in T
  PROVE  \A n \in 0 .. N : n \in T
  <1> DEFINE U == {m \in 0 .. N : N - m \in T}
  <1>1. 0 \in U
    OBVIOUS
  <1>2. ASSUME NEW m \in 0 .. N - 1, m \in U PROVE m + 1 \in U
    <2>1. N - m \in 1 .. N /\ N - m \in T
      BY <1>2
    <2>2. (N - m) - 1 \in T
      BY <2>1
    <2>3. N - (m + 1) = (N - m) - 1
      OBVIOUS
    <2> QED BY <2>2, <2>3
  <1>3. \A m \in 0 .. N : m \in U
    <2> HIDE DEF U
    <2> QED BY <1>1, <1>2, UpTo
  <1> TAKE n \in 0 .. N
  <1>4. N - n \in 0 .. N /\ N - (N - n) = n
    OBVIOUS
  <1> QED BY <1>3, <1>4

\* A step for each number from 1 to N, and what it means that f runs through them.
StepsOf(N, S) == [1 .. N -> [S -> S]]
RunsThrough(f, N, S, base, step) ==
  f \in [0 .. N -> S] /\ f[0] = base /\ \A n \in 1 .. N : f[n] = step[n][f[n - 1]]

\* A function defined by recursion over 0 .. N exists.
LEMMA Recursion ==
  ASSUME NEW N \in Nat, NEW S, NEW base \in S, NEW step \in StepsOf(N, S)
  PROVE  \E f : RunsThrough(f, N, S, base, step)
  <1> USE DEF StepsOf
  <1> DEFINE Is(f, n) == f \in [0 .. n -> S] /\ f[0] = base /\ \A m \in 1 .. n : f[m] = step[m][f[m - 1]]
             T == {n \in 0 .. N : \E f : Is(f, n)}
  <1>1. 0 \in T
    <2>1. Is([n \in 0 .. 0 |-> base], 0)
      OBVIOUS
    <2>2. \E f : Is(f, 0)
      <3> HIDE DEF Is
      <3> QED BY <2>1
    <2> HIDE DEF Is
    <2> QED BY <2>2
  <1>2. ASSUME NEW n \in 0 .. N - 1, n \in T PROVE n + 1 \in T
    <2>1. PICK f : Is(f, n)
      BY <1>2
    <2> DEFINE g == [m \in 0 .. n + 1 |-> IF m = n + 1 THEN step[n + 1][f[n]] ELSE f[m]]
    <2>2. f[n] \in S /\ n + 1 \in 1 .. N
      BY <2>1
    <2>3. step[n + 1][f[n]] \in S
      BY <2>2
    <2>4. g \in [0 .. n + 1 -> S] /\ g[0] = base
      BY <2>1, <2>3
    <2>5. \A m \in 1 .. n + 1 : g[m] = step[m][g[m - 1]]
      BY <2>1
    <2> HIDE DEF g
    <2>6. Is(g, n + 1)
      BY <2>4, <2>5
    <2> HIDE DEF Is
    <2> QED BY <2>6
  <1>3. N \in T
    <2> HIDE DEF T
    <2>1. \A n \in 0 .. N : n \in T
      BY <1>1, <1>2, UpTo
    <2> QED BY <2>1
  <1>4. PICK f : Is(f, N)
    <2> HIDE DEF Is
    <2> QED BY <1>3
  <1> QED BY <1>4 DEF RunsThrough

-----------------------------------------------------------------------------
\* Products with one factor in common.
LEMMA Product ==
  ASSUME NEW a \in Nat, NEW b \in Nat, NEW d \in Nat, a < b
  PROVE  a * d \in Nat /\ b * d \in Nat /\ a * d + d <= b * d
  <1>1. PICK k \in Nat : b = a + 1 + k
    <2> WITNESS b - a - 1 \in Nat
    <2> QED OBVIOUS
  <1>2. b * d = a * d + d + k * d
    BY <1>1
  <1>3. a * d \in Nat /\ k * d \in Nat
    OBVIOUS
  <1> QED BY <1>2, <1>3

\* What \div and % return.
LEMMA Division ==
  ASSUME NEW n \in Nat, NEW d \in Nat \ {0}
  PROVE  n \div d \in Nat /\ n % d \in 0 .. d - 1 /\ n = (n \div d) * d + (n % d)
  OBVIOUS

\* The quotient and the remainder are the only ones.
LEMMA Quotient ==
  ASSUME NEW n \in Nat, NEW d \in Nat \ {0}, NEW h \in Nat, NEW r \in 0 .. d - 1, n = h * d + r
  PROVE  n \div d = h /\ n % d = r
  <1> DEFINE q == n \div d
             m == n % d
  <1>1. q \in Nat /\ m \in 0 .. d - 1 /\ n = q * d + m
    BY Division
  <1> HIDE DEF q, m
  <1>2. ~(q < h)
    <2> SUFFICES ASSUME q < h PROVE FALSE
      OBVIOUS
    <2>1. q * d \in Nat /\ h * d \in Nat /\ q * d + d <= h * d
      BY <1>1, Product
    <2> QED BY <1>1, <2>1
  <1>3. ~(h < q)
    <2> SUFFICES ASSUME h < q PROVE FALSE
      OBVIOUS
    <2>1. q * d \in Nat /\ h * d \in Nat /\ h * d + d <= q * d
      BY <1>1, Product
    <2> QED BY <1>1, <2>1
  <1>4. q = h
    BY <1>1, <1>2, <1>3
  <1>5. h * d \in Nat
    OBVIOUS
  <1> QED BY <1>1, <1>4, <1>5 DEF q, m

\* A larger number has no smaller quotient.
LEMMA DivisionIsMonotone ==
  ASSUME NEW a \in Nat, NEW b \in Nat, a <= b, NEW d \in Nat \ {0}
  PROVE  a \div d <= b \div d
  <1> DEFINE p == a \div d
             q == b \div d
  <1>1. p \in Nat /\ q \in Nat /\ p * d <= a /\ b < q * d + d
    BY Division
  <1> HIDE DEF p, q
  <1> SUFFICES ASSUME q < p PROVE FALSE
    BY <1>1 DEF p, q
  <1>2. q * d \in Nat /\ p * d \in Nat /\ q * d + d <= p * d
    BY <1>1, Product
  <1> QED BY <1>1, <1>2
=============================================================================
