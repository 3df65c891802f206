--------------------------- MODULE NaturalLemmas ---------------------------
(***************************************************************************)
(* Induction on the natural numbers, said of sets and functions so that the*)
(* provers can apply it: the least element of a set, and the function a    *)
(* recursion over 0..n defines; and what a remainder does as its number    *)
(* grows, for places in a ring.                                            *)
(***************************************************************************)
EXTENDS Integers, FiniteSetsExt, FiniteSetTheorems, FunctionTheorems, TLAPS

(* A set of natural numbers that has an element has a least one.  Were there
   none, every number up to a t in the set would be followed by one that is
   not in it either, an injection of a finite set into less than itself. *)
LEMMA LeastOfNat ==
  ASSUME NEW T \in SUBSET Nat, T # {}
  PROVE  \E m \in T : \A n \in T : m <= n
<1> SUFFICES ASSUME \A m \in T : \E n \in T : n < m
             PROVE  FALSE
  BY SMT
<1> PICK t \in T : TRUE
  OBVIOUS
<1> DEFINE A == {n \in 0..t : \A m \in 0..n : m \notin T}
           next == [n \in A |-> n + 1]
<1>1. 0 \in A
  BY SMT
<1>2. /\ IsFiniteSet(A) /\ IsFiniteSet(A \ {0})
      /\ Cardinality(A) \in Nat /\ Cardinality(A \ {0}) = Cardinality(A) - 1
  <2>1. IsFiniteSet(0..t)
    BY FS_Interval, SMT
  <2>2. A \subseteq 0..t
    OBVIOUS
  <2>3. IsFiniteSet(A)
    BY <2>1, <2>2, FS_Subset
  <2> HIDE DEF A
  <2>4. QED
    BY <2>3, <1>1, FS_RemoveElement, FS_CardinalityType
<1>3. \A n \in A : n + 1 \in A \ {0}
  <2> SUFFICES ASSUME NEW n \in A
               PROVE  n + 1 \in A \ {0}
    OBVIOUS
  <2>1. n \in Nat /\ n <= t /\ \A m \in 0..n : m \notin T
    BY SMT
  <2>2. n + 1 \notin T
    BY <2>1, SMT
  <2>3. n + 1 <= t /\ \A m \in 0..(n + 1) : m \notin T
    BY <2>1, <2>2, SMT
  <2>4. QED
    BY <2>1, <2>3, SMT
<1>4. next \in Injection(A, A \ {0})
  <2>1. next \in [A -> A \ {0}]
    BY <1>3
  <2>2. \A a, b \in A : next[a] = next[b] => a = b
    BY SMT
  <2> HIDE DEF next, A
  <2>3. QED
    BY <2>1, <2>2, Fun_IsInj
<1> HIDE DEF A, next
<1>5. Cardinality(A) <= Cardinality(A \ {0})
  BY <1>2, <1>4, FS_Injection
<1>6. QED
  BY <1>2, <1>5, SMT

(* What Min of FiniteSetsExt chooses is there. *)
LEMMA MinOfNat ==
  ASSUME NEW T \in SUBSET Nat, T # {}
  PROVE  Min(T) \in T /\ \A n \in T : Min(T) <= n
BY LeastOfNat DEF Min

(* What holds of 0, and of a number after every one it holds of, holds of all. *)
LEMMA Induction ==
  ASSUME NEW T \in SUBSET Nat, 0 \in T, \A n \in T : n + 1 \in T
  PROVE  T = Nat
<1> SUFFICES ASSUME Nat \ T # {}
             PROVE  FALSE
  OBVIOUS
<1>1. PICK m \in Nat \ T : \A n \in Nat \ T : m <= n
  BY LeastOfNat
<1>2. m # 0 /\ m - 1 \in Nat /\ m - 1 \in T
  BY <1>1, SMT
<1>3. QED
  BY <1>1, <1>2, SMT

(* A set of natural numbers below a bound has a greatest element. *)
LEMMA GreatestOfNat ==
  ASSUME NEW T \in SUBSET Nat, T # {}, NEW b \in Nat, \A n \in T : n <= b
  PROVE  \E m \in T : \A n \in T : n <= m
<1> DEFINE U == {k \in Nat : b - k \in T}
<1>1. \A n \in T : b - n \in U
  BY SMT
<1>2. PICK k \in U : \A j \in U : k <= j
  BY <1>1, LeastOfNat
<1>3. QED
  BY <1>1, <1>2, SMT

(* A recursion over 0..n that starts at b and goes on by F has a solution,
   which is what the CHOOSE of a recursive function definition needs. *)
IsStep(F, S) == F \in [Nat -> [S -> S]]

Computes(f, S, b, F, n) ==
  f \in [0..n -> S] /\ f[0] = b /\ \A i \in 1..n : f[i] = F[i][f[i - 1]]

LEMMA Recursion ==
  ASSUME NEW S, NEW b \in S, NEW F, IsStep(F, S), NEW n \in Nat
  PROVE  \E f : Computes(f, S, b, F, n)
<1> DEFINE Solved(m) == \E f : Computes(f, S, b, F, m)
           T == {m \in Nat : Solved(m)}
<1>1. 0 \in T
  <2> DEFINE f == [i \in 0..0 |-> b]
  <2>1. f \in [0..0 -> S] /\ f[0] = b /\ \A i \in 1..0 : f[i] = F[i][f[i - 1]]
    BY SMT
  <2>2. QED
    BY <2>1 DEF Computes
<1>2. ASSUME NEW m \in T
      PROVE  m + 1 \in T
  <2>1. PICK f : Computes(f, S, b, F, m)
    OBVIOUS
  <2>2. f \in [0..m -> S] /\ f[0] = b /\ \A i \in 1..m : f[i] = F[i][f[i - 1]]
    BY <2>1 DEF Computes
  <2>3. m \in Nat /\ F[m + 1][f[m]] \in S
    BY <2>2, SMT DEF IsStep
  <2> DEFINE g == [i \in 0..(m + 1) |-> IF i = m + 1 THEN F[m + 1][f[m]] ELSE f[i]]
  <2>4. g \in [0..(m + 1) -> S] /\ g[0] = b
    BY <2>2, <2>3, SMT
  <2>5. ASSUME NEW i \in 1..(m + 1)
        PROVE  g[i] = F[i][g[i - 1]]
    <3>1. CASE i = m + 1
      BY <2>3, <3>1, SMT
    <3>2. CASE i # m + 1
      <4>1. i \in 1..m /\ i - 1 \in 0..m /\ i - 1 # m + 1
        BY <2>3, <3>2, SMT
      <4>2. g[i] = f[i] /\ g[i - 1] = f[i - 1]
        BY <2>3, <4>1, SMT
      <4>3. QED
        BY <2>2, <4>1, <4>2
    <3>3. QED
      BY <3>1, <3>2
  <2> HIDE DEF g
  <2>6. Solved(m + 1)
    BY <2>4, <2>5, Zenon DEF Computes
  <2> HIDE DEF Solved
  <2>7. QED
    BY <2>3, <2>6, SMT
<1>3. T = Nat
  <2> HIDE DEF T
  <2>1. T \in SUBSET Nat
    BY DEF T
  <2>2. QED
    BY <1>1, <1>2, <2>1, Induction
<1>4. QED
  BY <1>3

(* What \div and % make of a number. *)
LEMMA DivMod ==
  ASSUME NEW T \in Nat \ {0}, NEW n \in Nat
  PROVE  n = T * (n \div T) + (n % T) /\ n \div T \in Int /\ n % T \in 0..(T - 1)
BY SMT

(* Multiples lie a whole step apart. *)
LEMMA StepApart ==
  ASSUME NEW T \in Nat \ {0}, NEW a \in Int, NEW b \in Int, a < b
  PROVE  T * a + T <= T * b
<1>1. a + 1 <= b
  OBVIOUS
<1>2. T * (b - (a + 1)) >= 0
  BY <1>1, SMT
<1>3. QED
  BY <1>2, SMT

(* A number has one remainder. *)
LEMMA OneRemainder ==
  ASSUME NEW T \in Nat \ {0}, NEW q \in Int, NEW r \in 0..(T - 1),
         NEW p \in Int, NEW s \in 0..(T - 1), T * q + r = T * p + s
  PROVE  r = s
<1>1. CASE q < p
  BY <1>1, StepApart, SMT
<1>2. CASE p < q
  BY <1>2, StepApart, SMT
<1>3. CASE p = q
  BY <1>3, SMT
<1>4. QED
  BY <1>1, <1>2, <1>3, SMT

(* Numbers a whole step apart have the same remainder. *)
LEMMA RingApart ==
  ASSUME NEW T \in Nat \ {0}, NEW n \in Nat, n >= T
  PROVE  (n - T) % T = n % T
<1>1. n - T \in Nat
  BY SMT
<1>2. n = T * (n \div T) + (n % T) /\ n \div T \in Int /\ n % T \in 0..(T - 1)
  BY DivMod
<1>3. /\ n - T = T * ((n - T) \div T) + ((n - T) % T)
      /\ (n - T) \div T \in Int /\ (n - T) % T \in 0..(T - 1)
  BY <1>1, DivMod
<1>4. T * (((n - T) \div T) + 1) + ((n - T) % T) = T * (n \div T) + (n % T)
  BY <1>2, <1>3, SMT
<1>5. ((n - T) \div T) + 1 \in Int
  BY <1>3
<1>6. QED
  BY <1>2, <1>3, <1>4, <1>5, OneRemainder
=============================================================================
