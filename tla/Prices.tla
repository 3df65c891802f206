------------------------------- MODULE Prices -------------------------------
(***************************************************************************)
(* What an uncalled turn, press or moment pays, src/entropy.c: credit.     *)
(* The record a price is drawn from grows with every turn: how many there  *)
(* were, how many the guess that was made got right, and how many each     *)
(* predictor would have.                                                   *)
(***************************************************************************)
EXTENDS Integers

CONSTANTS
  Predictors,  \* enum of the predictors of a part
  CAP,         \* DIRECTION_CAP, MOMENT_CAP, BUTTON_CAP or PRESS_MOMENT_CAP
  MaxCount     \* bound of the model: the turns of a sweep

ASSUME PriceAssumption == CAP \in Nat /\ MaxCount \in Nat

VARIABLES
  counted,  \* turns or presses so far
  guessed,  \* how often the guess actually made was right
  hits      \* how often each predictor would have been

priceVars == <<counted, guessed, hits>>

PricesTypeOK ==
  /\ counted \in 0..MaxCount /\ guessed \in Nat
  /\ hits \in [Predictors -> Nat]

PriceInit == counted = 0 /\ guessed = 0 /\ hits = [j \in Predictors |-> 0]

(* One more turn, called or not, that the predictors in right foresaw. *)
CountOne(called, right) ==
  /\ counted < MaxCount
  /\ counted' = counted + 1
  /\ guessed' = IF called THEN guessed + 1 ELSE guessed
  /\ hits' = [j \in Predictors |-> IF j \in right THEN hits[j] + 1 ELSE hits[j]]

PriceNext == \E called \in BOOLEAN, right \in SUBSET Predictors : CountOne(called, right)

PriceSpec == PriceInit /\ [][PriceNext]_priceVars
-----------------------------------------------------------------------------
(* isqrt_up, bit by bit: the square root of v, rounded up. *)
RootStepUnshifted(s) ==                                             \* mutant
  IF s.r + s.bit <= s.left
  THEN [r |-> (s.r \div 2) + s.bit, left |-> s.left - (s.r + s.bit), bit |-> s.bit \div 4]
  ELSE [r |-> s.r, left |-> s.left, bit |-> s.bit \div 4]

RootStep(s) ==
  IF s.r + s.bit <= s.left
  THEN [r |-> (s.r \div 2) + s.bit, left |-> s.left - (s.r + s.bit), bit |-> s.bit \div 4]
  ELSE [r |-> s.r \div 2, left |-> s.left, bit |-> s.bit \div 4]

TopBit == 1073741824   \* 1u << 30

IsqrtUp(v) ==
  LET after[i \in 0..16] ==
        IF i = 0 THEN [r |-> 0, left |-> v, bit |-> TopBit] ELSE RootStep(after[i - 1])
      r == after[16].r
  IN IF r * r < v THEN r + 1 ELSE r

(* min(4, -log2 p / (1 - p)) in sixteenths, for p = k / 32; from k = 0 *)
CreditForP ==
  <<64, 64, 64, 60, 54, 50, 47, 44, 42, 40, 39, 37, 36, 35, 33, 32, 32,
    31, 30, 29, 28, 28, 27, 27, 26, 26, 25, 25, 24, 24, 23, 23, 23>>

(* How often the best guess was right: the one made, or in hindsight *)
BestRecord ==
  CHOOSE r \in {guessed} \cup {hits[j] : j \in Predictors} :
    r >= guessed /\ \A j \in Predictors : r >= hits[j]

ShareRoundedDown(n, right) == (right * 1024 + 1024) \div (n + 2)    \* mutant

(* That out of n with a success and a failure added, in 1024ths, rounded up *)
Share(n, right) == (right * 1024 + 1024 + n + 1) \div (n + 2)

(* The variance the bound is drawn from; unsigned, so 1024 - p must not wrap *)
Variance(n, p) == (p * (1024 - p) + n - 1) \div n

UpperBound(n, right) ==
  LET p == Share(n, right)
      upper == p + (2576 * IsqrtUp(Variance(n, p)) + 999) \div 1000
  IN IF upper > 1024 THEN 1024 ELSE upper

Row(n, right) == (UpperBound(n, right) + 31) \div 32

Credit(n, right) ==
  LET c == CreditForP[Row(n, right) + 1] IN IF c < CAP THEN c ELSE CAP
-----------------------------------------------------------------------------
(* 1024 - p never wraps below zero, and the table is never read outside: the
   best record cannot exceed the turns it was made over. *)
NeverWraps ==
  counted > 0 => /\ Share(counted, BestRecord) \in 0..1024
                 /\ Row(counted, BestRecord) \in 0..32

(* The bitwise root is the smallest r with r * r >= v. *)
RootExact ==
  counted > 0 =>
    LET v == Variance(counted, Share(counted, BestRecord))
        r == IsqrtUp(v)
    IN r * r >= v /\ (r > 0 => (r - 1) * (r - 1) < v)

(* The unsigned arithmetic of a price is what it stands for: nothing wraps,
   and the root it works out bit by bit is rounded up and no further. *)
PriceExact == NeverWraps /\ RootExact

(* k / 32 is at least P + 2.576 * sqrt(P (1 - P) / n), where P is the record
   with a success and a failure added, (right + 1) / (n + 2): squared and
   multiplied out, and 15625 * e / 1024 in two steps to keep numbers small. *)
Reaches(n, right, k) ==
  LET d == k * (n + 2) - 32 * (right + 1)
      e == d * d * n
  IN /\ d >= 0
     /\ (e \div 1024) * 15625 + ((e % 1024) * 15625) \div 1024
          >= 103684 * ((right + 1) * (n + 1 - right))

(* Every rounding goes against the count (the comment above credit): what a
   turn is paid is no more than the table gives for the first thirty-second
   above the 99% bound worked out without a rounding.  Rounding p up makes its
   variance smaller, so the roundings work against each other. *)
RoundsAgainst ==
  counted > 0 =>
    LET pays == Credit(counted, BestRecord)
    IN \A k \in 0..32 :
         (k = 0 \/ ~Reaches(counted, BestRecord, k - 1)) => pays <= CreditForP[k + 1]
=============================================================================
