------------------------------ MODULE Guesses ------------------------------
(***************************************************************************)
(* Which way a turn goes, guessed before it is looked at, src/entropy.c:   *)
(* predict, and the part of turn_to that scores the predictors and learns  *)
(* the turn.  Eleven predictors guess a turn, 1 to 7 eighths of a circle;  *)
(* the one with the best recent record is believed, and a context that has *)
(* repeated itself is too.  A turn that was called pays nothing for its    *)
(* direction.                                                              *)
(*                                                                         *)
(* The hand repeats one pattern and then another.  The moments of turns    *)
(* are guessed by predictors of the same make and are left out.            *)
(***************************************************************************)
EXTENDS Integers, Sequences, SequencesExt, Bags

CONSTANTS
  Turnings,   \* the turns the hand makes, of 1 to 7
  RING,       \* how many turns the code looks back on
  MaxPeriod,  \* bound of the model: the turns of a pattern
  Swaps,      \* bound of the model: when the hand may swap its pattern
  MaxTurns,   \* bound of the model: turns after that
  Patience    \* the turns of a pattern that may go uncalled

ASSUME GuessAssumption == Turnings \subseteq 1..7 /\ RING \in Nat \ {0} /\ Swaps \subseteq Nat

VARIABLES
  turns,   \* the last turns, at most RING, the latest at the end
  follow,  \* how often each context of one to three turns led to which: a bag
           \* of the contexts with the turn behind them
  score,   \* each predictor's recent record
  called,  \* history: whether the latest turn was guessed
  hand     \* the pattern it repeats, when it will swap it, for which, and the
           \* turns it has made of this one

guessVars == <<turns, follow, score, called, hand>>

(* P_LAG1 to P_LAG4, P_COMMON, P_FOLLOW1 to P_FOLLOW3, P_BACK2 to P_BACK4, in
   the order that breaks a tie *)
Predictor == 1..11
Follow(d) == 5 + d

Patterns == BoundedSeq(Turnings, MaxPeriod) \ {<<>>}

GuessInit ==
  /\ turns = <<>> /\ follow = EmptyBag /\ called = FALSE
  /\ score = [j \in Predictor |-> 0]
  /\ \E p, q \in Patterns, n \in Swaps :
       hand = [does |-> p, swap |-> n, then |-> q, made |-> 0]

(* turn_back: the turn k turns back, 0 when there were not so many *)
Back(k) == IF k <= Len(turns) THEN turns[Len(turns) - k + 1] ELSE 0

LastTurns(d) == SubSeq(turns, Len(turns) - d + 1, Len(turns))

(* most_common: of the last ones, the most recent on a tie *)
MostCommon ==
  LET tally(t) == Cardinality({i \in DOMAIN turns : turns[i] = t})
      most == {t \in ToSet(turns) : \A u \in ToSet(turns) : tally(u) <= tally(t)}
  IN turns[SelectLastInSeq(turns, LAMBDA t : t \in most)]

Support(d, t) ==
  LET context == Append(LastTurns(d), t) IN
  IF BagIn(context, follow) THEN follow[context] ELSE 0

(* most_frequent: what followed the last d turns, the lowest on a tie *)
MostFrequent(d) ==
  LET seen == {t \in Turnings : Support(d, t) > 0} IN
  IF seen = {} THEN 0
  ELSE CHOOSE t \in seen :
         \A u \in seen : Support(d, u) < Support(d, t) \/ (Support(d, u) = Support(d, t) /\ t <= u)

(* Back to the heading of k - 1 turns ago *)
ReturnTo(k) == (8 * k - FoldLeft(LAMBDA a, b : a + b, 0, LastTurns(k - 1))) % 8

(* predict; 0 is no guess *)
Guess(j) ==
  CASE j \in 1..4 -> Back(j)
    [] j = 5 -> IF turns = <<>> THEN 0 ELSE MostCommon
    [] j \in 6..8 -> IF Len(turns) >= j - 5 THEN MostFrequent(j - 5) ELSE 0
    [] OTHER -> IF Len(turns) >= j - 8 THEN ReturnTo(j - 7) ELSE 0

Winner ==
  CHOOSE j \in Predictor :
    \A k \in Predictor : score[k] < score[j] \/ (score[k] = score[j] /\ j <= k)

(* The winner's guess, or a context's that has done so before, whoever wins *)
Guessed(t) ==
  \/ Guess(Winner) = t
  \/ Guess(Follow(3)) = t /\ Support(3, t) >= 2
  \/ Guess(Follow(2)) = t /\ Support(2, t) >= 3

ScoreForGood(j, hit) == score[j] + (IF hit THEN 256 ELSE 0)         \* mutant
Scored(j, hit) == score[j] + (IF hit THEN 256 ELSE 0) - score[j] \div 8

(* turn_to, as far as the turn's direction is concerned *)
TurnTo(t) ==
  /\ called' = Guessed(t)
  /\ score' = [j \in Predictor |-> Scored(j, Guess(j) = t)]
  /\ follow' = follow (+) SetToBag({Append(LastTurns(d), t) :
                                    d \in {c \in 1..3 : c <= Len(turns)}})
  /\ turns' = IF Len(turns) < RING THEN Append(turns, t) ELSE Append(Tail(turns), t)

Comes == hand.does[(hand.made % Len(hand.does)) + 1]

GoOn ==
  /\ hand.made < (IF hand.swap > 0 THEN hand.swap ELSE MaxTurns)
  /\ TurnTo(Comes)
  /\ hand' = [hand EXCEPT !.made = @ + 1]

SwapPattern ==
  /\ hand.swap > 0 /\ hand.made = hand.swap
  /\ hand' = [does |-> hand.then, swap |-> 0, then |-> hand.then, made |-> 0]
  /\ UNCHANGED <<turns, follow, score, called>>

GuessNext == GoOn \/ SwapPattern

GuessSpec == GuessInit /\ [][GuessNext]_guessVars
-----------------------------------------------------------------------------
(* A hand that repeats a pattern of up to four turns is found out within
   Patience turns and earns nothing for its direction from then on, whatever
   pattern it kept to before: old contexts and old records hold out against
   the new one no longer than that. *)
PatternCalled == hand.made > Patience => called
=============================================================================
