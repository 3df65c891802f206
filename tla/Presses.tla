------------------------------ MODULE Presses ------------------------------
(***************************************************************************)
(* The presses of a sweep, src/entropy.c: count_buttons, one frame a step. *)
(* A press is one button going down in a frame in which no other does; it  *)
(* pays what its button and its moment are worth when nobody called them,  *)
(* out of a budget that fills at PRESS_RATE a frame and holds PRESS_SAVED. *)
(* The predictors are a choice here, and so are the credits, out of Button *)
(* and Moment; the gap is kept up to the bound it is compared with.        *)
(***************************************************************************)
EXTENDS Integers, FiniteSets

CONSTANTS
  Buttons,      \* enum entropy_button
  PRESS_GAP,    \* ENTROPY_PRESS_GAP
  PRESS_RATE,   \* ENTROPY_PRESS_RATE
  PRESS_SAVED,  \* what the budget holds, and starts with
  NoButton,     \* ENTROPY_BUTTON_NONE
  Button,       \* what an uncalled button may be worth, in sixteenths
  Moment        \* what its uncalled moment may be worth

ASSUME PressAssumption ==
  /\ PRESS_GAP \in Nat \ {0} /\ PRESS_RATE \in Nat /\ PRESS_SAVED \in Nat
  /\ Button \subseteq Nat \ {0} /\ Moment \subseteq Nat \ {0}
ASSUME ButtonsAssumption == IsFiniteSet(Buttons) /\ NoButton \notin Buttons

VARIABLES
  seen,    \* a frame has been seen since the reset
  down,    \* the buttons down in it
  gap,     \* the frames since the last press or chord
  budget,  \* the sixteenths presses may still pay
  press,   \* what this frame counted: its verdict, its button and its pay
  burst    \* history: the most any window of frames that ends here has paid
           \* beyond PRESS_RATE a frame after its first

pressVars == <<seen, down, gap, budget, press, burst>>

NoPress == [verdict |-> "none", button |-> NoButton, pays |-> 0]

PressesTypeOK ==
  /\ seen \in BOOLEAN /\ down \subseteq Buttons
  /\ gap \in 0..PRESS_GAP
  /\ budget \in 0..PRESS_SAVED
  /\ press \in [verdict : {"none", "paid", "guessed", "chord", "hurried"},
                button : Buttons \cup {NoButton}, pays : Nat]
  /\ burst \in Nat

Least(a, b) == IF a < b THEN a ELSE b

PressInit ==
  /\ seen = FALSE /\ down = {} /\ gap = 0 /\ budget = PRESS_SAVED
  /\ press = NoPress
  /\ burst = 0

(* The buttons that went down; those of the first frame are only noted. *)
Went(d) == IF seen THEN d \ down ELSE {}

(* A frame's allowance, taken in before anything is counted. *)
Allowed == Least(PRESS_SAVED, budget + PRESS_RATE)

Gap == Least(PRESS_GAP, gap + 1)
Hurried == Gap < PRESS_GAP

(* What a press earns before the budget has its say: a called button pays
   for nothing, its moment included. *)
Earned(called, timed) ==
  IF called \/ Hurried THEN {0}
  ELSE IF timed THEN Button ELSE {b + m : b \in Button, m \in Moment}

Idle(d) ==
  /\ Went(d) = {}
  /\ press' = NoPress
  /\ budget' = Allowed /\ gap' = Gap

Chord(d) ==
  /\ Cardinality(Went(d)) > 1
  /\ press' = [NoPress EXCEPT !.verdict = "chord"]
  /\ budget' = Allowed /\ gap' = 0

PressSpendsNothing(d, b, earned) ==                                 \* mutant
  /\ Went(d) = {b}
  /\ press' = [verdict |-> IF earned > 0 THEN "paid"
                           ELSE IF Hurried THEN "hurried" ELSE "guessed",
               button |-> b, pays |-> Least(earned, Allowed)]
  /\ budget' = Allowed
  /\ gap' = 0

Press(d, b, earned) ==
  /\ Went(d) = {b}
  /\ LET pays == Least(earned, Allowed) IN
     /\ press' = [verdict |-> IF pays > 0 THEN "paid"
                              ELSE IF Hurried \/ earned > 0 THEN "hurried"
                              ELSE "guessed",
                  button |-> b, pays |-> pays]
     /\ budget' = Allowed - pays
  /\ gap' = 0

(* The history: what was paid. *)
Watch ==
  burst' = (IF burst > PRESS_RATE THEN burst - PRESS_RATE ELSE 0) + press'.pays

Frame(d) ==
  /\ \/ Idle(d)
     \/ Chord(d)
     \/ \E b \in d, called, timed \in BOOLEAN :
          \E earned \in Earned(called, timed) : Press(d, b, earned)
  /\ down' = d /\ seen' = TRUE
  /\ Watch

ResetPresses ==
  /\ seen' = FALSE /\ down' = {} /\ gap' = 0 /\ budget' = PRESS_SAVED
  /\ press' = NoPress
  /\ burst' = 0

PressNext == (\E d \in SUBSET Buttons : Frame(d)) \/ ResetPresses

PressSpec == PressInit /\ [][PressNext]_pressVars
-----------------------------------------------------------------------------
(* The ceiling: over any window of frames, through pauses, chords and bursts,
   presses pay no more than the budget holds and PRESS_RATE for every frame
   after the window's first. *)
PressCeiling == burst <= PRESS_SAVED
=============================================================================
