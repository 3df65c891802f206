------------------------------- MODULE Turns -------------------------------
(***************************************************************************)
(* The turns of a sweep, src/entropy.c: count_sample, one sample a step.   *)
(* A run is the samples that head one way in a row.  A run long enough and *)
(* off the last heading begins a turn, which is held as a roll until it    *)
(* has been kept for TURN_ROLL samples, has gone on round the same way, or *)
(* was a flick; a settled turn pays at once, or is owed until the source   *)
(* has reached new ground under it.                                        *)
(*                                                                         *)
(* The predictors and the credit table are one choice here, whether a turn *)
(* was called (Prices has the price itself); the summed motions are one,   *)
(* whether two runs point the same way, and whether a field is new is      *)
(* free.  Counters are kept up to the bound they are compared with.        *)
(***************************************************************************)
EXTENDS Integers

CONSTANTS
  Moves,         \* the headings the source moves in, of the eight
  TURN_SAMPLES,  \* ENTROPY_TURN_SAMPLES
  TURN_FIELDS,   \* ENTROPY_TURN_FIELDS
  TURN_ROLL,     \* ENTROPY_TURN_ROLL
  TURNS_WRAP     \* what the count of turns wraps at, 2^32 in the source

ASSUME MovesAssumption == Moves \subseteq 0..7
ASSUME RulesAssumption ==
  /\ TURN_SAMPLES \in Nat \ {0} /\ TURN_FIELDS \in Nat \ {0}
  /\ TURN_ROLL \in Nat \ {0} /\ TURNS_WRAP \in Nat \ {0, 1}

NONE == 8

VARIABLES
  run,      \* the heading of the samples running now, their number, and
            \* the new fields among them
  heading,  \* the heading of the last turn, NONE before the first
  roll,     \* the turn not settled yet: where it went, the samples since it
            \* was seen, its new fields, whether a wall made it
  walled,   \* a wall held the source back since the last of these
  latest,   \* the latest turn: its number, its verdict, the heading it is
            \* owed for (NONE when nothing is), and whether this sample paid
  past      \* history of the sweep, which the code does not keep: the samples
            \* since the last payment and the one before; the payments that
            \* rest on the ground of this run, of the roll and of the latest
            \* payment; the turns that earned since a wall that has not cost
            \* one yet, -1 when there is no such wall

turnVars == <<run, heading, roll, walled, latest, past>>

NoRoll == [to |-> NONE, age |-> 0, fields |-> 0, walled |-> FALSE]

Verdicts == {"none", "paid", "owed", "guessed", "wall", "flick"}

TurnsTypeOK ==
  /\ run \in [heading : Moves \cup {NONE}, samples : 0..TURN_SAMPLES,
              fields : 0..TURN_FIELDS]
  /\ heading \in Moves \cup {NONE}
  /\ roll \in [to : Moves \cup {NONE}, age : 0..TURN_ROLL,
               fields : 0..TURN_FIELDS, walled : BOOLEAN]
  /\ walled \in BOOLEAN
  /\ latest \in [seq : 0..(TURNS_WRAP - 1), verdict : Verdicts,
                 owed : Moves \cup {NONE}, paid : BOOLEAN]
  /\ past \in [last : 0..TURN_ROLL, before : 0..TURN_ROLL,
               spent : Nat, rollSpent : Nat, backed : Nat, passed : Int]

UpTo(bound, n) == IF n < bound THEN n ELSE bound

(* The turn from one heading to another, in steps of 45 degrees. *)
TurnOf(from, to) == IF to >= from THEN to - from ELSE to - from + 8

Sense(turn) ==
  CASE turn \in 1..3 -> 1
    [] turn \in 5..7 -> -1
    [] OTHER -> 2

(* Runs of neighbouring headings may still point the same way, within 15
   degrees; a run lies inside its own eighth, so no others can. *)
MayPointAlike(a, b) == TurnOf(a, b) \in {1, 7}

FirstLatest == [seq |-> 0, verdict |-> "none", owed |-> NONE, paid |-> FALSE]

FirstPast == [last |-> TURN_ROLL, before |-> TURN_ROLL, spent |-> 0,
              rollSpent |-> 0, backed |-> 0, passed |-> -1]

TurnsInit ==
  /\ run = [heading |-> NONE, samples |-> 0, fields |-> 0]
  /\ heading = NONE
  /\ roll = NoRoll
  /\ walled = FALSE
  /\ latest = FirstLatest
  /\ past = FirstPast

Top == IF roll.to # NONE THEN roll.to ELSE heading

(* The roll's age once this sample is counted. *)
Age == UpTo(TURN_ROLL, roll.age + 1)
Kept == Age >= TURN_ROLL

(* sweep.walled once this sample's wall, w, is taken in *)
Touched(w) == walled \/ w
-----------------------------------------------------------------------------
(* What a settled turn comes to: a wall or a call leaves it nothing, ground
   under it pays it, and it is owed otherwise.  turn_to counts it. *)
Numbered(verdict, owed, paid) ==
  [seq |-> (latest.seq + 1) % TURNS_WRAP, verdict |-> verdict,
   owed |-> owed, paid |-> paid]

SettledPaidEarly(to, fields, wall) ==                               \* mutant
  IF wall THEN {Numbered("wall", NONE, FALSE)}
  ELSE {Numbered("guessed", NONE, FALSE),
        IF fields >= TURN_FIELDS THEN Numbered("paid", to, TRUE)
        ELSE Numbered("owed", to, FALSE)}

Settled(to, fields, wall) ==
  IF wall THEN {Numbered("wall", NONE, FALSE)}
  ELSE {Numbered("guessed", NONE, FALSE),
        IF fields >= TURN_FIELDS THEN Numbered("paid", NONE, TRUE)
        ELSE Numbered("owed", to, FALSE)}

ReachedAgain(turn) ==                                               \* mutant
  IF /\ turn.owed # NONE /\ turn.owed = run'.heading
     /\ run'.fields >= TURN_FIELDS
  THEN [turn EXCEPT !.paid = TRUE, !.verdict = IF @ = "owed" THEN "paid" ELSE @]
  ELSE turn

(* The end of count_sample: an owed turn is paid in the run of its heading
   that reaches new ground. *)
Reached(turn) ==
  IF /\ turn.owed # NONE /\ turn.owed = run'.heading
     /\ run'.fields >= TURN_FIELDS
  THEN [seq |-> turn.seq, owed |-> NONE, paid |-> TRUE,
        verdict |-> IF turn.verdict = "owed" THEN "paid" ELSE turn.verdict]
  ELSE turn

(* The latest turn as it was, in a sample that has paid nothing yet *)
Unsettled == [seq |-> latest.seq, verdict |-> latest.verdict,
              owed |-> latest.owed, paid |-> FALSE]

RollFromAged(h, wall) ==                                            \* mutant
  [to |-> h, age |-> roll.age, fields |-> run'.fields, walled |-> wall]

(* roll_begin, after the fields the roll before it may have left walled *)
RollFrom(h, wall) ==
  [to |-> h, age |-> 0, fields |-> run'.fields, walled |-> wall]
-----------------------------------------------------------------------------
(* The ways one moving sample can be counted, h its heading and w its wall *)

Turning(h) == h # Top /\ run'.samples >= TURN_SAMPLES

KeepUncleared(h, w) ==                                              \* mutant
  /\ roll.to # NONE /\ h = roll.to /\ Kept
  /\ \E turn \in Settled(roll.to, run'.fields, roll.walled \/ Touched(w)) :
       latest' = Reached(turn)
  /\ heading' = roll.to /\ walled' = FALSE
  /\ UNCHANGED roll

(* Held long enough, and still held: the roll is settled. *)
Keep(h, w) ==
  /\ roll.to # NONE /\ h = roll.to /\ Kept
  /\ \E turn \in Settled(roll.to, run'.fields, roll.walled \/ Touched(w)) :
       latest' = Reached(turn)
  /\ heading' = roll.to /\ roll' = NoRoll /\ walled' = FALSE

CarriedRoll(h) ==
  IF roll.to = NONE THEN roll
  ELSE [to |-> roll.to, age |-> Age, walled |-> roll.walled,
        fields |-> IF h = roll.to THEN run'.fields ELSE roll.fields]

(* Too short a run, or the heading there was, or the same way across the
   line between two: nothing begins. *)
Carry(h, w) ==
  /\ ~(roll.to # NONE /\ h = roll.to /\ Kept)
  /\ Turning(h) => Top # NONE /\ MayPointAlike(Top, h)
  /\ roll' = CarriedRoll(h)
  /\ latest' = Reached(Unsettled)
  /\ walled' = Touched(w)
  /\ UNCHANGED heading

StartsNowhere(h, w) ==
  /\ Turning(h) /\ Top = NONE
  /\ heading' = h /\ walled' = FALSE
  /\ latest' = Reached(Unsettled)
  /\ UNCHANGED roll

BeginTurn(h, w) ==
  /\ Turning(h) /\ heading # NONE /\ roll.to = NONE
  /\ roll' = RollFrom(h, Touched(w)) /\ walled' = FALSE
  /\ latest' = Reached(Unsettled)
  /\ UNCHANGED heading

Rolling(h) ==
  LET sense == Sense(TurnOf(roll.to, h)) IN
  Sense(TurnOf(heading, roll.to)) = sense /\ sense # 2 /\ ~Kept

RollOnForgets(h, w) ==                                              \* mutant
  /\ Turning(h) /\ roll.to # NONE /\ Rolling(h)
  /\ roll' = RollFrom(h, Touched(w))
  /\ walled' = FALSE
  /\ latest' = Reached(Unsettled)
  /\ UNCHANGED heading

(* Round the same way before it was settled: one turn still.  A roll that
   came round to the heading before it would be none. *)
RollOn(h, w) ==
  /\ Turning(h) /\ roll.to # NONE /\ Rolling(h)
  /\ roll' = IF h = heading THEN NoRoll
             ELSE RollFrom(h, roll.walled \/ Touched(w))
  /\ walled' = FALSE
  /\ latest' = Reached(Unsettled)
  /\ UNCHANGED heading

(* Kept long enough before the hand went on: settled, and the next begins.
   A wall touched since it was seen made the next one. *)
Leave(h, w) ==
  /\ Turning(h) /\ roll.to # NONE /\ Kept
  /\ \E turn \in Settled(roll.to, roll.fields, roll.walled) :
       latest' = Reached(turn)
  /\ heading' = roll.to
  /\ roll' = RollFrom(h, Touched(w)) /\ walled' = FALSE

FlickKeepsDebt(h, w) ==                                             \* mutant
  /\ Turning(h) /\ roll.to # NONE /\ ~Kept /\ ~Rolling(h)
  /\ latest' = Reached(Numbered("flick", latest.owed, FALSE))
  /\ heading' = roll.to
  /\ roll' = RollFrom(h, Touched(w)) /\ walled' = FALSE

(* Left before it was settled, and not round the same way: a flick. *)
Flick(h, w) ==
  /\ Turning(h) /\ roll.to # NONE /\ ~Kept /\ ~Rolling(h)
  /\ latest' = Reached(Numbered("flick", NONE, FALSE))
  /\ heading' = roll.to
  /\ roll' = RollFrom(h, Touched(w)) /\ walled' = FALSE
-----------------------------------------------------------------------------
RunOn(h, fresh) ==
  LET samples == IF run.heading = h THEN run.samples ELSE 0
      fields == IF run.heading = h THEN run.fields ELSE 0
  IN [heading |-> h, samples |-> UpTo(TURN_SAMPLES, samples + 1),
      fields |-> IF fresh THEN UpTo(TURN_FIELDS, fields + 1) ELSE fields]

(* The history: which ground a payment rests on, and which wall a turn paid. *)
LeftPays(h) == latest'.paid /\ roll.to # NONE /\ heading' = roll.to /\ h # roll.to

Spent(h) ==
  LET before == IF run.heading = h THEN past.spent ELSE 0 IN
  IF latest'.paid /\ ~LeftPays(h) THEN before + 1 ELSE before

Due(w) == IF w /\ past.passed = -1 THEN 0 ELSE past.passed

Passed(w) ==
  CASE heading = NONE /\ heading' # NONE -> -1
    [] latest'.seq # latest.seq /\ latest'.verdict \in {"wall", "flick"} -> -1
    [] latest'.seq # latest.seq /\ latest'.verdict \in {"paid", "owed"}
       /\ Due(w) >= 0 -> Due(w) + 1
    [] OTHER -> Due(w)

SinceLast(paid) == IF paid THEN 0 ELSE UpTo(TURN_ROLL, past.last + 1)
SinceBefore(paid) == UpTo(TURN_ROLL, (IF paid THEN past.last ELSE past.before) + 1)

Remember(h, w) ==
  past' = [last |-> SinceLast(latest'.paid),
           before |-> SinceBefore(latest'.paid),
           spent |-> Spent(h),
           rollSpent |-> IF h = roll'.to THEN Spent(h) ELSE past.rollSpent,
           backed |-> IF LeftPays(h) THEN past.rollSpent + 1
                      ELSE IF latest'.paid THEN Spent(h) ELSE past.backed,
           passed |-> Passed(w)]

Sample(h, fresh, w) ==
  /\ run' = RunOn(h, fresh)
  /\ \/ Keep(h, w) \/ Carry(h, w) \/ StartsNowhere(h, w) \/ BeginTurn(h, w)
     \/ RollOn(h, w) \/ Leave(h, w) \/ Flick(h, w)
  /\ Remember(h, w)

(* The source at rest, or off the field: only the wall and the clock count. *)
Rest(w) ==
  /\ walled' = Touched(w)
  /\ roll' = IF roll.to = NONE THEN roll
             ELSE [to |-> roll.to, age |-> Age, walled |-> roll.walled,
                   fields |-> roll.fields]
  /\ latest' = Unsettled
  /\ past' = [last |-> SinceLast(FALSE), before |-> SinceBefore(FALSE),
              spent |-> past.spent, rollSpent |-> past.rollSpent,
              backed |-> past.backed, passed |-> Due(w)]
  /\ UNCHANGED <<run, heading>>

(* sweep_reset *)
ResetTurns ==
  /\ run' = [heading |-> NONE, samples |-> 0, fields |-> 0]
  /\ heading' = NONE /\ roll' = NoRoll /\ walled' = FALSE
  /\ latest' = FirstLatest /\ past' = FirstPast

TurnsNext ==
  \/ \E h \in Moves, fresh, w \in BOOLEAN : Sample(h, fresh, w)
  \/ \E w \in BOOLEAN : Rest(w)
  \/ ResetTurns

TurnsSpec == TurnsInit /\ [][TurnsNext]_turnVars
-----------------------------------------------------------------------------
(* A roll is a turn: it never stands on the heading it would turn from, nor
   before any heading, whatever rolls, flicks and settlements led to it.  So
   turn_to never meets a turn of nothing. *)
RollTurns == roll.to # NONE => heading # NONE /\ roll.to # heading

(* What is told of the latest turn is what the counter goes by: the verdict
   says owed exactly while its sixteenths wait, and they wait for the ground
   under the heading of that turn and no other. *)
OwedAsTold ==
  /\ latest.verdict = "owed" <=> latest.owed # NONE
  /\ latest.owed # NONE => latest.owed = heading

(* A hand's pace: of any three payments the first and the last lie more than
   TURN_ROLL samples apart, settled at once, after the hand went on, or paid
   late on new ground. *)
HandsPace == [][latest'.paid /\ run'.heading # NONE => past.before >= TURN_ROLL]_turnVars

(* The ground of one run is good for two payments at most: the turn owed for
   its heading and the turn that led into it. *)
GroundBacksTwo == past.backed <= 2

(* A wall costs a turn: at most the one turn already under way earns between
   a touch of the wall and the turn that is refused for it. *)
WallCostsATurn == past.passed <= 1

Account == INSTANCE TurnAccount
  WITH seq <- latest.seq,
       fate <- IF latest.verdict \in {"none", "paid", "owed"}
               THEN latest.verdict ELSE "unpaid",
       paid <- latest.paid

(* The turns keep the account that entropy_get_last_turn shows: no turn is
   paid twice, and none after it was flicked, called or made by a wall. *)
ImplementsAccount == Account!AccountSpec
=============================================================================
