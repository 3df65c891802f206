---------------------------- MODULE Sweep_proofs ----------------------------
(***************************************************************************)
(* Proofs about what a sweep counts.                                       *)
(*                                                                         *)
(* Its turns, for every set of headings, every length of run, ground and   *)
(* roll, and every wrap of the count of turns.  Standing is what every     *)
(* other proof about them rests on: types, that a roll is a turn, and that *)
(* the debt told is the debt counted.  On it stand three inductive         *)
(* invariants that do not need each other, Paced for the pace of payments, *)
(* Backed for the ground under them and Charged for the walls, and the     *)
(* refinement of TurnAccount.                                              *)
(*                                                                         *)
(* Its presses, for every set of buttons, every worth of a press, every    *)
(* gap and every budget.                                                   *)
(*                                                                         *)
(* The price of either, for every number of turns, every record and every  *)
(* cap.                                                                    *)
(*                                                                         *)
(* The guesses, for every ring and every pattern of up to four turns.      *)
(***************************************************************************)
EXTENDS Turns, Presses, Prices, Guesses, SequenceTheorems, NaturalLemmas

Where == Moves \cup {NONE}
Runs == [heading : Where, samples : 0..TURN_SAMPLES, fields : 0..TURN_FIELDS]
Rolls == [to : Where, age : 0..TURN_ROLL, fields : 0..TURN_FIELDS, walled : BOOLEAN]
Latest == [seq : 0..(TURNS_WRAP - 1), verdict : Verdicts, owed : Where, paid : BOOLEAN]

(* NONE stands for no heading and is none of them. *)
LEMMA NoneIsNoMove == NONE \notin Moves /\ NONE \in Where
BY MovesAssumption, SMT DEF NONE, Where

(* A sample leaves a run of its heading, with no less ground than it had. *)
LEMMA RunTyped ==
  ASSUME TurnsTypeOK, NEW h \in Moves, NEW fresh \in BOOLEAN, run' = RunOn(h, fresh)
  PROVE  /\ run' \in Runs
         /\ run'.heading = h
         /\ run.heading = h => run'.fields >= run.fields
<1> DEFINE samples == IF run.heading = h THEN run.samples ELSE 0
           fields == IF run.heading = h THEN run.fields ELSE 0
<1>1. /\ samples \in 0..TURN_SAMPLES /\ fields \in 0..TURN_FIELDS
      /\ run.heading = h => fields = run.fields
  BY RulesAssumption, SMT DEF TurnsTypeOK
<1>2. run' = [heading |-> h, samples |-> UpTo(TURN_SAMPLES, samples + 1),
              fields |-> IF fresh THEN UpTo(TURN_FIELDS, fields + 1) ELSE fields]
  BY DEF RunOn
<1> HIDE DEF samples, fields
<1>3. /\ UpTo(TURN_SAMPLES, samples + 1) \in 0..TURN_SAMPLES
      /\ UpTo(TURN_FIELDS, fields + 1) \in 0..TURN_FIELDS
      /\ UpTo(TURN_FIELDS, fields + 1) >= fields
  BY <1>1, RulesAssumption, SMT DEF UpTo
<1>4. h \in Where
  BY DEF Where
<1>5. CASE fresh
  BY <1>1, <1>2, <1>3, <1>4, <1>5, SMT DEF Runs
<1>6. CASE ~fresh
  BY <1>1, <1>2, <1>3, <1>4, <1>6, SMT DEF Runs
<1>7. QED
  BY <1>5, <1>6

(* Whatever a sample does to the roll leaves one of its type. *)
LEMMA RollTyped ==
  ASSUME TurnsTypeOK, NEW h \in Moves, run' \in Runs
  PROVE  /\ \A b \in BOOLEAN : RollFrom(h, b) \in Rolls
         /\ CarriedRoll(h) \in Rolls
         /\ Age \in 0..TURN_ROLL
         /\ NoRoll \in Rolls
<1>1. Age \in 0..TURN_ROLL
  BY RulesAssumption, SMT DEF TurnsTypeOK, Age, UpTo
<1>2. \A b \in BOOLEAN : RollFrom(h, b) \in Rolls
  BY RulesAssumption, SMT DEF RollFrom, Rolls, Runs, Where
<1>3. CarriedRoll(h) \in Rolls
  BY <1>1, SMT DEF CarriedRoll, Rolls, Runs, Where, TurnsTypeOK
<1>4. NoRoll \in Rolls
  BY RulesAssumption, SMT DEF NoRoll, Rolls, Where
<1>5. QED
  BY <1>1, <1>2, <1>3, <1>4

(* Whatever a sample tells of the latest turn has its type. *)
LEMMA LatestTyped ==
  ASSUME TurnsTypeOK
  PROVE  /\ \A to \in Where : \A fields, wall : Settled(to, fields, wall) \subseteq Latest
         /\ Numbered("flick", NONE, FALSE) \in Latest
         /\ Unsettled \in Latest
         /\ \A turn \in Latest : Reached(turn) \in Latest
<1>1. (latest.seq + 1) % TURNS_WRAP \in 0..(TURNS_WRAP - 1)
  BY RulesAssumption, SMT DEF TurnsTypeOK
<1>2. \A v \in Verdicts, o \in Where, p \in BOOLEAN : Numbered(v, o, p) \in Latest
  BY <1>1, SMT DEF Numbered, Latest
<1>3. \A to \in Where : /\ Numbered("wall", NONE, FALSE) \in Latest
                        /\ Numbered("guessed", NONE, FALSE) \in Latest
                        /\ Numbered("paid", NONE, TRUE) \in Latest
                        /\ Numbered("owed", to, FALSE) \in Latest
                        /\ Numbered("flick", NONE, FALSE) \in Latest
  BY <1>2, NoneIsNoMove DEF Verdicts
<1>4. \A to \in Where : \A fields, wall : Settled(to, fields, wall) \subseteq Latest
  BY <1>3 DEF Settled
<1>5. Unsettled \in Latest
  BY SMT DEF TurnsTypeOK, Unsettled, Latest, Where
<1>6. \A turn \in Latest : Reached(turn) \in Latest
  BY NoneIsNoMove, SMT DEF Reached, Latest, Verdicts
<1>7. QED
  BY <1>3, <1>4, <1>5, <1>6, NoneIsNoMove

Counted(h, w) ==
  \/ Keep(h, w) \/ Carry(h, w) \/ StartsNowhere(h, w) \/ BeginTurn(h, w)
  \/ RollOn(h, w) \/ Leave(h, w) \/ Flick(h, w)

(* Every way to count a moving sample keeps the types of what it counts. *)
LEMMA CountedTyped ==
  ASSUME TurnsTypeOK, NEW h \in Moves, NEW w \in BOOLEAN, run' \in Runs,
         Counted(h, w)
  PROVE  heading' \in Where /\ roll' \in Rolls /\ walled' \in BOOLEAN /\ latest' \in Latest
<1>1. /\ heading \in Where /\ roll \in Rolls /\ walled \in BOOLEAN /\ latest \in Latest
      /\ roll.to \in Where /\ roll.fields \in 0..TURN_FIELDS /\ roll.walled \in BOOLEAN
      /\ h \in Where
  BY SMT DEF TurnsTypeOK, Where, Rolls, Latest
<1>2. Touched(w) \in BOOLEAN /\ (roll.walled \/ Touched(w)) \in BOOLEAN
  BY <1>1 DEF Touched
<1>3. \A to \in Where : \A fields, wall :
        \A turn \in Settled(to, fields, wall) :
        Reached(turn) \in Latest
  BY LatestTyped
<1>4. Reached(Unsettled) \in Latest /\ Reached(Numbered("flick", NONE, FALSE)) \in Latest
  BY LatestTyped
<1>5. CASE Keep(h, w)
  BY <1>1, <1>3, <1>5, RollTyped DEF Keep
<1>6. CASE Carry(h, w)
  BY <1>1, <1>2, <1>4, <1>6, RollTyped DEF Carry
<1>7. CASE StartsNowhere(h, w)
  BY <1>1, <1>4, <1>7 DEF StartsNowhere
<1>8. CASE BeginTurn(h, w)
  BY <1>1, <1>2, <1>4, <1>8, RollTyped DEF BeginTurn
<1>9. CASE RollOn(h, w)
  BY <1>1, <1>2, <1>4, <1>9, RollTyped DEF RollOn
<1>10. CASE Leave(h, w)
  BY <1>1, <1>2, <1>3, <1>10, RollTyped DEF Leave
<1>11. CASE Flick(h, w)
  BY <1>1, <1>2, <1>4, <1>11, RollTyped DEF Flick
<1>12. QED
  BY <1>5, <1>6, <1>7, <1>8, <1>9, <1>10, <1>11 DEF Counted

Pasts == [last : 0..TURN_ROLL, before : 0..TURN_ROLL, spent : Nat,
          rollSpent : Nat, backed : Nat, passed : Int]

(* The samples since the payments are counted up to their bound. *)
LEMMA SinceTyped ==
  ASSUME TurnsTypeOK
  PROVE  \A paid : SinceLast(paid) \in 0..TURN_ROLL /\ SinceBefore(paid) \in 0..TURN_ROLL
<1> SUFFICES ASSUME NEW paid
             PROVE  SinceLast(paid) \in 0..TURN_ROLL /\ SinceBefore(paid) \in 0..TURN_ROLL
  OBVIOUS
<1>1. past.last \in 0..TURN_ROLL /\ past.before \in 0..TURN_ROLL
  BY SMT DEF TurnsTypeOK
<1>2. CASE paid
  BY <1>1, <1>2, RulesAssumption, SMT DEF SinceLast, SinceBefore, UpTo
<1>3. CASE ~paid
  BY <1>1, <1>3, RulesAssumption, SMT DEF SinceLast, SinceBefore, UpTo
<1>4. QED
  BY <1>2, <1>3

(* The turns since a wall are counted by a number. *)
LEMMA DueTyped ==
  ASSUME TurnsTypeOK
  PROVE  \A w \in BOOLEAN : Due(w) \in Int
BY SMT DEF TurnsTypeOK, Due

(* The history of a sample is one as the type says. *)
LEMMA RememberTyped ==
  ASSUME TurnsTypeOK, NEW h \in Moves, NEW w \in BOOLEAN, Remember(h, w)
  PROVE  past' \in Pasts
<1>1. past.spent \in Nat /\ past.rollSpent \in Nat /\ past.backed \in Nat
  BY SMT DEF TurnsTypeOK
<1>2. Spent(h) \in Nat
  BY <1>1, SMT DEF Spent
<1>3. Passed(w) \in Int
  BY DueTyped, SMT DEF Passed
<1>4. /\ SinceLast(latest'.paid) \in 0..TURN_ROLL
      /\ SinceBefore(latest'.paid) \in 0..TURN_ROLL
  BY SinceTyped
<1>5. (IF h = roll'.to THEN Spent(h) ELSE past.rollSpent) \in Nat
  BY <1>1, <1>2
<1>6. (IF LeftPays(h) THEN past.rollSpent + 1
       ELSE IF latest'.paid THEN Spent(h) ELSE past.backed) \in Nat
  BY <1>1, <1>2, SMT
<1>7. QED
  BY <1>2, <1>3, <1>4, <1>5, <1>6 DEF Remember, Pasts

(* A sample at rest keeps every type. *)
LEMMA RestTyped ==
  ASSUME TurnsTypeOK, NEW w \in BOOLEAN, Rest(w)
  PROVE  TurnsTypeOK'
<1>1. roll' \in Rolls
  <2>1. Age \in 0..TURN_ROLL
    BY RulesAssumption, SMT DEF TurnsTypeOK, Age, UpTo
  <2>2. CASE roll.to = NONE
    BY <2>2, SMT DEF Rest, TurnsTypeOK, Rolls, Where
  <2>3. CASE roll.to # NONE
    BY <2>1, <2>3, SMT DEF Rest, TurnsTypeOK, Rolls, Where
  <2>4. QED
    BY <2>2, <2>3
<1>2. latest' \in Latest
  BY LatestTyped DEF Rest
<1>3. past' \in Pasts
  <2>1. past.spent \in Nat /\ past.rollSpent \in Nat /\ past.backed \in Nat
    BY SMT DEF TurnsTypeOK
  <2>2. QED
    BY <2>1, SinceTyped, DueTyped DEF Rest, Pasts
<1>4. walled' \in BOOLEAN
  BY DEF Rest, TurnsTypeOK, Touched
<1>5. UNCHANGED <<run, heading>>
  BY DEF Rest
<1>6. QED
  BY <1>1, <1>2, <1>3, <1>4, <1>5
  DEF TurnsTypeOK, Rolls, Latest, Pasts, Where

(* What sweep_reset leaves, and what a sweep begins with, has its type. *)
LEMMA FreshTyped ==
  /\ [heading |-> NONE, samples |-> 0, fields |-> 0] \in Runs
  /\ NONE \in Where /\ NoRoll \in Rolls /\ FirstLatest \in Latest
  /\ FirstPast \in Pasts
<1>1. 0 \in 0..TURN_SAMPLES /\ 0 \in 0..TURN_FIELDS /\ 0 \in 0..TURN_ROLL
      /\ TURN_ROLL \in 0..TURN_ROLL /\ 0 \in 0..(TURNS_WRAP - 1)
  BY RulesAssumption, SMT
<1>2. QED
  BY <1>1, NoneIsNoMove, SMT
  DEF Runs, NoRoll, Rolls, FirstLatest, Latest, Verdicts, FirstPast, Pasts

(* Every variable keeps its type in every behaviour of a sweep's turns. *)
THEOREM TurnsTyped == TurnsSpec => []TurnsTypeOK
<1>1. TurnsInit => TurnsTypeOK
  BY FreshTyped DEF TurnsInit, TurnsTypeOK, Runs, Where, Rolls, Latest, Pasts
<1>2. TurnsTypeOK /\ [TurnsNext]_turnVars => TurnsTypeOK'
  <2> SUFFICES ASSUME TurnsTypeOK, [TurnsNext]_turnVars
               PROVE  TurnsTypeOK'
    OBVIOUS
  <2>1. ASSUME NEW h \in Moves, NEW fresh \in BOOLEAN, NEW w \in BOOLEAN,
               Sample(h, fresh, w)
        PROVE  TurnsTypeOK'
    <3>1. run' \in Runs
      BY <2>1, RunTyped DEF Sample
    <3>2. heading' \in Where /\ roll' \in Rolls /\ walled' \in BOOLEAN /\ latest' \in Latest
      BY <2>1, <3>1, CountedTyped DEF Sample, Counted
    <3>3. past' \in Pasts
      BY <2>1, RememberTyped DEF Sample
    <3>4. QED
      BY <3>1, <3>2, <3>3 DEF TurnsTypeOK, Runs, Where, Rolls, Latest, Pasts
  <2>2. ASSUME NEW w \in BOOLEAN, Rest(w)
        PROVE  TurnsTypeOK'
    BY <2>2, RestTyped
  <2>3. CASE ResetTurns
    BY <2>3, FreshTyped DEF ResetTurns, TurnsTypeOK, Runs, Where, Rolls, Latest, Pasts
  <2>4. CASE UNCHANGED turnVars
    BY <2>4 DEF turnVars, TurnsTypeOK
  <2>5. QED
    BY <2>1, <2>2, <2>3, <2>4 DEF TurnsNext
<1>3. QED
  BY <1>1, <1>2, PTL DEF TurnsSpec
-----------------------------------------------------------------------------
(* What a sample can leave of the latest turn. *)

Ripe(heading_) == heading_ # NONE /\ heading_ = run'.heading /\ run'.fields >= TURN_FIELDS

Lost(turn) == turn.owed = NONE /\ turn.paid = FALSE
Paid(turn) == turn.verdict = "paid" /\ turn.owed = NONE /\ turn.paid = TRUE
Owed(turn, to) == turn.verdict = "owed" /\ turn.owed = to /\ turn.paid = FALSE

(* A turn that is settled is lost to a wall or a call, paid on ground, or
   owed to the heading it was made for. *)
LEMMA SettledTells ==
  ASSUME TurnsTypeOK, NEW to \in Where, NEW fields, NEW wall,
         NEW turn \in Settled(to, fields, wall)
  PROVE  /\ Reached(turn).seq = (latest.seq + 1) % TURNS_WRAP
         /\ \/ wall /\ Lost(Reached(turn)) /\ Reached(turn).verdict = "wall"
            \/ ~wall /\ Lost(Reached(turn)) /\ Reached(turn).verdict = "guessed"
            \/ ~wall /\ Paid(Reached(turn)) /\ (fields >= TURN_FIELDS \/ Ripe(to))
            \/ ~wall /\ Owed(Reached(turn), to) /\ ~Ripe(to)
<1>1. CASE turn = Numbered("wall", NONE, FALSE) /\ wall
  BY <1>1 DEF Numbered, Reached, Lost
<1>2. CASE turn = Numbered("guessed", NONE, FALSE) /\ ~wall
  BY <1>2 DEF Numbered, Reached, Lost
<1>3. CASE turn = Numbered("paid", NONE, TRUE) /\ ~wall /\ fields >= TURN_FIELDS
  BY <1>3 DEF Numbered, Reached, Paid
<1>4. CASE turn = Numbered("owed", to, FALSE) /\ ~wall
  <2>1. CASE Ripe(to)
    BY <1>4, <2>1 DEF Numbered, Reached, Paid, Ripe
  <2>2. CASE ~Ripe(to)
    BY <1>4, <2>2 DEF Numbered, Reached, Owed, Ripe
  <2>3. QED
    BY <2>1, <2>2
<1>5. QED
  BY <1>1, <1>2, <1>3, <1>4 DEF Settled

(* A sample that settles nothing can only pay what was owed. *)
LEMMA UnsettledTells ==
  ASSUME TurnsTypeOK
  PROVE  /\ Reached(Unsettled).seq = latest.seq
         /\ \/ /\ Ripe(latest.owed) /\ Reached(Unsettled).paid = TRUE
               /\ Reached(Unsettled).owed = NONE
               /\ latest.verdict = "owed" => Reached(Unsettled).verdict = "paid"
            \/ /\ ~Ripe(latest.owed) /\ Reached(Unsettled).paid = FALSE
               /\ Reached(Unsettled).owed = latest.owed
               /\ Reached(Unsettled).verdict = latest.verdict
<1>1. CASE Ripe(latest.owed)
  BY <1>1 DEF Unsettled, Reached, Ripe
<1>2. CASE ~Ripe(latest.owed)
  BY <1>2 DEF Unsettled, Reached, Ripe
<1>3. QED
  BY <1>1, <1>2

(* A flick is lost, and what was owed before it with it. *)
LEMMA FlickTells ==
  /\ Reached(Numbered("flick", NONE, FALSE)).seq = (latest.seq + 1) % TURNS_WRAP
  /\ Reached(Numbered("flick", NONE, FALSE)).verdict = "flick"
  /\ Lost(Reached(Numbered("flick", NONE, FALSE)))
BY DEF Numbered, Reached, Lost

(* The count of turns moves on with every turn that is settled. *)
LEMMA NextSeq ==
  ASSUME TurnsTypeOK
  PROVE  (latest.seq + 1) % TURNS_WRAP # latest.seq
<1>1. latest.seq \in 0..(TURNS_WRAP - 1)
  BY SMT DEF TurnsTypeOK
<1>2. QED
  BY <1>1, RulesAssumption, SMT

(* The eighths between two headings and back again turn opposite ways, so a
   roll that goes on the same way never comes round to where it started. *)
LEMMA RollsNeverReturn ==
  ASSUME NEW from \in Moves, NEW to \in Moves,
         Sense(TurnOf(from, to)) = Sense(TurnOf(to, from))
  PROVE  Sense(TurnOf(from, to)) = 2
<1>1. from \in 0..7 /\ to \in 0..7
  BY MovesAssumption
<1>2. CASE from = to
  BY <1>1, <1>2, SMT DEF TurnOf, Sense
<1>3. CASE from # to
  <2>1. TurnOf(from, to) \in 1..7 /\ TurnOf(to, from) = 8 - TurnOf(from, to)
    BY <1>1, <1>3, SMT DEF TurnOf
  <2>2. QED
    BY <2>1, SMT DEF Sense
<1>4. QED
  BY <1>2, <1>3
-----------------------------------------------------------------------------
(* The turn being made, and the turn told of. *)

Standing == TurnsTypeOK /\ RollTurns /\ OwedAsTold

(* The types again, by field. *)
LEMMA StandingTypes ==
  ASSUME TurnsTypeOK
  PROVE  /\ heading \in Where /\ roll \in Rolls /\ latest \in Latest
         /\ roll.to \in Where /\ latest.owed \in Where /\ run.heading \in Where
BY SMT DEF TurnsTypeOK, Where, Rolls, Latest

(* A roll that is let go on is held on, and never on the heading before. *)
LEMMA RollOnHolds ==
  ASSUME Standing, NEW h \in Moves, NEW w \in BOOLEAN, RollOn(h, w)
  PROVE  /\ h # heading /\ heading # NONE /\ roll.to # NONE
         /\ roll' = RollFrom(h, roll.walled \/ Touched(w))
<1>1. roll.to # NONE /\ heading # NONE
  BY DEF Standing, RollTurns, RollOn
<1>2. roll.to \in Moves /\ heading \in Moves
  BY <1>1, StandingTypes DEF Standing, Where
<1>3. h # heading
  BY <1>2, RollsNeverReturn DEF RollOn, Rolling
<1>4. QED
  BY <1>1, <1>3 DEF RollOn

(* Every way to count a moving sample leaves a roll that is a turn. *)
LEMMA RollKept ==
  ASSUME NEW h \in Moves, NEW w \in BOOLEAN, Counted(h, w), Standing
  PROVE  RollTurns'
<1>1. h # NONE
  BY NoneIsNoMove
<1>2. CASE Keep(h, w)
  BY <1>2 DEF Keep, NoRoll, RollTurns
<1>3. CASE Carry(h, w)
  BY <1>3 DEF Carry, CarriedRoll, Standing, RollTurns
<1>4. CASE StartsNowhere(h, w)
  BY <1>4 DEF StartsNowhere, Top, RollTurns
<1>5. CASE BeginTurn(h, w)
  BY <1>5 DEF BeginTurn, Turning, Top, RollFrom, RollTurns
<1>6. CASE RollOn(h, w)
  BY <1>6, RollOnHolds DEF RollFrom, RollOn, RollTurns
<1>7. CASE Leave(h, w)
  BY <1>7 DEF Leave, Turning, Top, RollFrom, RollTurns
<1>8. CASE Flick(h, w)
  BY <1>8 DEF Flick, Turning, Top, RollFrom, RollTurns
<1>9. QED
  BY <1>2, <1>3, <1>4, <1>5, <1>6, <1>7, <1>8 DEF Counted

(* Every way to count a moving sample tells of a debt exactly while it waits. *)
LEMMA TellingKept ==
  ASSUME NEW h \in Moves, NEW w \in BOOLEAN, Counted(h, w), Standing
  PROVE  OwedAsTold'
<1> DEFINE quiet == Reached(Unsettled)
<1>1. /\ quiet.verdict = "owed" <=> quiet.owed # NONE
      /\ quiet.owed # NONE => quiet.owed = heading
  BY UnsettledTells DEF Standing, OwedAsTold, Ripe
<1>2. \A fields, wall : \A turn \in Settled(roll.to, fields, wall) :
        roll.to # NONE =>
          /\ Reached(turn).verdict = "owed" <=> Reached(turn).owed # NONE
          /\ Reached(turn).owed # NONE => Reached(turn).owed = roll.to
  <2> SUFFICES ASSUME NEW fields, NEW wall, NEW turn \in Settled(roll.to, fields, wall),
                      roll.to # NONE
               PROVE  /\ Reached(turn).verdict = "owed" <=> Reached(turn).owed # NONE
                      /\ Reached(turn).owed # NONE => Reached(turn).owed = roll.to
    OBVIOUS
  <2>1. TurnsTypeOK /\ roll.to \in Where
    BY StandingTypes DEF Standing
  <2>2. \/ Lost(Reached(turn)) /\ Reached(turn).verdict = "wall"
        \/ Lost(Reached(turn)) /\ Reached(turn).verdict = "guessed"
        \/ Paid(Reached(turn))
        \/ Owed(Reached(turn), roll.to)
    BY <2>1, SettledTells
  <2>3. QED
    BY <2>2 DEF Lost, Paid, Owed
<1> HIDE DEF quiet
<1>3. CASE Keep(h, w)
  BY <1>2, <1>3 DEF Keep, OwedAsTold
<1>4. CASE Carry(h, w)
  BY <1>1, <1>4 DEF Carry, OwedAsTold, quiet
<1>5. CASE StartsNowhere(h, w)
  <2>1. heading = NONE
    BY <1>5 DEF StartsNowhere, Top
  <2>2. quiet.owed = NONE
    BY <1>1, <2>1
  <2>3. QED
    BY <1>1, <1>5, <2>2 DEF StartsNowhere, OwedAsTold, quiet
<1>6. CASE BeginTurn(h, w)
  BY <1>1, <1>6 DEF BeginTurn, OwedAsTold, quiet
<1>7. CASE RollOn(h, w)
  BY <1>1, <1>7 DEF RollOn, OwedAsTold, quiet
<1>8. CASE Leave(h, w)
  BY <1>2, <1>8 DEF Leave, OwedAsTold
<1>9. CASE Flick(h, w)
  BY <1>9, FlickTells DEF Flick, OwedAsTold, Lost
<1>10. QED
  BY <1>3, <1>4, <1>5, <1>6, <1>7, <1>8, <1>9 DEF Counted

(* A sweep begins with no roll and nothing owed. *)
LEMMA StandingInit == TurnsInit => RollTurns /\ OwedAsTold
BY DEF TurnsInit, NoRoll, FirstLatest, RollTurns, OwedAsTold

(* Rest moves neither the roll nor the debt. *)
LEMMA StandingRests ==
  ASSUME NEW w \in BOOLEAN, Rest(w), Standing
  PROVE  RollTurns' /\ OwedAsTold'
<1>1. roll'.to = roll.to /\ heading' = heading
  BY DEF Rest
<1>2. latest'.owed = latest.owed /\ latest'.verdict = latest.verdict
  BY DEF Rest, Unsettled
<1>3. QED
  BY <1>1, <1>2 DEF Standing, RollTurns, OwedAsTold

(* Every step keeps both. *)
LEMMA StandingStep ==
  ASSUME Standing, [TurnsNext]_turnVars
  PROVE  RollTurns' /\ OwedAsTold'
<1>1. ASSUME NEW h \in Moves, NEW fresh \in BOOLEAN, NEW w \in BOOLEAN,
             Sample(h, fresh, w)
      PROVE  RollTurns' /\ OwedAsTold'
  <2>1. Counted(h, w)
    BY <1>1 DEF Sample, Counted
  <2>2. QED
    BY <2>1, RollKept, TellingKept
<1>2. ASSUME NEW w \in BOOLEAN, Rest(w)
      PROVE  RollTurns' /\ OwedAsTold'
  BY <1>2, StandingRests
<1>3. CASE ResetTurns
  BY <1>3 DEF ResetTurns, NoRoll, FirstLatest, RollTurns, OwedAsTold
<1>4. CASE UNCHANGED turnVars
  BY <1>4 DEF turnVars, Standing, RollTurns, OwedAsTold
<1>5. QED
  BY <1>1, <1>2, <1>3, <1>4 DEF TurnsNext

(* Neither the turn being made nor the one told of ever loses its heading:
   both facts rest on each other only through where a settled roll went. *)
THEOREM StandingHolds == TurnsSpec => []Standing
<1>1. TurnsSpec => []TurnsTypeOK
  BY TurnsTyped
<1>2. TurnsInit => RollTurns /\ OwedAsTold
  BY StandingInit
<1>3. TurnsTypeOK /\ (RollTurns /\ OwedAsTold) /\ [TurnsNext]_turnVars
      => (RollTurns /\ OwedAsTold)'
  BY StandingStep DEF Standing
<1>4. QED
  BY <1>1, <1>2, <1>3, PTL DEF TurnsSpec, Standing

(* A roll is always a turn: it heads another way than the one before it. *)
THEOREM RollTurnsHolds == TurnsSpec => []RollTurns
BY StandingHolds, PTL DEF Standing

(* The verdict told is the debt counted, owed to that turn's heading. *)
THEOREM OwedAsToldHolds == TurnsSpec => []OwedAsTold
BY StandingHolds, PTL DEF Standing
-----------------------------------------------------------------------------
(* The account of the latest turn *)

(* What Account sees of the verdict. *)
Fate == IF latest.verdict \in {"none", "paid", "owed"} THEN latest.verdict
        ELSE "unpaid"

(* A turn that is settled opens the next entry of the account. *)
LEMMA SettledAccounts ==
  ASSUME Standing, NEW to \in Where, NEW fields, NEW wall,
         NEW turn \in Settled(to, fields, wall), latest' = Reached(turn)
  PROVE  Account!SettleTurn
<1>1. /\ latest'.seq = (latest.seq + 1) % TURNS_WRAP
      /\ \/ Lost(latest') /\ latest'.verdict = "wall"
         \/ Lost(latest') /\ latest'.verdict = "guessed"
         \/ Paid(latest')
         \/ Owed(latest', to)
  BY SettledTells DEF Standing
<1>2. /\ Fate' \in {"paid", "owed", "unpaid"}
      /\ latest'.paid = (Fate' = "paid")
  BY <1>1 DEF Fate, Lost, Paid, Owed
<1>3. QED
  BY <1>1, <1>2 DEF Account!SettleTurn, Fate

(* A flick opens an entry that is never paid. *)
LEMMA FlickAccounts ==
  ASSUME latest' = Reached(Numbered("flick", NONE, FALSE))
  PROVE  Account!SettleTurn
<1>1. Fate' = "unpaid" /\ latest'.paid = FALSE
  BY FlickTells DEF Fate, Lost
<1>2. QED
  BY <1>1, FlickTells DEF Account!SettleTurn, Fate

(* A sample that settles nothing pays the entry that waits, or passes. *)
LEMMA UnsettledAccounts ==
  ASSUME Standing, latest' = Reached(Unsettled)
  PROVE  Account!ReachGround \/ Account!Pass
<1>1. CASE Ripe(latest.owed)
  <2>1. latest.verdict = "owed"
    BY <1>1 DEF Standing, OwedAsTold, Ripe
  <2>2. /\ latest'.seq = latest.seq /\ latest'.paid = TRUE
        /\ latest'.verdict = "paid"
    BY <1>1, <2>1, UnsettledTells DEF Standing
  <2>3. Account!ReachGround
    BY <2>1, <2>2 DEF Account!ReachGround
  <2>4. QED
    BY <2>3
<1>2. CASE ~Ripe(latest.owed)
  <2>1. /\ latest'.seq = latest.seq /\ latest'.paid = FALSE
        /\ latest'.verdict = latest.verdict
    BY <1>2, UnsettledTells DEF Standing
  <2>2. QED
    BY <2>1 DEF Account!Pass
<1>3. QED
  BY <1>1, <1>2

(* The turns of a sweep implement the account: a fate that is told changes
   only from owed to paid, and the bar moves exactly then. *)
THEOREM AccountImplemented == TurnsSpec => ImplementsAccount
<1>1. TurnsInit => Account!AccountInit
  BY DEF TurnsInit, FirstLatest, Account!AccountInit
<1>2. Standing /\ [TurnsNext]_turnVars => [Account!AccountNext]_(Account!accountVars)
  <2> SUFFICES ASSUME Standing, [TurnsNext]_turnVars
               PROVE  Account!AccountNext \/ UNCHANGED Account!accountVars
    OBVIOUS
  <2>1. ASSUME NEW h \in Moves, NEW fresh \in BOOLEAN, NEW w \in BOOLEAN,
               Sample(h, fresh, w)
        PROVE  Account!AccountNext
    <3>1. roll.to \in Where
      BY StandingTypes DEF Standing
    <3>2. CASE Keep(h, w)
      BY <3>1, <3>2, SettledAccounts DEF Keep, Account!AccountNext
    <3>3. CASE Carry(h, w)
      BY <3>3, UnsettledAccounts DEF Carry, Account!AccountNext
    <3>4. CASE StartsNowhere(h, w)
      BY <3>4, UnsettledAccounts DEF StartsNowhere, Account!AccountNext
    <3>5. CASE BeginTurn(h, w)
      BY <3>5, UnsettledAccounts DEF BeginTurn, Account!AccountNext
    <3>6. CASE RollOn(h, w)
      BY <3>6, UnsettledAccounts DEF RollOn, Account!AccountNext
    <3>7. CASE Leave(h, w)
      BY <3>1, <3>7, SettledAccounts DEF Leave, Account!AccountNext
    <3>8. CASE Flick(h, w)
      BY <3>8, FlickAccounts DEF Flick, Account!AccountNext
    <3>9. QED
      BY <2>1, <3>2, <3>3, <3>4, <3>5, <3>6, <3>7, <3>8 DEF Sample
  <2>2. ASSUME NEW w \in BOOLEAN, Rest(w)
        PROVE  Account!AccountNext
    BY <2>2 DEF Rest, Unsettled, Account!AccountNext, Account!Pass
  <2>3. CASE ResetTurns
    BY <2>3 DEF ResetTurns, FirstLatest, Account!AccountNext, Account!ForgetTurns
  <2>4. CASE UNCHANGED turnVars
    BY <2>4 DEF turnVars, Account!accountVars
  <2>5. QED
    BY <2>1, <2>2, <2>3, <2>4 DEF TurnsNext
<1>3. QED
  BY <1>1, <1>2, StandingHolds, PTL
  DEF TurnsSpec, ImplementsAccount, Account!AccountSpec
-----------------------------------------------------------------------------
(* The pace of payments.  Since is how long ago the last payment must be for
   a roll of this age to be the next to pay: a roll begins after it. *)

Since(age) == UpTo(TURN_ROLL, age + 1)

Paced ==
  /\ past.before >= Since(past.last)
  /\ roll.to # NONE => past.before >= Since(roll.age)
  /\ latest.owed # NONE => past.before >= TURN_ROLL
  /\ latest.owed # NONE /\ roll.to # NONE => past.last >= Since(roll.age)

(* The ages and the pace are counted up to TURN_ROLL. *)
LEMMA PacedTypes ==
  ASSUME TurnsTypeOK
  PROVE  /\ past.last \in 0..TURN_ROLL /\ past.before \in 0..TURN_ROLL
         /\ roll.age \in 0..TURN_ROLL /\ TURN_ROLL \in Nat \ {0}
BY RulesAssumption, SMT DEF TurnsTypeOK

(* Counting up to a bound keeps the order of two counts. *)
LEMMA UpToOrders ==
  ASSUME NEW R \in Nat \ {0}, NEW m \in 0..R, NEW n \in 0..R
  PROVE  /\ UpTo(R, m + 1) \in 0..R /\ UpTo(R, 0 + 1) = 1 /\ UpTo(R, m + 1) >= 1
         /\ m >= n => UpTo(R, m + 1) >= UpTo(R, n + 1)
         /\ m >= R => UpTo(R, m + 1) >= R
BY SMT DEF UpTo

(* A sample that pays nothing, and ages the roll or begins a new one. *)
LEMMA UnpaidPaced ==
  ASSUME TurnsTypeOK, Paced,
         past'.last = SinceLast(FALSE), past'.before = SinceBefore(FALSE),
         roll'.to # NONE => roll'.age = 0 \/ (roll.to # NONE /\ roll'.age = Age),
         \/ latest'.owed = latest.owed
         \/ roll.to # NONE /\ Kept /\ (roll'.to # NONE => roll'.age = 0)
         \/ latest'.owed = NONE
  PROVE  Paced'
<1> DEFINE After(n) == UpTo(TURN_ROLL, n + 1)
<1>1. /\ past.last \in 0..TURN_ROLL /\ past.before \in 0..TURN_ROLL
      /\ roll.age \in 0..TURN_ROLL /\ TURN_ROLL \in Nat \ {0} /\ 0 \in 0..TURN_ROLL
  BY PacedTypes, SMT
<1>2. /\ past'.last = After(past.last)
      /\ past'.before = After(past.before)
      /\ Age = After(roll.age)
  BY DEF SinceLast, SinceBefore, Age
<1>3. \A m, n \in 0..TURN_ROLL :
        /\ After(m) \in 0..TURN_ROLL /\ After(0) = 1 /\ After(m) >= After(0)
        /\ m >= n => After(m) >= After(n)
        /\ m >= TURN_ROLL => After(m) >= TURN_ROLL
  BY <1>1, UpToOrders
<1>4. /\ past.before >= After(past.last)
      /\ roll.to # NONE => past.before >= After(roll.age)
      /\ latest.owed # NONE => past.before >= TURN_ROLL
      /\ latest.owed # NONE /\ roll.to # NONE => past.last >= After(roll.age)
  BY DEF Paced, Since
<1> HIDE DEF After
<1>5. After(past.last) \in 0..TURN_ROLL /\ After(roll.age) \in 0..TURN_ROLL
  BY <1>1, <1>3
<1>6. past'.before >= After(past'.last)
  BY <1>1, <1>2, <1>3, <1>4, <1>5
<1>7. roll'.to # NONE => past'.before >= After(roll'.age)
  BY <1>1, <1>2, <1>3, <1>4, <1>5
<1>8. Kept => After(roll.age) >= TURN_ROLL
  BY <1>2 DEF Kept
<1>9. latest'.owed # NONE => past'.before >= TURN_ROLL
  <2>1. CASE latest'.owed = latest.owed
    BY <1>1, <1>2, <1>3, <1>4, <2>1
  <2>2. CASE roll.to # NONE /\ Kept
    <3>1. past.before >= TURN_ROLL
      <4>1. past.before >= After(roll.age) /\ After(roll.age) >= TURN_ROLL
        BY <1>4, <1>8, <2>2
      <4>2. \A p, q, r \in 0..TURN_ROLL : p >= q /\ q >= r => p >= r
        BY <1>1, SMT
      <4>3. TURN_ROLL \in 0..TURN_ROLL
        BY <1>1, SMT
      <4>4. QED
        BY <1>1, <1>5, <4>1, <4>2, <4>3
    <3>2. QED
      BY <1>1, <1>2, <1>3, <3>1
  <2>3. QED
    BY <2>1, <2>2
<1>10. latest'.owed # NONE /\ roll'.to # NONE => past'.last >= After(roll'.age)
  BY <1>1, <1>2, <1>3, <1>4, <1>5
<1>11. QED
  BY <1>6, <1>7, <1>9, <1>10 DEF Paced, Since, After

(* A sample that pays, and leaves no debt. *)
LEMMA PaidPaced ==
  ASSUME TurnsTypeOK, Paced, latest'.owed = NONE,
         past'.last = SinceLast(TRUE), past'.before = SinceBefore(TRUE),
         roll'.to # NONE =>
           \/ roll'.age = 0
           \/ roll.to # NONE /\ roll'.age = Age /\ latest.owed # NONE
  PROVE  Paced'
<1> DEFINE After(n) == UpTo(TURN_ROLL, n + 1)
<1>1. /\ past.last \in 0..TURN_ROLL /\ past.before \in 0..TURN_ROLL
      /\ roll.age \in 0..TURN_ROLL /\ TURN_ROLL \in Nat \ {0} /\ 0 \in 0..TURN_ROLL
  BY PacedTypes, SMT
<1>2. /\ past'.last = 0
      /\ past'.before = After(past.last)
      /\ Age = After(roll.age)
  BY DEF SinceLast, SinceBefore, Age
<1>3. \A m, n \in 0..TURN_ROLL :
        /\ After(m) \in 0..TURN_ROLL /\ After(m) >= After(0)
        /\ m >= n => After(m) >= After(n)
  BY <1>1, UpToOrders
<1>4. latest.owed # NONE /\ roll.to # NONE => past.last >= After(roll.age)
  BY DEF Paced, Since
<1> HIDE DEF After
<1>5. After(roll.age) \in 0..TURN_ROLL
  BY <1>1, <1>3
<1>6. past'.before >= After(past'.last)
  BY <1>1, <1>2, <1>3
<1>7. roll'.to # NONE => past'.before >= After(roll'.age)
  BY <1>1, <1>2, <1>3, <1>4, <1>5
<1>8. QED
  BY <1>6, <1>7 DEF Paced, Since, After

(* What the pace sees of a step: what becomes of the roll, and of the debt. *)
Ages == roll'.to # NONE => roll'.age = 0 \/ (roll.to # NONE /\ roll'.age = Age)
Renews == roll'.to # NONE => roll'.age = 0

(* A turn settled after it was kept leaves the pace as it must be. *)
LEMMA SettledPaced ==
  ASSUME Standing, Paced, NEW h \in Moves, NEW w \in BOOLEAN, Remember(h, w),
         NEW fields, NEW wall, NEW turn \in Settled(roll.to, fields, wall),
         latest' = Reached(turn), roll.to # NONE, Kept, Renews
  PROVE  Paced'
<1>1. TurnsTypeOK /\ roll.to \in Where
  BY StandingTypes DEF Standing
<1>2. Lost(latest') \/ Paid(latest') \/ Owed(latest', roll.to)
  BY <1>1, SettledTells
<1>3. /\ past'.last = SinceLast(latest'.paid)
      /\ past'.before = SinceBefore(latest'.paid)
  BY DEF Remember
<1>4. CASE latest'.paid = FALSE
  BY <1>1, <1>3, <1>4, UnpaidPaced DEF Renews
<1>5. CASE Paid(latest')
  BY <1>1, <1>3, <1>5, PaidPaced DEF Renews, Paid
<1>6. QED
  BY <1>2, <1>4, <1>5 DEF Lost, Owed

(* So does a sample that settles none. *)
LEMMA UnsettledPaced ==
  ASSUME Standing, Paced, NEW h \in Moves, NEW w \in BOOLEAN, Remember(h, w),
         latest' = Reached(Unsettled), Ages
  PROVE  Paced'
<1>1. TurnsTypeOK
  BY DEF Standing
<1>2. /\ past'.last = SinceLast(latest'.paid)
      /\ past'.before = SinceBefore(latest'.paid)
  BY DEF Remember
<1>3. \/ latest'.paid = TRUE /\ latest'.owed = NONE /\ latest.owed # NONE
      \/ latest'.paid = FALSE /\ latest'.owed = latest.owed
  BY <1>1, UnsettledTells DEF Ripe
<1>4. CASE latest'.paid = TRUE /\ latest'.owed = NONE /\ latest.owed # NONE
  BY <1>1, <1>2, <1>4, PaidPaced DEF Ages
<1>5. CASE latest'.paid = FALSE /\ latest'.owed = latest.owed
  BY <1>1, <1>2, <1>5, UnpaidPaced DEF Ages
<1>6. QED
  BY <1>3, <1>4, <1>5

(* Every way to count a moving sample keeps the pace. *)
LEMMA SamplePaced ==
  ASSUME Standing, Paced, NEW h \in Moves, NEW w \in BOOLEAN,
         Counted(h, w), Remember(h, w)
  PROVE  Paced'
<1>1. CASE Keep(h, w)
  BY <1>1, SettledPaced DEF Keep, Renews, NoRoll
<1>2. CASE Carry(h, w)
  <2>1. Ages
    BY <1>2 DEF Carry, CarriedRoll, Ages
  <2>2. QED
    BY <1>2, <2>1, UnsettledPaced DEF Carry
<1>3. CASE StartsNowhere(h, w)
  <2>1. Ages
    BY <1>3 DEF StartsNowhere, Top, Ages
  <2>2. QED
    BY <1>3, <2>1, UnsettledPaced DEF StartsNowhere
<1>4. CASE BeginTurn(h, w)
  BY <1>4, UnsettledPaced DEF BeginTurn, RollFrom, Ages
<1>5. CASE RollOn(h, w)
  BY <1>5, RollOnHolds, UnsettledPaced DEF RollOn, RollFrom, Ages
<1>6. CASE Leave(h, w)
  BY <1>6, SettledPaced DEF Leave, RollFrom, Renews
<1>7. CASE Flick(h, w)
  <2>1. latest'.paid = FALSE /\ latest'.owed = NONE
    BY <1>7, FlickTells DEF Flick, Lost
  <2>2. roll'.to # NONE => roll'.age = 0
    BY <1>7 DEF Flick, RollFrom
  <2>3. past'.last = SinceLast(FALSE) /\ past'.before = SinceBefore(FALSE)
    BY <2>1 DEF Remember
  <2>4. QED
    BY <2>1, <2>2, <2>3, UnpaidPaced DEF Standing
<1>8. QED
  BY <1>1, <1>2, <1>3, <1>4, <1>5, <1>6, <1>7 DEF Counted

(* Whatever pays, pays when the payment before the last is far enough gone. *)
LEMMA PaysAtPace ==
  ASSUME Standing, Paced, NEW h \in Moves, NEW w \in BOOLEAN,
         Counted(h, w), latest'.paid
  PROVE  past.before >= TURN_ROLL
<1>1. CASE latest' = Reached(Unsettled)
  BY <1>1, UnsettledTells DEF Standing, Ripe, Paced
<1>2. CASE roll.to # NONE /\ Kept
  <2>1. past.before >= Age /\ Age >= TURN_ROLL
    BY <1>2 DEF Paced, Since, Age, Kept
  <2>2. Age \in 0..TURN_ROLL /\ past.before \in 0..TURN_ROLL /\ TURN_ROLL \in Nat
    BY PacedTypes, UpToOrders DEF Standing, Age
  <2>3. \A p, q \in 0..TURN_ROLL : p >= q /\ q >= TURN_ROLL => p >= TURN_ROLL
    BY <2>2, SMT
  <2>4. QED
    BY <2>1, <2>2, <2>3
<1>3. CASE Flick(h, w)
  BY <1>3, FlickTells DEF Flick, Lost
<1>4. QED
  BY <1>1, <1>2, <1>3
  DEF Counted, Keep, Carry, StartsNowhere, BeginTurn, RollOn, Leave

(* A sweep begins at pace. *)
LEMMA PacedInit == TurnsInit => Paced
<1>1. TURN_ROLL >= UpTo(TURN_ROLL, TURN_ROLL + 1)
  BY RulesAssumption, SMT DEF UpTo
<1>2. QED
  BY <1>1 DEF TurnsInit, FirstPast, NoRoll, FirstLatest, Paced, Since

(* Rest lets time go by, for the roll and the payments alike. *)
LEMMA RestPaced ==
  ASSUME Standing, Paced, NEW w \in BOOLEAN, Rest(w)
  PROVE  Paced'
<1>1. /\ past'.last = SinceLast(FALSE) /\ past'.before = SinceBefore(FALSE)
      /\ latest'.owed = latest.owed
  BY DEF Rest, Unsettled
<1>2. roll'.to # NONE => roll'.age = 0 \/ (roll.to # NONE /\ roll'.age = Age)
  BY DEF Rest
<1>3. QED
  BY <1>1, <1>2, UnpaidPaced DEF Standing

(* Every step keeps the pace. *)
LEMMA PacedStep ==
  ASSUME Standing, Paced, [TurnsNext]_turnVars
  PROVE  Paced'
<1>1. ASSUME NEW h \in Moves, NEW fresh \in BOOLEAN, NEW w \in BOOLEAN,
             Sample(h, fresh, w)
      PROVE  Paced'
  BY <1>1, SamplePaced DEF Sample, Counted
<1>2. ASSUME NEW w \in BOOLEAN, Rest(w)
      PROVE  Paced'
  BY <1>2, RestPaced
<1>3. CASE ResetTurns
  <2>1. TURN_ROLL >= UpTo(TURN_ROLL, TURN_ROLL + 1)
    BY RulesAssumption, SMT DEF UpTo
  <2>2. QED
    BY <1>3, <2>1 DEF ResetTurns, FirstPast, NoRoll, FirstLatest, Paced, Since
<1>4. CASE UNCHANGED turnVars
  BY <1>4 DEF turnVars, Paced, Since
<1>5. QED
  BY <1>1, <1>2, <1>3, <1>4 DEF TurnsNext

(* No three payments within TURN_ROLL samples, for every run of samples. *)
THEOREM HandsPaceHolds == TurnsSpec => HandsPace
<1>1. Standing /\ Paced /\ [TurnsNext]_turnVars
      => [latest'.paid /\ run'.heading # NONE => past.before >= TURN_ROLL]_turnVars
  <2> SUFFICES ASSUME Standing, Paced, TurnsNext, latest'.paid
               PROVE  past.before >= TURN_ROLL
    OBVIOUS
  <2>1. ASSUME NEW h \in Moves, NEW fresh \in BOOLEAN, NEW w \in BOOLEAN,
               Sample(h, fresh, w)
        PROVE  past.before >= TURN_ROLL
    BY <2>1, PaysAtPace DEF Sample, Counted
  <2>2. ASSUME NEW w \in BOOLEAN, Rest(w)
        PROVE  FALSE
    BY <2>2 DEF Rest, Unsettled
  <2>3. CASE ResetTurns
    BY <2>3 DEF ResetTurns, FirstLatest
  <2>4. QED
    BY <2>1, <2>2, <2>3 DEF TurnsNext
<1>2. TurnsInit => Paced
  BY PacedInit
<1>3. Standing /\ Paced /\ [TurnsNext]_turnVars => Paced'
  BY PacedStep
<1>4. QED
  BY <1>1, <1>2, <1>3, StandingHolds, PTL DEF TurnsSpec, HandsPace
-----------------------------------------------------------------------------
(* The ground of a run, and what has been paid on it.  A turn waits only
   under a run that has not reached its ground, and a run that has paid twice
   has paid the turn into it last and stands on that turn's heading. *)

Backed ==
  /\ past.spent \in {0, 1, 2} /\ past.backed <= 2
  /\ past.spent # 0 => run.fields >= TURN_FIELDS
  /\ latest.owed # NONE /\ latest.owed = run.heading => ~(run.fields >= TURN_FIELDS)
  /\ past.spent = 2 => roll.to = NONE /\ heading = run.heading /\ latest.owed = NONE
  /\ roll.to # NONE => past.rollSpent \in {0, 1}
  /\ roll.to # NONE /\ roll.to = run.heading => past.rollSpent = past.spent

Before(h) == IF run.heading = h THEN past.spent ELSE 0

(* A run keeps its ground; a run that has just begun has paid nothing. *)
LEMMA BeforeBacked ==
  ASSUME Standing, Backed, NEW h \in Moves, NEW fresh \in BOOLEAN,
         run' = RunOn(h, fresh)
  PROVE  /\ run'.heading = h
         /\ Before(h) \in {0, 1, 2}
         /\ Before(h) # 0 => run'.fields >= TURN_FIELDS
         /\ Before(h) = 2 => roll.to = NONE /\ heading = h /\ latest.owed = NONE
         /\ roll.to = h => Before(h) \in {0, 1}
         /\ latest.owed = h => Before(h) = 0
<1>1. /\ run'.heading = h /\ run' \in Runs
      /\ run.heading = h => run'.fields >= run.fields
  BY RunTyped DEF Standing
<1>2. /\ run.fields \in 0..TURN_FIELDS /\ run'.fields \in 0..TURN_FIELDS
      /\ TURN_FIELDS \in Nat
  BY <1>1, RulesAssumption, SMT DEF Standing, TurnsTypeOK, Runs
<1>3. h # NONE
  BY NoneIsNoMove
<1>4. \A p, q \in 0..TURN_FIELDS : p >= q /\ q >= TURN_FIELDS => p >= TURN_FIELDS
  BY <1>2, SMT
<1>5. Before(h) # 0 => run.heading = h /\ Before(h) = past.spent
  BY DEF Before
<1>6. Before(h) \in {0, 1, 2}
  BY DEF Before, Backed
<1>7. Before(h) # 0 => run'.fields >= TURN_FIELDS
  BY <1>1, <1>2, <1>4, <1>5 DEF Backed
<1>8. Before(h) = 2 => roll.to = NONE /\ heading = h /\ latest.owed = NONE
  <2>1. 2 # 0
    BY SMT
  <2>2. QED
    BY <1>5, <2>1 DEF Backed
<1>9. roll.to = h => Before(h) \in {0, 1}
  BY <1>3, <1>6, <1>8
<1>10. latest.owed = h => Before(h) = 0
  BY <1>3, <1>5 DEF Backed
<1>11. QED
  BY <1>1, <1>6, <1>7, <1>8, <1>9, <1>10

(* A sample that pays nothing keeps what was paid on the ground. *)
LEMMA UnpaidBacked ==
  ASSUME Standing, Backed, NEW h \in Moves, NEW w \in BOOLEAN, NEW fresh \in BOOLEAN,
         run' = RunOn(h, fresh), Remember(h, w), latest'.paid = FALSE,
         latest'.owed # NONE => ~Ripe(latest'.owed),
         Before(h) = 2 => roll'.to = NONE /\ heading' = heading /\ latest'.owed = NONE,
         roll'.to # NONE => roll'.to = h \/ roll'.to = roll.to
  PROVE  Backed'
<1>1. /\ run'.heading = h
      /\ Before(h) \in {0, 1, 2}
      /\ Before(h) # 0 => run'.fields >= TURN_FIELDS
      /\ Before(h) = 2 => roll.to = NONE /\ heading = h /\ latest.owed = NONE
  BY BeforeBacked
<1>2. Spent(h) = Before(h)
  BY DEF Spent, Before
<1>3. /\ past'.spent = Before(h) /\ past'.backed = past.backed
      /\ past'.rollSpent = IF h = roll'.to THEN Before(h) ELSE past.rollSpent
  BY <1>2 DEF Remember, LeftPays
<1>4. latest'.owed # NONE /\ latest'.owed = run'.heading => ~(run'.fields >= TURN_FIELDS)
  BY DEF Ripe
<1>5. roll'.to # NONE => past'.rollSpent \in {0, 1}
  BY <1>1, <1>3 DEF Backed
<1>6. roll'.to # NONE /\ roll'.to = run'.heading => past'.rollSpent = past'.spent
  BY <1>1, <1>3
<1>7. QED
  BY <1>1, <1>3, <1>4, <1>5, <1>6 DEF Backed

(* A sample that pays on the ground of its own run. *)
LEMMA PaidBacked ==
  ASSUME Standing, Backed, NEW h \in Moves, NEW w \in BOOLEAN, NEW fresh \in BOOLEAN,
         run' = RunOn(h, fresh), Remember(h, w), latest'.paid = TRUE,
         latest'.owed = NONE, ~LeftPays(h), run'.fields >= TURN_FIELDS,
         \/ Before(h) = 0
         \/ Before(h) \in {0, 1} /\ roll'.to = NONE /\ heading' = h,
         roll'.to # NONE => roll'.to = h \/ roll'.to = roll.to
  PROVE  Backed'
<1>1. run'.heading = h
  BY BeforeBacked
<1>2. Spent(h) = Before(h) + 1
  BY DEF Spent, Before
<1>3. /\ past'.spent = Before(h) + 1 /\ past'.backed = Before(h) + 1
      /\ past'.rollSpent = IF h = roll'.to THEN Before(h) + 1 ELSE past.rollSpent
  BY <1>2 DEF Remember
<1>4. CASE Before(h) = 0
  <2>1. /\ past'.spent = 1 /\ past'.backed = 1
        /\ past'.rollSpent = IF h = roll'.to THEN 1 ELSE past.rollSpent
    BY <1>3, <1>4
  <2>2. roll'.to # NONE => past'.rollSpent \in {0, 1}
    BY <2>1 DEF Backed
  <2>3. roll'.to # NONE /\ roll'.to = run'.heading => past'.rollSpent = past'.spent
    BY <1>1, <2>1
  <2>4. past'.spent # 2 /\ past'.backed <= 2 /\ past'.spent # 0
    BY <2>1
  <2>5. QED
    BY <2>1, <2>2, <2>3, <2>4 DEF Backed
<1>5. CASE Before(h) = 1 /\ roll'.to = NONE /\ heading' = h
  <2>1. past'.spent = 2 /\ past'.backed = 2
    BY <1>3, <1>5
  <2>2. past'.backed <= 2 /\ past'.spent # 0
    BY <2>1
  <2>3. QED
    BY <1>1, <1>5, <2>1, <2>2 DEF Backed
<1>6. QED
  BY <1>4, <1>5

(* A sample that pays for a roll the hand has just left. *)
LEMMA LeftBacked ==
  ASSUME Standing, Backed, NEW h \in Moves, NEW w \in BOOLEAN, NEW fresh \in BOOLEAN,
         run' = RunOn(h, fresh), Remember(h, w), latest'.paid = TRUE,
         latest'.owed = NONE, LeftPays(h), roll'.to = h
  PROVE  Backed'
<1>1. /\ run'.heading = h
      /\ Before(h) \in {0, 1, 2}
      /\ Before(h) # 0 => run'.fields >= TURN_FIELDS
      /\ Before(h) = 2 => roll.to = NONE
  BY BeforeBacked
<1>2. Spent(h) = Before(h) /\ roll.to # NONE
  BY DEF Spent, Before, LeftPays
<1>3. past'.spent = Before(h) /\ past'.rollSpent = Before(h) /\ past'.backed = past.rollSpent + 1
  BY <1>2 DEF Remember
<1>4. past'.backed <= 2
  <2>1. past.rollSpent \in {0, 1}
    BY <1>2 DEF Backed
  <2>2. CASE past.rollSpent = 0
    BY <1>3, <2>2
  <2>3. CASE past.rollSpent = 1
    BY <1>3, <2>3
  <2>4. QED
    BY <2>1, <2>2, <2>3
<1>5. Before(h) \in {0, 1} /\ Before(h) # 2
  BY <1>1, <1>2
<1>6. QED
  BY <1>1, <1>3, <1>4, <1>5 DEF Backed

(* A sample that settles nothing pays on ground nothing was paid on. *)
LEMMA UnsettledBacked ==
  ASSUME Standing, Backed, NEW h \in Moves, NEW w \in BOOLEAN, NEW fresh \in BOOLEAN,
         run' = RunOn(h, fresh), Remember(h, w), latest' = Reached(Unsettled),
         ~(roll.to # NONE /\ heading' = roll.to),
         Before(h) = 2 => roll'.to = NONE /\ heading' = heading,
         roll'.to # NONE => roll'.to = h \/ roll'.to = roll.to
  PROVE  Backed'
<1>1. /\ run'.heading = h
      /\ Before(h) = 2 => latest.owed = NONE
      /\ latest.owed = h => Before(h) = 0
  BY BeforeBacked
<1>2. \/ Ripe(latest.owed) /\ latest'.paid = TRUE /\ latest'.owed = NONE
      \/ ~Ripe(latest.owed) /\ latest'.paid = FALSE /\ latest'.owed = latest.owed
  BY UnsettledTells DEF Standing
<1>3. CASE Ripe(latest.owed) /\ latest'.paid = TRUE /\ latest'.owed = NONE
  <2>1. Before(h) = 0 /\ run'.fields >= TURN_FIELDS
    BY <1>1, <1>3 DEF Ripe
  <2>2. ~LeftPays(h)
    BY DEF LeftPays
  <2>3. QED
    BY <1>3, <2>1, <2>2, PaidBacked
<1>4. CASE ~Ripe(latest.owed) /\ latest'.paid = FALSE /\ latest'.owed = latest.owed
  BY <1>1, <1>4, UnpaidBacked
<1>5. QED
  BY <1>2, <1>3, <1>4

(* A roll kept pays on the ground of its own run, once. *)
LEMMA KeepBacked ==
  ASSUME Standing, Backed, NEW h \in Moves, NEW w \in BOOLEAN, NEW fresh \in BOOLEAN,
         run' = RunOn(h, fresh), Remember(h, w), Keep(h, w)
  PROVE  Backed'
<1>1. /\ run'.heading = h
      /\ Before(h) = 2 => roll.to = NONE
      /\ roll.to = h => Before(h) \in {0, 1}
  BY BeforeBacked
<1>2. /\ roll.to # NONE /\ h = roll.to /\ heading' = h /\ roll'.to = NONE
      /\ roll.to \in Where
  BY StandingTypes DEF Keep, NoRoll, Standing
<1>3. \/ Lost(latest')
      \/ Paid(latest') /\ (run'.fields >= TURN_FIELDS \/ Ripe(roll.to))
      \/ Owed(latest', roll.to) /\ ~Ripe(roll.to)
  BY <1>2, SettledTells DEF Keep, Standing
<1>4. CASE Lost(latest')
  BY <1>1, <1>2, <1>4, UnpaidBacked DEF Lost
<1>5. CASE Paid(latest') /\ (run'.fields >= TURN_FIELDS \/ Ripe(roll.to))
  BY <1>1, <1>2, <1>5, PaidBacked DEF Paid, Ripe, LeftPays
<1>6. CASE Owed(latest', roll.to) /\ ~Ripe(roll.to)
  BY <1>1, <1>2, <1>6, UnpaidBacked DEF Owed
<1>7. QED
  BY <1>3, <1>4, <1>5, <1>6

(* A roll left pays on the ground it had, once. *)
LEMMA LeaveBacked ==
  ASSUME Standing, Backed, NEW h \in Moves, NEW w \in BOOLEAN, NEW fresh \in BOOLEAN,
         run' = RunOn(h, fresh), Remember(h, w), Leave(h, w)
  PROVE  Backed'
<1>1. /\ run'.heading = h
      /\ Before(h) = 2 => roll.to = NONE
  BY BeforeBacked
<1>2. /\ roll.to # NONE /\ h # roll.to /\ heading' = roll.to /\ roll'.to = h
      /\ roll.to \in Where
  BY StandingTypes DEF Leave, Turning, Top, RollFrom, Standing
<1>3. \/ Lost(latest')
      \/ Paid(latest')
      \/ Owed(latest', roll.to) /\ ~Ripe(roll.to)
  BY <1>2, SettledTells DEF Leave, Standing
<1>4. CASE Lost(latest')
  BY <1>1, <1>2, <1>4, UnpaidBacked DEF Lost
<1>5. CASE Paid(latest')
  BY <1>2, <1>5, LeftBacked DEF Paid, LeftPays
<1>6. CASE Owed(latest', roll.to) /\ ~Ripe(roll.to)
  BY <1>1, <1>2, <1>6, UnpaidBacked DEF Owed
<1>7. QED
  BY <1>3, <1>4, <1>5, <1>6

(* A flick pays nothing. *)
LEMMA FlickBacked ==
  ASSUME Standing, Backed, NEW h \in Moves, NEW w \in BOOLEAN, NEW fresh \in BOOLEAN,
         run' = RunOn(h, fresh), Remember(h, w), Flick(h, w)
  PROVE  Backed'
<1>1. latest'.paid = FALSE /\ latest'.owed = NONE
  BY FlickTells DEF Flick, Lost
<1>2. Before(h) = 2 => roll.to = NONE
  BY BeforeBacked
<1>3. roll.to # NONE /\ roll'.to = h
  BY DEF Flick, RollFrom
<1>4. QED
  BY <1>1, <1>2, <1>3, UnpaidBacked

(* Every way to count a moving sample keeps its payments on ground. *)
LEMMA SampleBacked ==
  ASSUME Standing, Backed, NEW h \in Moves, NEW w \in BOOLEAN, NEW fresh \in BOOLEAN,
         run' = RunOn(h, fresh), Remember(h, w), Counted(h, w)
  PROVE  Backed'
<1>1. Before(h) = 2 => roll.to = NONE /\ heading = h
  BY BeforeBacked
<1>2. CASE Keep(h, w)
  BY <1>2, KeepBacked
<1>3. CASE Carry(h, w)
  <2>1. heading' = heading /\ roll'.to = roll.to
    BY <1>3 DEF Carry, CarriedRoll
  <2>2. ~(roll.to # NONE /\ heading' = roll.to)
    BY <2>1 DEF Standing, RollTurns
  <2>3. QED
    BY <1>1, <1>3, <2>1, <2>2, UnsettledBacked DEF Carry
<1>4. CASE StartsNowhere(h, w)
  <2>1. roll.to = NONE /\ roll' = roll /\ h # heading
    BY <1>4 DEF StartsNowhere, Turning, Top
  <2>2. QED
    BY <1>1, <1>4, <2>1, UnsettledBacked DEF StartsNowhere
<1>5. CASE BeginTurn(h, w)
  <2>1. roll.to = NONE /\ roll'.to = h /\ h # heading
    BY <1>5 DEF BeginTurn, Turning, Top, RollFrom
  <2>2. QED
    BY <1>1, <1>5, <2>1, UnsettledBacked DEF BeginTurn
<1>6. CASE RollOn(h, w)
  <2>1. roll.to # NONE /\ roll'.to = h /\ heading' = heading
    BY <1>6, RollOnHolds DEF RollOn, RollFrom
  <2>2. ~(roll.to # NONE /\ heading' = roll.to)
    BY <2>1 DEF Standing, RollTurns
  <2>3. QED
    BY <1>1, <1>6, <2>1, <2>2, UnsettledBacked DEF RollOn
<1>7. CASE Leave(h, w)
  BY <1>7, LeaveBacked
<1>8. CASE Flick(h, w)
  BY <1>8, FlickBacked
<1>9. QED
  BY <1>2, <1>3, <1>4, <1>5, <1>6, <1>7, <1>8 DEF Counted

(* Rest pays nothing and reaches no ground. *)
LEMMA RestBacked ==
  ASSUME Backed, NEW w \in BOOLEAN, Rest(w)
  PROVE  Backed'
<1>1. /\ run' = run /\ heading' = heading /\ roll'.to = roll.to
      /\ latest'.owed = latest.owed
      /\ past'.spent = past.spent /\ past'.rollSpent = past.rollSpent
      /\ past'.backed = past.backed
  BY DEF Rest, Unsettled
<1>2. QED
  BY <1>1 DEF Backed

(* A sweep begins on ground that has paid nothing. *)
LEMMA FreshBacked ==
  /\ TurnsInit => Backed
  /\ ResetTurns => Backed'
<1>1. 0 # 2 /\ 0 <= 2
  BY SMT
<1>2. QED
  BY <1>1 DEF TurnsInit, ResetTurns, FirstPast, NoRoll, FirstLatest, Backed

(* The ground of one run pays twice at most, whatever the hand does. *)
THEOREM GroundBacksTwoHolds == TurnsSpec => []GroundBacksTwo
<1>1. Standing /\ Backed /\ [TurnsNext]_turnVars => Backed'
  <2> SUFFICES ASSUME Standing, Backed, [TurnsNext]_turnVars
               PROVE  Backed'
    OBVIOUS
  <2>1. ASSUME NEW h \in Moves, NEW fresh \in BOOLEAN, NEW w \in BOOLEAN,
               Sample(h, fresh, w)
        PROVE  Backed'
    BY <2>1, SampleBacked DEF Sample, Counted
  <2>2. ASSUME NEW w \in BOOLEAN, Rest(w)
        PROVE  Backed'
    BY <2>2, RestBacked
  <2>3. CASE ResetTurns
    BY <2>3, FreshBacked
  <2>4. CASE UNCHANGED turnVars
    BY <2>4 DEF turnVars, Backed
  <2>5. QED
    BY <2>1, <2>2, <2>3, <2>4 DEF TurnsNext
<1>2. TurnsInit => Backed
  BY FreshBacked
<1>3. Backed => GroundBacksTwo
  BY DEF Backed, GroundBacksTwo
<1>4. QED
  BY <1>1, <1>2, <1>3, StandingHolds, PTL DEF TurnsSpec
-----------------------------------------------------------------------------
(* The wall.  While a touch of it has cost no turn, it is held against the
   turn to come or against the one being made; once a turn has earned since,
   against the one being made. *)

RollWalled == roll.to # NONE /\ roll.walled

Charged ==
  /\ past.passed \in {-1, 0, 1}
  /\ past.passed = 0 => walled \/ RollWalled
  /\ past.passed = 1 => RollWalled

(* A touch in this sample is charged before the sample is counted. *)
LEMMA DueCharged ==
  ASSUME Charged, NEW w \in BOOLEAN
  PROVE  /\ Due(w) \in {-1, 0, 1}
         /\ Due(w) = 0 => Touched(w) \/ RollWalled
         /\ Due(w) = 1 => RollWalled
<1>1. 0 # 1
  BY SMT
<1>2. CASE w /\ past.passed = -1
  BY <1>1, <1>2 DEF Due, Touched
<1>3. CASE ~(w /\ past.passed = -1)
  BY <1>3 DEF Due, Charged, Touched
<1>4. QED
  BY <1>2, <1>3

(* A sample that counts no turn carries the charge over. *)
LEMMA UncountedCharged ==
  ASSUME Charged, NEW h \in Moves, NEW w \in BOOLEAN, Remember(h, w),
         latest'.seq = latest.seq, ~(heading = NONE /\ heading' # NONE),
         Touched(w) => walled' \/ RollWalled', RollWalled => RollWalled'
  PROVE  Charged'
<1>1. past'.passed = Due(w)
  BY DEF Remember, Passed
<1>2. QED
  BY <1>1, DueCharged DEF Charged

(* A turn refused by a wall, or flicked, settles it. *)
LEMMA RefusedCharged ==
  ASSUME NEW h \in Moves, NEW w \in BOOLEAN, Remember(h, w), Standing,
         latest'.seq = (latest.seq + 1) % TURNS_WRAP,
         latest'.verdict \in {"wall", "flick"}
  PROVE  Charged'
<1>1. latest'.seq # latest.seq
  BY NextSeq DEF Standing
<1>2. past'.passed = -1
  BY <1>1 DEF Remember, Passed
<1>3. -1 # 0 /\ -1 # 1
  BY SMT
<1>4. QED
  BY <1>2, <1>3 DEF Charged

(* A roll kept is refused for any wall touched until then. *)
LEMMA KeepCharged ==
  ASSUME Standing, Charged, NEW h \in Moves, NEW w \in BOOLEAN,
         Remember(h, w), Keep(h, w)
  PROVE  Charged'
<1> DEFINE wall == roll.walled \/ Touched(w)
<1>1. PICK turn \in Settled(roll.to, run'.fields, wall) : latest' = Reached(turn)
  BY DEF Keep
<1>2. roll.to # NONE /\ roll.to \in Where /\ heading # NONE
  BY StandingTypes DEF Keep, Standing, RollTurns
<1> HIDE DEF wall
<1>3. /\ latest'.seq = (latest.seq + 1) % TURNS_WRAP
      /\ \/ wall /\ latest'.verdict = "wall"
         \/ ~wall
  BY <1>1, <1>2, SettledTells DEF Standing
<1>4. CASE latest'.verdict = "wall"
  BY <1>3, <1>4, RefusedCharged
<1>5. CASE ~wall
  <2>1. Due(w) # 0 /\ Due(w) # 1
    BY <1>5, DueCharged DEF wall, RollWalled
  <2>2. Due(w) = -1
    BY <2>1, DueCharged
  <2>3. ~(Due(w) >= 0)
    BY <2>2, SMT
  <2>4. past'.passed = -1
    BY <2>2, <2>3 DEF Remember, Passed
  <2>5. -1 # 0 /\ -1 # 1
    BY SMT
  <2>6. QED
    BY <2>4, <2>5 DEF Charged
<1>6. QED
  BY <1>3, <1>4, <1>5

(* A roll left is refused for its own wall, and passes a later one on. *)
LEMMA LeaveCharged ==
  ASSUME Standing, Charged, NEW h \in Moves, NEW w \in BOOLEAN,
         Remember(h, w), Leave(h, w)
  PROVE  Charged'
<1>1. PICK turn \in Settled(roll.to, roll.fields, roll.walled) : latest' = Reached(turn)
  BY DEF Leave
<1>2. /\ roll.to # NONE /\ roll.to \in Where /\ heading # NONE
      /\ roll' = RollFrom(h, Touched(w)) /\ h # NONE
  BY StandingTypes, NoneIsNoMove DEF Leave, Standing, RollTurns
<1>3. /\ latest'.seq = (latest.seq + 1) % TURNS_WRAP
      /\ \/ roll.walled /\ latest'.verdict = "wall"
         \/ ~roll.walled
  BY <1>1, <1>2, SettledTells DEF Standing
<1>4. CASE latest'.verdict = "wall"
  BY <1>3, <1>4, RefusedCharged
<1>5. CASE ~roll.walled
  <2>1. Due(w) \in {-1, 0} /\ (Due(w) = 0 => Touched(w))
    BY <1>5, DueCharged DEF RollWalled
  <2>2. past'.passed \in {-1, Due(w), Due(w) + 1} /\ (past'.passed = Due(w) + 1 => Due(w) >= 0 \/ past'.passed = -1 \/ past'.passed = Due(w))
    BY <2>1 DEF Remember, Passed
  <2>3. CASE Due(w) = 0
    <3>1. Touched(w) /\ RollWalled'
      BY <1>2, <2>1, <2>3 DEF RollFrom, RollWalled
    <3>2. past'.passed \in {-1, 0, 1}
      BY <2>2, <2>3, SMT
    <3>3. QED
      BY <3>1, <3>2 DEF Charged
  <2>4. CASE Due(w) = -1
    <3>1. ~(Due(w) >= 0)
      BY <2>4, SMT
    <3>2. past'.passed = -1
      BY <2>4, <3>1 DEF Remember, Passed
    <3>3. -1 # 0 /\ -1 # 1
      BY SMT
    <3>4. QED
      BY <3>2, <3>3 DEF Charged
  <2>5. QED
    BY <2>1, <2>3, <2>4
<1>6. QED
  BY <1>3, <1>4, <1>5

(* Every way to count a moving sample keeps the charge. *)
LEMMA SampleCharged ==
  ASSUME Standing, Charged, NEW h \in Moves, NEW w \in BOOLEAN,
         Remember(h, w), Counted(h, w)
  PROVE  Charged'
<1>1. h # NONE /\ Reached(Unsettled).seq = latest.seq
  BY NoneIsNoMove, UnsettledTells DEF Standing
<1>2. CASE Keep(h, w)
  BY <1>2, KeepCharged
<1>3. CASE Carry(h, w)
  <2>1. /\ latest'.seq = latest.seq /\ heading' = heading /\ walled' = Touched(w)
        /\ RollWalled => RollWalled'
    BY <1>1, <1>3 DEF Carry, CarriedRoll, RollWalled
  <2>2. QED
    BY <2>1, UncountedCharged
<1>4. CASE StartsNowhere(h, w)
  <2>1. heading = NONE /\ heading' = h /\ latest'.seq = latest.seq
    BY <1>1, <1>4 DEF StartsNowhere, Top
  <2>2. past'.passed = -1
    BY <1>1, <2>1 DEF Remember, Passed
  <2>3. -1 # 0 /\ -1 # 1
    BY SMT
  <2>4. QED
    BY <2>2, <2>3 DEF Charged
<1>5. CASE BeginTurn(h, w)
  <2>1. /\ latest'.seq = latest.seq /\ heading' = heading
        /\ Touched(w) => RollWalled'
        /\ RollWalled => RollWalled'
    BY <1>1, <1>5 DEF BeginTurn, RollFrom, RollWalled
  <2>2. QED
    BY <2>1, UncountedCharged
<1>6. CASE RollOn(h, w)
  <2>1. /\ latest'.seq = latest.seq /\ heading' = heading
        /\ Touched(w) => RollWalled'
        /\ RollWalled => RollWalled'
    BY <1>1, <1>6, RollOnHolds DEF RollOn, RollFrom, RollWalled
  <2>2. QED
    BY <2>1, UncountedCharged
<1>7. CASE Leave(h, w)
  BY <1>7, LeaveCharged
<1>8. CASE Flick(h, w)
  BY <1>8, FlickTells, RefusedCharged DEF Flick
<1>9. QED
  BY <1>2, <1>3, <1>4, <1>5, <1>6, <1>7, <1>8 DEF Counted

(* Rest keeps the charge. *)
LEMMA RestCharged ==
  ASSUME Charged, NEW w \in BOOLEAN, Rest(w)
  PROVE  Charged'
<1>1. past'.passed = Due(w) /\ walled' = Touched(w) /\ RollWalled' = RollWalled
  BY DEF Rest, RollWalled
<1>2. QED
  BY <1>1, DueCharged DEF Charged

(* A sweep begins with no wall. *)
LEMMA FreshCharged ==
  /\ TurnsInit => Charged
  /\ ResetTurns => Charged'
<1>1. -1 # 0 /\ -1 # 1
  BY SMT
<1>2. QED
  BY <1>1 DEF TurnsInit, ResetTurns, FirstPast, Charged

(* At most one turn earns between a touch of the wall and the turn refused
   for it, for every order of walls, rolls and turns. *)
THEOREM WallCostsATurnHolds == TurnsSpec => []WallCostsATurn
<1>1. Standing /\ Charged /\ [TurnsNext]_turnVars => Charged'
  <2> SUFFICES ASSUME Standing, Charged, [TurnsNext]_turnVars
               PROVE  Charged'
    OBVIOUS
  <2>1. ASSUME NEW h \in Moves, NEW fresh \in BOOLEAN, NEW w \in BOOLEAN,
               Sample(h, fresh, w)
        PROVE  Charged'
    BY <2>1, SampleCharged DEF Sample, Counted
  <2>2. ASSUME NEW w \in BOOLEAN, Rest(w)
        PROVE  Charged'
    BY <2>2, RestCharged
  <2>3. CASE ResetTurns
    BY <2>3, FreshCharged
  <2>4. CASE UNCHANGED turnVars
    BY <2>4 DEF turnVars, Charged, RollWalled
  <2>5. QED
    BY <2>1, <2>2, <2>3, <2>4 DEF TurnsNext
<1>2. TurnsInit => Charged
  BY FreshCharged
<1>3. Charged => WallCostsATurn
  BY SMT DEF Charged, WallCostsATurn
<1>4. QED
  BY <1>1, <1>2, <1>3, StandingHolds, PTL DEF TurnsSpec
-----------------------------------------------------------------------------
(* Presses *)

(* What a window has paid beyond the rate and what the budget still holds
   share PRESS_SAVED. *)
Counts == budget \in 0..PRESS_SAVED /\ burst \in Nat /\ burst + budget <= PRESS_SAVED

(* A frame takes its allowance in and pays out of what it then has. *)
LEMMA FramePays ==
  ASSUME Counts, NEW d \in SUBSET Buttons, Frame(d)
  PROVE  /\ press'.pays \in Nat /\ Allowed \in 0..PRESS_SAVED
         /\ press'.pays <= Allowed /\ budget' = Allowed - press'.pays
<1>1. Allowed \in 0..PRESS_SAVED
  BY PressAssumption, SMT DEF Counts, Allowed, Least
<1>2. CASE Idle(d)
  BY <1>1, <1>2, SMT DEF Idle, NoPress
<1>3. CASE Chord(d)
  BY <1>1, <1>3, SMT DEF Chord, NoPress
<1>4. ASSUME NEW b \in d, NEW foreseen \in BOOLEAN, NEW timed \in BOOLEAN,
             NEW earned \in Earned(foreseen, timed), Press(d, b, earned)
      PROVE  /\ press'.pays \in Nat /\ press'.pays <= Allowed
             /\ budget' = Allowed - press'.pays
  <2>1. earned \in Nat
    <3>1. \A x \in Button, y \in Moment : x \in Nat /\ x + y \in Nat
      BY PressAssumption, SMT
    <3>2. CASE foreseen \/ Hurried
      BY <1>4, <3>2 DEF Earned
    <3>3. CASE ~(foreseen \/ Hurried) /\ timed
      BY <1>4, <3>1, <3>3, PressAssumption DEF Earned
    <3>4. CASE ~(foreseen \/ Hurried) /\ ~timed
      BY <1>4, <3>1, <3>4 DEF Earned
    <3>5. QED
      BY <3>2, <3>3, <3>4
  <2>2. Least(earned, Allowed) \in Nat /\ Least(earned, Allowed) <= Allowed
    BY <1>1, <2>1, SMT DEF Least
  <2>3. press'.pays = Least(earned, Allowed) /\ budget' = Allowed - Least(earned, Allowed)
    BY <1>4 DEF Press
  <2>4. QED
    BY <2>2, <2>3
<1>5. QED
  BY <1>1, <1>2, <1>3, <1>4 DEF Frame

(* Over any window of frames, presses pay no more than the budget holds and
   the rate for every frame after the window's first. *)
THEOREM PressCeilingHolds == PressSpec => []PressCeiling
<1>1. PressInit => Counts
  BY PressAssumption, SMT DEF PressInit, Counts
<1>2. Counts /\ [PressNext]_pressVars => Counts'
  <2> SUFFICES ASSUME Counts, [PressNext]_pressVars
               PROVE  Counts'
    OBVIOUS
  <2>1. ASSUME NEW d \in SUBSET Buttons, Frame(d)
        PROVE  Counts'
    <3>1. /\ press'.pays \in Nat /\ Allowed \in 0..PRESS_SAVED
          /\ press'.pays <= Allowed /\ budget' = Allowed - press'.pays
      BY <2>1, FramePays
    <3>2. burst' = (IF burst > PRESS_RATE THEN burst - PRESS_RATE ELSE 0) + press'.pays
      BY <2>1 DEF Frame, Watch
    <3>3. Allowed = Least(PRESS_SAVED, budget + PRESS_RATE)
      BY DEF Allowed
    <3> DEFINE pays == press'.pays
    <3>4. budget \in Nat /\ burst \in Nat /\ PRESS_RATE \in Nat /\ PRESS_SAVED \in Nat
          /\ burst + budget <= PRESS_SAVED /\ budget <= PRESS_SAVED
      BY PressAssumption, SMT DEF Counts
    <3> HIDE DEF pays
    <3>5. CASE burst > PRESS_RATE
      BY <3>1, <3>2, <3>3, <3>4, <3>5, SMT DEF Counts, Least, pays
    <3>6. CASE ~(burst > PRESS_RATE)
      BY <3>1, <3>2, <3>3, <3>4, <3>6, SMT DEF Counts, Least, pays
    <3>7. QED
      BY <3>5, <3>6
  <2>2. CASE ResetPresses
    BY <2>2, PressAssumption, SMT DEF ResetPresses, Counts
  <2>3. CASE UNCHANGED pressVars
    BY <2>3 DEF pressVars, Counts
  <2>4. QED
    BY <2>1, <2>2, <2>3 DEF PressNext
<1>3. Counts => PressCeiling
  BY PressAssumption, SMT DEF Counts, PressCeiling
<1>4. QED
  BY <1>1, <1>2, <1>3, PTL DEF PressSpec
-----------------------------------------------------------------------------
(* Prices *)

(* What the variance never exceeds, far below the 32 bits of the root's input *)
Widest == 263168

(* The quotient of a division, by any divisor *)
LEMMA Quotient ==
  ASSUME NEW a \in Nat, NEW d \in Nat, d > 0
  PROVE  /\ a \div d \in Nat /\ d * (a \div d) <= a /\ a < d * (a \div d) + d
BY SMT

(* p is in 1024ths, and no less than (right + 1) / (n + 2). *)
ShareOf(n, right, p) == p \in 1..1024 /\ (n + 2) * p >= 1024 * (right + 1)

LEMMA ShareIs ==
  ASSUME NEW n \in Nat, NEW right \in Nat, n > 0, right <= n
  PROVE  ShareOf(n, right, Share(n, right))
<1> DEFINE a == right * 1024 + 1024 + n + 1
           p == a \div (n + 2)
<1>1. a \in Nat /\ n + 2 \in Nat /\ n + 2 > 0
  BY SMT
<1>2. p \in Nat /\ (n + 2) * p <= a /\ a < (n + 2) * p + (n + 2)
  <2> HIDE DEF a
  <2>1. QED
    BY <1>1, Quotient
<1>3. Share(n, right) = p
  BY DEF Share
<1>4. (n + 2) * p >= 1024 * (right + 1)
  <2> HIDE DEF p
  <2>1. QED BY <1>2, SMT
<1>5. p < 1025
  <2> SUFFICES ASSUME p >= 1025 PROVE FALSE
     BY <1>2, SMT
  <2> HIDE DEF p
  <2>1. (n + 2) * p >= (n+2) * 1025
    BY <1>1, <1>2, SMT
  <2>2. QED BY <1>2, <2>1, SMT
<1>6. p # 0
  <2> SUFFICES ASSUME p = 0 PROVE FALSE
    OBVIOUS
  <2> HIDE DEF p
  <2>1. QED BY <1>2, <1>4, SMT
<1> HIDE DEF p
<1>7. p \in 1..1024
  BY <1>2, <1>5, <1>6, SMT
<1>8. QED
  BY <1>3, <1>4, <1>7 DEF ShareOf

(* v is no less than p (1 - p) / n, in 1024ths of 1024ths. *)
VarianceOf(n, p, v) == v \in Nat /\ v <= Widest /\ n * v >= p * (1024 - p)

LEMMA VarianceIs ==
  ASSUME NEW n \in Nat, NEW p \in 0..1024, n > 0
  PROVE  VarianceOf(n, p, Variance(n, p))
<1> DEFINE b == p * (1024 - p)
           v == (b + n - 1) \div n
<1>1. b \in Nat /\ b <= 262144
  <2>1. b = 262144 - (512 - p) * (512 - p)
    BY SMT
  <2>2. (512 - p) * (512 - p) >= 0
    BY SMT
  <2>3. p \in Int /\ 1024 - p \in Nat /\ p \in Nat
    BY SMT
  <2>4. b \in Nat
    BY <2>3, SMT
  <2>5. QED
    BY <2>1, <2>2, <2>4, SMT
<1> HIDE DEF b
<1>2. v \in Nat /\ n * v <= b + n - 1 /\ b + n - 1 < n * v + n
  BY <1>1, Quotient, SMT
<1>3. Variance(n, p) = v
  BY DEF Variance, b
<1> HIDE DEF v
<1>4. v <= 263168
  <2> SUFFICES ASSUME v >= 262145 PROVE FALSE
    BY <1>2, SMT
  <2>1. n * v >= n * 262145
    BY <1>2, SMT
  <2>2. QED BY <1>1, <1>2, <2>1, SMT
<1>5. n * v >= b
  BY <1>1, <1>2, SMT
<1>6. n * Variance(n, p) >= p * (1024 - p)
  BY <1>3, <1>5 DEF b
<1>7. Variance(n, p) \in Nat /\ Variance(n, p) <= Widest
  BY <1>2, <1>3, <1>4, SMT DEF Widest
<1>8. QED
  BY <1>6, <1>7 DEF VarianceOf

-----------------------------------------------------------------------------
(* The root, two bits of its square at a time *)
Roots == [r : Nat, left : Nat, bit : Nat]

(* Before the round of width b: q is the root as far as it is known, a
   multiple of 2 b at most 2 b too small. *)
Rooted(s, v, b, q) ==
  /\ s.r = 2 * (q * b) /\ s.left = v - q * q /\ s.bit = b * b
  /\ q * q <= v /\ v < (q + 2 * b) * (q + 2 * b)

RootTo(s, v, b) == \E q \in Nat : Rooted(s, v, b, q)

(* A round leaves what a round begins with. *)
LEMMA RootTyped ==
  ASSUME NEW s \in Roots
  PROVE  RootStep(s) \in Roots
<1>1. s.r \in Nat /\ s.left \in Nat /\ s.bit \in Nat
  BY DEF Roots
<1> DEFINE r == s.r
           left == s.left
           bit == s.bit
<1> HIDE DEF r, left, bit
<1>2. /\ r \div 2 \in Nat /\ (r \div 2) + bit \in Nat /\ bit \div 4 \in Nat
      /\ r + bit <= left => left - (r + bit) \in Nat
  BY <1>1, SMT DEF r, left, bit
<1>3. RootStep(s) = IF r + bit <= left
        THEN [r |-> (r \div 2) + bit, left |-> left - (r + bit), bit |-> bit \div 4]
        ELSE [r |-> r \div 2, left |-> left, bit |-> bit \div 4]
  BY DEF RootStep, r, left, bit
<1>4. left \in Nat
  BY <1>1 DEF left
<1>5. CASE r + bit <= left
  BY <1>2, <1>3, <1>5 DEF Roots
<1>6. CASE ~(r + bit <= left)
  BY <1>2, <1>3, <1>4, <1>6 DEF Roots
<1>7. QED
  BY <1>5, <1>6

(* Every round of isqrt_up halves what the root may still be short of. *)
LEMMA RootRound ==
  ASSUME NEW s, NEW v \in Nat, NEW b \in Nat, NEW c \in Nat, b = 2 * c, RootTo(s, v, b)
  PROVE  RootTo(RootStep(s), v, c)
<1>1. PICK q \in Nat : Rooted(s, v, b, q)
  BY DEF RootTo
<1> DEFINE x == q * c
<1>2. /\ s.r = 4 * x /\ s.left = v - q * q /\ s.bit = 4 * (c * c)
      /\ q * q <= v /\ v < (q + 4 * c) * (q + 4 * c) /\ x \in Nat
  BY <1>1, SMT DEF Rooted
<1> HIDE DEF x
<1>3. (4 * x) \div 2 = 2 * x /\ (4 * (c * c)) \div 4 = c * c
  <2>1. c * c \in Nat
    BY SMT
  <2>2. QED
    BY <1>2, <2>1, SMT
<1>4. (q + 2 * c) * (q + 2 * c) = q * q + 4 * x + 4 * (c * c)
  BY SMT DEF x
<1>5. CASE s.r + s.bit <= s.left
  <2>1. RootStep(s) = [r |-> 2 * x + 4 * (c * c),
                       left |-> v - q * q - (4 * x + 4 * (c * c)), bit |-> c * c]
    BY <1>2, <1>3, <1>5 DEF RootStep
  <2>2. (q + 2 * c) * (q + 2 * c) <= v
    BY <1>2, <1>4, <1>5, SMT
  <2>3. /\ 2 * x + 4 * (c * c) = 2 * ((q + 2 * c) * c)
        /\ v - q * q - (4 * x + 4 * (c * c)) = v - (q + 2 * c) * (q + 2 * c)
        /\ q + 2 * c + 2 * c = q + 4 * c /\ q + 2 * c \in Nat
    BY <1>4, SMT DEF x
  <2>4. Rooted(RootStep(s), v, c, q + 2 * c)
    BY <1>2, <2>1, <2>2, <2>3 DEF Rooted
  <2>5. QED
    BY <2>3, <2>4 DEF RootTo
<1>6. CASE ~(s.r + s.bit <= s.left)
  <2>1. RootStep(s) = [r |-> 2 * x, left |-> v - q * q, bit |-> c * c]
    BY <1>2, <1>3, <1>6 DEF RootStep
  <2>2. v < (q + 2 * c) * (q + 2 * c)
    BY <1>2, <1>4, <1>6, SMT
  <2>3. 2 * x = 2 * (q * c)
    BY DEF x
  <2>4. Rooted(RootStep(s), v, c, q)
    BY <1>2, <2>1, <2>2, <2>3 DEF Rooted
  <2>5. QED
    BY <2>4 DEF RootTo
<1>7. QED
  BY <1>5, <1>6

(* The sixteen rounds of isqrt_up, one after the other *)
LEMMA RootRounds ==
  ASSUME NEW v \in Nat
  PROVE  \E f : /\ IsqrtUp(v) = (IF f[16].r * f[16].r < v THEN f[16].r + 1 ELSE f[16].r)
                /\ f[0] = [r |-> 0, left |-> v, bit |-> TopBit]
                /\ \A i \in 1..16 : f[i] = RootStep(f[i - 1])
<1> DEFINE first == [r |-> 0, left |-> v, bit |-> TopBit]
           F == [i \in Nat |-> [s \in Roots |-> RootStep(s)]]
           g == CHOOSE h : h = [i \in 0..16 |-> IF i = 0 THEN first ELSE RootStep(h[i - 1])]
<1>1. PICK f : Computes(f, Roots, first, F, 16)
  <2>1. IsStep(F, Roots)
    BY RootTyped DEF IsStep
  <2>2. first \in Roots
    <3>1. TopBit \in Nat
      BY SMT DEF TopBit
    <3>2. QED
      BY <3>1 DEF Roots
  <2>3. 16 \in Nat
    OBVIOUS
  <2> HIDE DEF F, first
  <2>4. QED
    BY <2>1, <2>2, <2>3, Recursion
<1>2. f \in [0..16 -> Roots] /\ f[0] = first /\ \A i \in 1..16 : f[i] = RootStep(f[i - 1])
  <2>1. f \in [0..16 -> Roots] /\ f[0] = first /\ \A i \in 1..16 : f[i] = F[i][f[i - 1]]
    BY <1>1, Zenon DEF Computes
  <2>2. ASSUME NEW i \in 1..16
        PROVE  F[i][f[i - 1]] = RootStep(f[i - 1])
    <3>1. i \in Nat /\ i - 1 \in 0..16
      BY SMT
    <3>2. f[i - 1] \in Roots
      BY <2>1, <3>1
    <3>3. QED
      BY <3>1, <3>2
  <2> HIDE DEF F, first
  <2>3. QED
    BY <2>1, <2>2
<1> HIDE DEF F, first
<1>3. f = [i \in 0..16 |-> IF i = 0 THEN first ELSE RootStep(f[i - 1])]
  <2>1. ASSUME NEW i \in 0..16
        PROVE  f[i] = IF i = 0 THEN first ELSE RootStep(f[i - 1])
    BY <1>2, SMT
  <2>2. QED
    BY <1>2, <2>1
<1>4. g = [i \in 0..16 |-> IF i = 0 THEN first ELSE RootStep(g[i - 1])]
  BY <1>3
<1>5. IsqrtUp(v) = IF g[16].r * g[16].r < v THEN g[16].r + 1 ELSE g[16].r
  BY DEF IsqrtUp, first
<1>6. g[0] = first /\ \A i \in 1..16 : g[i] = RootStep(g[i - 1])
  <2> HIDE DEF g
  <2>1. QED
    BY <1>4, SMT
<1>7. QED
  BY <1>5, <1>6 DEF first

(* isqrt_up gives the smallest number whose square is no less than v. *)
LEMMA RootRoundsUp ==
  ASSUME NEW v \in Nat, v <= Widest
  PROVE  /\ IsqrtUp(v) \in Nat
         /\ IsqrtUp(v) * IsqrtUp(v) >= v
         /\ IsqrtUp(v) > 0 => (IsqrtUp(v) - 1) * (IsqrtUp(v) - 1) < v
<1>1. PICK f : /\ IsqrtUp(v) = (IF f[16].r * f[16].r < v THEN f[16].r + 1 ELSE f[16].r)
               /\ f[0] = [r |-> 0, left |-> v, bit |-> TopBit]
               /\ \A i \in 1..16 : f[i] = RootStep(f[i - 1])
  BY RootRounds
<1>2. RootTo(f[0], v, 32768)
  <2>1. Rooted(f[0], v, 32768, 0)
    <3>1. f[0].r = 0 /\ f[0].left = v /\ f[0].bit = TopBit
      BY <1>1
    <3>2. TopBit = 32768 * 32768 /\ v < (0 + 2 * 32768) * (0 + 2 * 32768)
      BY SMT DEF TopBit, Widest
    <3>3. QED
      BY <3>1, <3>2, SMT DEF Rooted
  <2>2. QED
    BY <2>1 DEF RootTo
<1>3. ASSUME NEW i \in 1..16, NEW b \in Nat, NEW c \in Nat, b = 2 * c, RootTo(f[i - 1], v, b)
      PROVE  RootTo(f[i], v, c)
  BY <1>1, <1>3, RootRound
<1>4. RootTo(f[4], v, 2048)
  <2>1. RootTo(f[1], v, 16384)
    BY <1>2, <1>3, SMT
  <2>2. RootTo(f[2], v, 8192)
    BY <2>1, <1>3, SMT
  <2>3. RootTo(f[3], v, 4096)
    BY <2>2, <1>3, SMT
  <2>4. QED
    BY <2>3, <1>3, SMT
<1>5. RootTo(f[8], v, 128)
  <2>1. RootTo(f[5], v, 1024)
    BY <1>4, <1>3, SMT
  <2>2. RootTo(f[6], v, 512)
    BY <2>1, <1>3, SMT
  <2>3. RootTo(f[7], v, 256)
    BY <2>2, <1>3, SMT
  <2>4. QED
    BY <2>3, <1>3, SMT
<1>6. RootTo(f[12], v, 8)
  <2>1. RootTo(f[9], v, 64)
    BY <1>5, <1>3, SMT
  <2>2. RootTo(f[10], v, 32)
    BY <2>1, <1>3, SMT
  <2>3. RootTo(f[11], v, 16)
    BY <2>2, <1>3, SMT
  <2>4. QED
    BY <2>3, <1>3, SMT
<1>7. RootTo(f[15], v, 1)
  <2>1. RootTo(f[13], v, 4)
    BY <1>6, <1>3, SMT
  <2>2. RootTo(f[14], v, 2)
    BY <2>1, <1>3, SMT
  <2>4. QED
    BY <2>2, <1>3, SMT
<1>8. PICK q \in Nat : f[16].r = q /\ q * q <= v /\ v < (q + 1) * (q + 1)
  <2>1. PICK q \in Nat : Rooted(f[15], v, 1, q)
    BY <1>7 DEF RootTo
  <2>2. f[16] = RootStep(f[15])
    BY <1>1, SMT
  <2> DEFINE s == f[15]
  <2>3. /\ s.r = 2 * q /\ s.left = v - q * q /\ s.bit = 1
        /\ q * q <= v /\ v < (q + 2) * (q + 2) /\ (2 * q) \div 2 = q
    BY <2>1, SMT DEF Rooted
  <2> HIDE DEF s
  <2>4. CASE s.r + s.bit <= s.left
    <3>1. f[16].r = q + 1
      BY <2>2, <2>3, <2>4 DEF RootStep, s
    <3>2. (q + 1) * (q + 1) <= v /\ q + 1 \in Nat /\ q + 1 + 1 = q + 2
      BY <2>3, <2>4, SMT
    <3>3. QED
      BY <2>3, <3>1, <3>2
  <2>5. CASE ~(s.r + s.bit <= s.left)
    <3>1. f[16].r = q
      BY <2>2, <2>3, <2>5 DEF RootStep, s
    <3>2. v < (q + 1) * (q + 1)
      BY <2>3, <2>5, SMT
    <3>3. QED
      BY <2>3, <3>1, <3>2
  <2>6. QED
    BY <2>4, <2>5
<1>9. IsqrtUp(v) = IF q * q < v THEN q + 1 ELSE q
  BY <1>1, <1>8
<1> DEFINE u == IsqrtUp(v)
<1>10. u = IF q * q < v THEN q + 1 ELSE q
  BY <1>9
<1> HIDE DEF u
<1>11. CASE q * q < v
  BY <1>8, <1>10, <1>11, SMT DEF u
<1>12. CASE ~(q * q < v)
  <2>1. u = q /\ q * q = v
    BY <1>8, <1>10, <1>12, SMT
  <2>2. q > 0 => (q - 1) * (q - 1) < q * q
    <3>1. (q - 1) * (q - 1) = q * q - 2 * q + 1
      BY SMT
    <3>2. QED
      BY <3>1, SMT
  <2>3. QED
    BY <2>1, <2>2 DEF u
<1>13. QED
  BY <1>11, <1>12

-----------------------------------------------------------------------------
(* The table never rises. *)
LEMMA PaysLessLater ==
  \A i, j \in 1..33 : i <= j => /\ CreditForP[i] \in Nat /\ CreditForP[j] \in Nat
                                /\ CreditForP[j] <= CreditForP[i]
<1>1. \A i \in 1..33 : CreditForP[i] \in Nat
  BY SMT DEF CreditForP
<1>2. \A i \in 1..32 : CreditForP[i + 1] <= CreditForP[i]
  BY SMT DEF CreditForP
<1> DEFINE Later(m) == \A i, j \in 1..33 : j = i + m => CreditForP[j] <= CreditForP[i]
           T == {m \in Nat : Later(m)}
<1>3. 0 \in T
  BY <1>1, SMT
<1>4. ASSUME NEW m \in T
      PROVE  m + 1 \in T
  <2>1. ASSUME NEW i \in 1..33, NEW j \in 1..33, j = i + (m + 1)
        PROVE  CreditForP[j] <= CreditForP[i]
    <3>1. j - 1 \in 1..33 /\ j - 1 = i + m /\ j - 1 \in 1..32 /\ (j - 1) + 1 = j
      BY <2>1, SMT
    <3>2. CreditForP[j - 1] <= CreditForP[i]
      BY <3>1
    <3>3. CreditForP[j] <= CreditForP[j - 1]
      BY <1>2, <3>1
    <3> DEFINE x == CreditForP[i]
               y == CreditForP[j - 1]
               z == CreditForP[j]
    <3>4. x \in Nat /\ y \in Nat /\ z \in Nat /\ y <= x /\ z <= y
      BY <1>1, <3>1, <3>2, <3>3
    <3> HIDE DEF x, y, z
    <3>5. z <= x
      BY <3>4, SMT
    <3>6. QED
      BY <3>5 DEF x, z
  <2>2. Later(m + 1)
    BY <2>1
  <2>3. QED
    BY <2>2, SMT
<1>5. T = Nat
  <2>1. T \in SUBSET Nat
    OBVIOUS
  <2> HIDE DEF T
  <2>2. QED
    BY <1>3, <1>4, <2>1, Induction
<1>6. ASSUME NEW i \in 1..33, NEW j \in 1..33, i <= j
      PROVE  CreditForP[j] <= CreditForP[i]
  <2>1. j - i \in Nat /\ j = i + (j - i)
    BY <1>6, SMT
  <2>2. QED
    BY <1>5, <2>1
<1>7. QED
  BY <1>1, <1>6

(* 15625 e / 1024 in two steps, as Reaches has it, loses nothing. *)
LEMMA WholeOf ==
  ASSUME NEW e \in Nat, NEW t \in Nat, 15625 * e >= 1024 * t
  PROVE  (e \div 1024) * 15625 + ((e % 1024) * 15625) \div 1024 >= t
<1> DEFINE q == e \div 1024
           m == e % 1024
           x == (m * 15625) \div 1024
<1>1. q \in Nat /\ m \in 0..1023 /\ e = 1024 * q + m
  BY SMT
<1> HIDE DEF q, m
<1>2. x \in Nat /\ m * 15625 < 1024 * x + 1024
  BY <1>1, SMT
<1> HIDE DEF x
<1>3. q * 15625 + x >= t
  BY <1>1, <1>2, SMT
<1>4. QED
  BY <1>3 DEF q, m, x

(* In 1024ths: s is no less than the root of p a / n, w no less than 2.576 s,
   the record is X / N, which p rounds up, and D is N times how far above that
   record the bound p + w, or more, is. *)
Bounds(n, p, a, s, w, N, X, D) ==
  /\ n * (s * s) >= p * a /\ 125 * w >= 322 * s /\ w < a
  /\ N * p >= X /\ D >= w * N + (N * p - X)

(* D / N is at least 2.576 standard deviations of the record X / N itself. *)
FarEnough(n, p, a, N, X, D) ==
  (15625 * n) * (D * D) >= 103684 * (X * ((p + a) * N - X))

(* Rounding p up may make its deviation smaller than the record's own, but what
   the deviation loses is less than the way from X / N to p. *)
LEMMA BoundHolds ==
  ASSUME NEW n \in Nat, NEW p \in Nat, NEW a \in Nat, NEW s \in Nat, NEW w \in Nat,
         NEW N \in Nat, NEW X \in Nat, NEW D \in Nat, Bounds(n, p, a, s, w, N, X, D)
  PROVE  FarEnough(n, p, a, N, X, D)
<1>0. /\ n * (s * s) >= p * a /\ 125 * w >= 322 * s /\ w < a
      /\ N * p >= X /\ D >= w * N + (N * p - X)
  BY DEF Bounds
<1> DEFINE L == 15625 * n
           K == 103684
           e == N * p - X
<1>1. L * (w * w) >= K * (p * a)
  <2>1. (125 * w) * (125 * w) >= (322 * s) * (322 * s)
    <3> DEFINE y == 125 * w
               z == 322 * s
    <3>1. y \in Nat /\ z \in Nat /\ y >= z
      BY <1>0, SMT
    <3> HIDE DEF y, z
    <3>2. y * y >= z * z
      BY <3>1, SMT
    <3>3. QED
      BY <3>2 DEF y, z
  <2> DEFINE W == w * w
             S == s * s
  <2>2. W \in Nat /\ S \in Nat /\ 15625 * W >= 103684 * S
    BY <2>1, SMT
  <2> DEFINE P == p * a
  <2>3. n * S >= P /\ P \in Nat
    BY <1>0, SMT
  <2> HIDE DEF W, S, P
  <2>4. n * (15625 * W) >= n * (103684 * S)
    BY <2>2, SMT
  <2>5. (15625 * n) * W >= 103684 * P
    BY <2>2, <2>3, <2>4, SMT
  <2>6. QED
    BY <2>5 DEF W, P
<1>2. L * w >= K * p
  <2> SUFFICES ASSUME L * w < K * p
               PROVE  FALSE
    BY SMT
  <2> DEFINE x == L * w
             y == K * p
  <2>1. x \in Nat /\ y \in Nat /\ x + 1 <= y
    BY SMT
  <2>2. x * w >= y * a
    <3>1. x * w = L * (w * w) /\ y * a = K * (p * a)
      BY SMT
    <3>2. QED
      BY <1>1, <3>1
  <2> HIDE DEF x, y
  <2>3. x * w <= x * a
    BY <1>0, <2>1, SMT
  <2>4. y * a >= (x + 1) * a
    BY <2>1, SMT
  <2>5. QED
    BY <1>0, <2>1, <2>2, <2>3, <2>4, SMT
<1>3. e \in Nat /\ X = N * p - e /\ (p + a) * N - X = N * a + e
  BY <1>0, SMT
<1> HIDE DEF e
<1>4. X * ((p + a) * N - X) <= (p * a) * (N * N) + (p * N) * e
  <2>1. (N * p - e) * (N * a + e)
          = (p * a) * (N * N) + (p * N) * e - e * (N * a) - e * e
    BY <1>3, SMT
  <2>2. e * (N * a) >= 0 /\ e * e >= 0
    BY <1>3, SMT
  <2>3. X * ((p + a) * N - X) = (N * p - e) * (N * a + e)
    BY <1>3, Zenon
  <2> DEFINE A == X * ((p + a) * N - X)
             B == (p * a) * (N * N)
             C == (p * N) * e
             F == e * (N * a)
             G == e * e
  <2>4. /\ A = B + C - F - G /\ F >= 0 /\ G >= 0
        /\ A \in Int /\ B \in Int /\ C \in Int /\ F \in Int /\ G \in Int
    <3>1. A \in Int /\ B \in Int /\ C \in Int /\ F \in Int /\ G \in Int
      BY <1>3, SMT
    <3>2. QED
      BY <2>1, <2>2, <2>3, <3>1
  <2> HIDE DEF A, B, C, F, G
  <2>5. A <= B + C
    BY <2>4, SMT
  <2>6. QED
    BY <2>5 DEF A, B, C
<1>5. L * (D * D) >= L * ((w * N + e) * (w * N + e))
  <2> DEFINE y == w * N + e
  <2>1. y \in Nat /\ D >= y
    BY <1>0, <1>3, SMT DEF e
  <2>2. L \in Nat
    BY SMT
  <2> HIDE DEF y, L
  <2>3. D * D >= y * y
    BY <2>1, SMT
  <2>4. L * (D * D) >= L * (y * y)
    BY <2>1, <2>2, <2>3, SMT
  <2>5. QED
    BY <2>4 DEF y
<1>6. (w * N + e) * (w * N + e) = (w * w) * (N * N) + 2 * ((w * N) * e) + e * e
  BY <1>3, SMT
<1>7. QED
  <2> DEFINE A == X * ((p + a) * N - X)
             W == w * w
             P == p * a
             Q == N * N
             R == N * e
             G == e * e
             H == D * D
  <2>1. /\ L \in Nat /\ W \in Nat /\ P \in Nat /\ Q \in Nat /\ R \in Nat /\ G \in Nat
        /\ H \in Nat /\ A \in Int
    BY <1>3, SMT
  <2>2. L * H >= L * (W * Q + 2 * (w * R) + G)
    <3>1. (w * N) * e = w * R
      BY <1>3, SMT
    <3>2. QED
      BY <1>5, <1>6, <3>1
  <2>3. A <= P * Q + p * R
    <3>1. (p * N) * e = p * R
      BY <1>3, SMT
    <3>2. QED
      BY <1>4, <3>1
  <2> HIDE DEF L, A, W, P, Q, R, G, H
  <2>4. L * W >= K * P /\ L * w >= K * p
    BY <1>1, <1>2 DEF W, P
  <2>5. (L * W) * Q >= (K * P) * Q /\ (L * w) * R >= (K * p) * R
    <3> DEFINE x == L * W
               y == K * P
               g == L * w
               h == K * p
    <3>1. x \in Nat /\ y \in Nat /\ g \in Nat /\ h \in Nat /\ x >= y /\ g >= h
      BY <2>1, <2>4, SMT
    <3> HIDE DEF x, y, g, h
    <3>2. x * Q >= y * Q /\ g * R >= h * R
      BY <2>1, <3>1, SMT
    <3>3. QED
      BY <3>2 DEF x, y, g, h
  <2>6. L * (W * Q + 2 * (w * R) + G) = (L * W) * Q + 2 * ((L * w) * R) + L * G
    BY <2>1, SMT
  <2>7. K * (P * Q + p * R) = (K * P) * Q + (K * p) * R
    BY <2>1, SMT
  <2>8. L * G >= 0 /\ (L * w) * R >= 0
    BY <2>1, SMT
  <2>9. K * A <= K * (P * Q + p * R)
    BY <2>1, <2>3, SMT
  <2>10. L * H >= K * A
    <3> DEFINE a1 == L * H
               a2 == L * (W * Q + 2 * (w * R) + G)
               a3 == (L * W) * Q
               a4 == (L * w) * R
               a5 == L * G
               b1 == K * A
               b2 == K * (P * Q + p * R)
               b3 == (K * P) * Q
               b4 == (K * p) * R
    <3>1. /\ a1 \in Int /\ a2 \in Int /\ a3 \in Int /\ a4 \in Int /\ a5 \in Int
          /\ b1 \in Int /\ b2 \in Int /\ b3 \in Int /\ b4 \in Int
      BY <2>1, SMT
    <3>2. /\ a1 >= a2 /\ a2 = a3 + 2 * a4 + a5 /\ a3 >= b3 /\ a4 >= b4 /\ a4 >= 0 /\ a5 >= 0
          /\ b1 <= b2 /\ b2 = b3 + b4
      BY <2>2, <2>5, <2>6, <2>7, <2>8, <2>9
    <3> HIDE DEF a1, a2, a3, a4, a5, b1, b2, b3, b4
    <3>3. a1 >= b1
      BY <3>1, <3>2, SMT
    <3>4. QED
      BY <3>3 DEF a1, b1
  <2>11. QED
    BY <2>10 DEF FarEnough, L, H, A

(* Every thirty-second above the bound reaches. *)
LEMMA BoundReaches ==
  ASSUME NEW n \in Nat, NEW right \in Nat, n > 0, right <= n, NEW k \in Nat,
         UpperBound(n, right) < 1024, 32 * k >= UpperBound(n, right)
  PROVE  Reaches(n, right, k)
<1> DEFINE p == Share(n, right)
           v == Variance(n, p)
           s == IsqrtUp(v)
           w == (2576 * s + 999) \div 1000
           N == n + 2
           a == 1024 - p
           X == 1024 * (right + 1)
           d == k * N - 32 * (right + 1)
           D == 32 * k * N - X
<1>1. p \in 1..1024 /\ N * p >= X
  <2>1. ShareOf(n, right, Share(n, right))
    BY ShareIs
  <2>2. QED
    BY <2>1 DEF ShareOf
<1>2. p \in Nat /\ a \in Nat /\ p + a = 1024 /\ p \in 0..1024
  BY <1>1, SMT
<1>3. v \in Nat /\ v <= Widest /\ n * v >= p * a
  <2>1. p \in 0..1024
    BY <1>2
  <2> HIDE DEF p
  <2>2. VarianceOf(n, p, Variance(n, p))
    BY <2>1, VarianceIs
  <2>3. QED
    BY <2>2 DEF VarianceOf
<1>4. s \in Nat /\ s * s >= v
  <2> HIDE DEF v
  <2>1. QED
    BY <1>3, RootRoundsUp
<1>5. UpperBound(n, right) = IF p + w > 1024 THEN 1024 ELSE p + w
  BY DEF UpperBound
<1> HIDE DEF p, v, s
<1>6. w \in Nat /\ 1000 * w >= 2576 * s
  BY <1>4, SMT
<1> HIDE DEF w
<1>7. p + w < 1024 /\ 32 * k >= p + w
  BY <1>2, <1>5, <1>6, SMT
<1>8. 125 * w >= 322 * s /\ w < a
  BY <1>4, <1>6, <1>7, <1>2, SMT
<1>9. n * (s * s) >= p * a
  <2> DEFINE S == s * s
             P == p * a
  <2>1. S \in Nat /\ P \in Nat /\ S >= v /\ n * v >= P
    BY <1>2, <1>3, <1>4, SMT
  <2> HIDE DEF S, P
  <2>2. n * S >= n * v
    BY <1>3, <2>1, SMT
  <2>3. n * S >= P
    BY <1>3, <2>1, <2>2, SMT
  <2>4. QED
    BY <2>3 DEF S, P
<1>10. N \in Nat /\ X \in Nat /\ N * p \in Nat
  BY <1>2, SMT
<1>11. (32 * k) * N >= w * N + N * p
  <2> DEFINE z == 32 * k
  <2>1. z \in Nat /\ z >= p + w
    BY <1>7, SMT
  <2> HIDE DEF z, N
  <2>2. z * N >= (p + w) * N
    BY <1>2, <1>6, <1>10, <2>1, SMT
  <2>3. (p + w) * N = w * N + N * p
    BY <1>2, <1>6, <1>10, SMT
  <2>4. QED
    BY <2>2, <2>3 DEF z
<1>12. D \in Nat /\ D >= w * N + (N * p - X) /\ D = 32 * d /\ d \in Nat
  <2>1. d \in Int /\ D = 32 * d
    BY SMT
  <2> DEFINE g == w * N
             h == N * p
             z == 32 * k * N
  <2>2. g \in Nat /\ h \in Nat /\ z \in Nat /\ z >= g + h /\ h >= X /\ D = z - X
    BY <1>1, <1>6, <1>10, <1>11, SMT
  <2> HIDE DEF g, h, z, X, D, d
  <2>3. D \in Nat /\ D >= g + (h - X)
    BY <1>10, <2>2, SMT
  <2>4. d \in Nat
    BY <2>1, <2>3, SMT
  <2>5. QED
    BY <2>1, <2>3, <2>4 DEF g, h
<1> HIDE DEF N, a, X, D
<1>13. (15625 * n) * (D * D) >= 103684 * (X * ((p + a) * N - X))
  <2>1. Bounds(n, p, a, s, w, N, X, D)
    BY <1>1, <1>8, <1>9, <1>12 DEF Bounds
  <2>2. /\ n \in Nat /\ p \in Nat /\ a \in Nat /\ s \in Nat /\ w \in Nat
        /\ N \in Nat /\ X \in Nat /\ D \in Nat
    BY <1>2, <1>4, <1>6, <1>10, <1>12
  <2> HIDE DEF d
  <2>4. FarEnough(n, p, a, N, X, D)
    BY <2>1, <2>2, BoundHolds, Zenon
  <2>3. QED
    BY <2>4 DEF FarEnough
<1> HIDE DEF d
<1> DEFINE t == 103684 * ((right + 1) * (n + 1 - right))
           e == d * d * n
<1>14. (p + a) * N - X = 1024 * (n + 1 - right) /\ X = 1024 * (right + 1)
  <2>1. (p + a) * N - X = 1024 * N - X
    BY <1>2
  <2>2. QED
    BY <2>1, SMT DEF N, X
<1>15. t \in Nat /\ e \in Nat
  <2>1. n + 1 - right \in Nat /\ right + 1 \in Nat
    BY SMT
  <2>2. (right + 1) * (n + 1 - right) \in Nat
    BY <2>1, SMT
  <2>3. QED
    BY <1>12, <2>2, SMT
<1>16. 15625 * e >= 1024 * t
  <2> DEFINE Y == (right + 1) * (n + 1 - right)
  <2>1. (15625 * n) * (D * D) = 1024 * (15625 * e)
    BY <1>12, SMT
  <2>2. X * ((p + a) * N - X) = 1024 * (1024 * Y)
    <3>1. X * ((p + a) * N - X) = (1024 * (right + 1)) * (1024 * (n + 1 - right))
      BY <1>14
    <3>2. (1024 * (right + 1)) * (1024 * (n + 1 - right)) = 1024 * (1024 * Y)
      BY SMT
    <3>3. QED
      BY <3>1, <3>2
  <2>3. Y \in Nat
    <3>1. n + 1 - right \in Nat /\ right + 1 \in Nat
      BY SMT
    <3>2. QED
      BY <3>1, SMT
  <2> HIDE DEF e, Y
  <2>4. 1024 * (15625 * e) >= 103684 * (1024 * (1024 * Y))
    BY <1>13, <2>1, <2>2
  <2>5. 15625 * e >= 1024 * (103684 * Y)
    BY <1>15, <2>3, <2>4, SMT
  <2>6. QED
    BY <2>5 DEF Y
<1> HIDE DEF t, e
<1>17. (e \div 1024) * 15625 + ((e % 1024) * 15625) \div 1024 >= t
  BY <1>15, <1>16, WholeOf
<1>18. d >= 0
  BY <1>12, SMT
<1>19. QED
  BY <1>17, <1>18 DEF Reaches, d, e, t, N

(* The row of the table is a thirty-second above the bound. *)
RowOf(u, row) ==
  u \in 0..1024 /\ row \in 0..32 /\ 32 * row >= u /\ (u = 1024 => row = 32)

LEMMA RowIs ==
  ASSUME NEW n \in Nat, NEW right \in Nat, n > 0, right <= n
  PROVE  RowOf(UpperBound(n, right), Row(n, right))
<1> DEFINE p == Share(n, right)
           v == Variance(n, p)
           s == IsqrtUp(v)
           w == (2576 * s + 999) \div 1000
           u == UpperBound(n, right)
<1>1. p \in 0..1024
  <2>1. ShareOf(n, right, Share(n, right))
    BY ShareIs
  <2>2. p \in 1..1024
    BY <2>1 DEF ShareOf
  <2> HIDE DEF p
  <2>3. QED
    BY <2>2, SMT
<1>2. v \in Nat /\ v <= Widest
  <2>1. VarianceOf(n, p, Variance(n, p))
    BY <1>1, VarianceIs
  <2>2. QED
    BY <2>1 DEF VarianceOf
<1>3. s \in Nat
  <2> HIDE DEF v
  <2>1. QED
    BY <1>2, RootRoundsUp
<1>4. u = IF p + w > 1024 THEN 1024 ELSE p + w
  BY DEF UpperBound
<1> HIDE DEF p, v, s
<1>5. w \in Nat
  BY <1>3, SMT
<1> HIDE DEF w, u
<1>6. u \in 0..1024
  BY <1>1, <1>4, <1>5, SMT
<1>7. Row(n, right) = (u + 31) \div 32
  BY DEF Row, u
<1>8. (u + 31) \div 32 \in 0..32 /\ 32 * ((u + 31) \div 32) >= u
      /\ u = 1024 => (u + 31) \div 32 = 32
  BY <1>6, SMT
<1>9. QED
  BY <1>6, <1>7, <1>8 DEF RowOf, u

(* No record is better than the turns it was made over. *)
Recorded ==
  counted \in Nat /\ guessed \in 0..counted /\ hits \in [Predictors -> 0..counted]

(* Of every sweep, whoever foresaw what. *)
LEMMA RecordedHolds == PriceSpec => []Recorded
<1>1. PriceInit => Recorded
  BY SMT DEF PriceInit, Recorded
<1>2. Recorded /\ [PriceNext]_priceVars => Recorded'
  <2> SUFFICES ASSUME Recorded, [PriceNext]_priceVars
               PROVE  Recorded'
    OBVIOUS
  <2>1. ASSUME NEW foreseen \in BOOLEAN, NEW right \in SUBSET Predictors, CountOne(foreseen, right)
        PROVE  Recorded'
    <3>1. counted' \in Nat /\ guessed' \in 0..counted'
      BY <2>1, SMT DEF CountOne, Recorded
    <3>2. ASSUME NEW j \in Predictors
          PROVE  (IF j \in right THEN hits[j] + 1 ELSE hits[j]) \in 0..counted'
      <4>1. hits[j] \in 0..counted /\ counted \in Nat /\ counted' = counted + 1
        BY <2>1 DEF CountOne, Recorded
      <4>2. hits[j] \in 0..counted' /\ hits[j] + 1 \in 0..counted'
        BY <4>1, SMT
      <4>3. QED
        BY <4>2
    <3>3. hits' \in [Predictors -> 0..counted']
      BY <2>1, <3>2 DEF CountOne
    <3>4. QED
      BY <3>1, <3>3 DEF Recorded
  <2>2. CASE UNCHANGED priceVars
    BY <2>2 DEF priceVars, Recorded
  <2>3. QED
    BY <2>1, <2>2 DEF PriceNext
<1>3. QED
  BY <1>1, <1>2, PTL DEF PriceSpec

(* The best record is one of those there are, and no better than them. *)
LEMMA BestIs ==
  ASSUME Recorded
  PROVE  counted \in Nat /\ BestRecord \in Nat /\ BestRecord <= counted
<1> DEFINE T == {guessed} \cup {hits[j] : j \in Predictors}
<1>1. counted \in Nat /\ T # {} /\ \A r \in T : r \in Nat /\ r <= counted
  <2>1. guessed \in Nat /\ guessed <= counted /\ counted \in Nat
    BY SMT DEF Recorded
  <2>2. ASSUME NEW j \in Predictors
        PROVE  hits[j] \in Nat /\ hits[j] <= counted
    BY SMT DEF Recorded
  <2>3. QED
    BY <2>1, <2>2
<1>2. \E r \in T : \A t \in T : t <= r
  <2> HIDE DEF T
  <2>1. T \in SUBSET Nat
    BY <1>1
  <2>2. QED
    BY <1>1, <2>1, GreatestOfNat
<1>3. PICK r \in T : \A t \in T : t <= r
  BY <1>2
<1>4. r >= guessed /\ \A j \in Predictors : r >= hits[j]
  <2>1. \A t \in T : r >= t
    BY <1>1, <1>3, SMT
  <2>2. QED
    BY <2>1
<1>5. BestRecord \in T
  BY <1>4 DEF BestRecord
<1>6. QED
  BY <1>1, <1>5

(* The arithmetic of a price is exact (entropy.c: credit and isqrt_up), for
   every number of turns: the share fits its 1024ths, so its complement does
   not wrap; the root is the smallest whose square reaches the variance; and
   the table is read within its 33 entries. *)
THEOREM PriceExactHolds == PriceSpec => []PriceExact
<1>1. Recorded => PriceExact
  <2> SUFFICES ASSUME Recorded, counted > 0
               PROVE  /\ Share(counted, BestRecord) \in 0..1024
                      /\ Row(counted, BestRecord) \in 0..32
                      /\ LET v == Variance(counted, Share(counted, BestRecord))
                             r == IsqrtUp(v)
                         IN r * r >= v /\ (r > 0 => (r - 1) * (r - 1) < v)
    BY DEF PriceExact, NeverWraps, RootExact
  <2>1. PICK n \in Nat, right \in Nat : n = counted /\ right = BestRecord /\ n > 0 /\ right <= n
    BY BestIs
  <2> DEFINE p == Share(n, right)
             v == Variance(n, p)
  <2>2. ShareOf(n, right, Share(n, right))
    BY <2>1, ShareIs
  <2>3. p \in 1..1024
    BY <2>2 DEF ShareOf
  <2>4. p \in 0..1024
    <3> HIDE DEF p
    <3>1. QED
      BY <2>3, SMT
  <2>5. VarianceOf(n, p, Variance(n, p))
    <3> HIDE DEF p
    <3>1. QED
      BY <2>1, <2>4, VarianceIs
  <2>6. v \in Nat /\ v <= Widest
    BY <2>5 DEF VarianceOf
  <2>7. IsqrtUp(v) * IsqrtUp(v) >= v /\ (IsqrtUp(v) > 0 => (IsqrtUp(v) - 1) * (IsqrtUp(v) - 1) < v)
    <3> HIDE DEF v
    <3>1. QED
      BY <2>6, RootRoundsUp
  <2>8. Row(n, right) \in 0..32
    <3>1. RowOf(UpperBound(n, right), Row(n, right))
      BY <2>1, RowIs
    <3>2. QED
      BY <3>1 DEF RowOf
  <2>9. QED
    BY <2>1, <2>4, <2>7, <2>8
<1>2. QED
  BY <1>1, RecordedHolds, PTL

(* Every rounding goes against the count, for every number of turns and every
   record: no turn pays more than the table gives for the first thirty-second
   above the 99% bound of its record, worked out without a rounding.  This is the comment above
   credit, whose roundings of p and of the spread pull against each other. *)
THEOREM RoundsAgainstHolds == PriceSpec => []RoundsAgainst
<1>1. Recorded => RoundsAgainst
  <2> SUFFICES ASSUME Recorded, counted > 0, NEW k \in 0..32,
                      k = 0 \/ ~Reaches(counted, BestRecord, k - 1)
               PROVE  Credit(counted, BestRecord) <= CreditForP[k + 1]
    BY DEF RoundsAgainst
  <2>1. PICK n \in Nat, right \in Nat : n = counted /\ right = BestRecord /\ n > 0 /\ right <= n
    BY BestIs
  <2> DEFINE row == Row(n, right)
             u == UpperBound(n, right)
  <2>2. row \in 0..32 /\ u \in 0..1024 /\ 32 * row >= u /\ (u = 1024 => row = 32)
    <3>1. RowOf(UpperBound(n, right), Row(n, right))
      BY <2>1, RowIs
    <3>2. QED
      BY <3>1 DEF RowOf
  <2>3. k <= row
    <3> SUFFICES ASSUME row < k
                 PROVE  FALSE
      <4> HIDE DEF row
      <4>1. QED
        BY <2>2, SMT
    <3>1. k # 0 /\ k - 1 \in Nat /\ u < 1024 /\ 32 * (k - 1) >= u
      <4> HIDE DEF row, u
      <4>1. QED
        BY <2>2, SMT
    <3>2. Reaches(n, right, k - 1)
      <4> DEFINE j == k - 1
      <4>1. j \in Nat /\ u < 1024 /\ 32 * j >= u
        BY <3>1
      <4> HIDE DEF j
      <4>2. Reaches(n, right, j)
        BY <2>1, <4>1, BoundReaches
      <4>3. QED
        BY <4>2 DEF j
    <3>3. QED
      BY <2>1, <3>1, <3>2
  <2> HIDE DEF row
  <2>4. k + 1 \in 1..33 /\ row + 1 \in 1..33 /\ k + 1 <= row + 1
    BY <2>2, <2>3, SMT
  <2> DEFINE x == CreditForP[k + 1]
             y == CreditForP[row + 1]
  <2>5. x \in Nat /\ y \in Nat /\ y <= x
    BY <2>4, PaysLessLater
  <2>6. Credit(n, right) = IF y < CAP THEN y ELSE CAP
    BY DEF Credit, row
  <2> HIDE DEF x, y
  <2>7. Credit(n, right) <= x
    BY <2>5, <2>6, PriceAssumption, SMT
  <2>8. QED
    BY <2>1, <2>7 DEF x
<1>2. QED
  BY <1>1, RecordedHolds, PTL
-----------------------------------------------------------------------------
(* The guesses.  A hand that repeats a pattern is called by the lag of the
   pattern's length from its second round on, and every turn called takes that
   lag's record nearer to the fullest there is.  When it is there the winner has
   a full record too; and a lag that has one, its own or a shorter one, has
   called the whole last round and so calls the next.  Nothing is asked of the
   other predictors, nor of what the hand did before. *)

(* The fullest record, eight times what a hit adds, and how far short of it one
   can be after so many turns called in a row: each takes away an eighth of
   what is missing, rounded up. *)
Full == 2048

Short == <<2048, 1792, 1568, 1372, 1200, 1050, 918, 803, 702, 614, 537, 469, 410, 358, 313,
           273, 238, 208, 182, 159, 139, 121, 105, 91, 79, 69, 60, 52, 45, 39, 34, 29, 25,
           21, 18, 15, 13, 11, 9, 7, 6, 5, 4, 3, 2, 1, 0>>

Period == Len(hand.does)

(* The turn the pattern has after m others, and that the lag j calls it *)
Nth(m) == hand.does[(m % Period) + 1]
Agrees(j, m) == m >= j => Nth(m - j) = Nth(m)

GuessTyped ==
  /\ turns \in Seq(Turnings) /\ Len(turns) <= RING
  /\ score \in [Predictor -> 0..Full]
  /\ hand \in [does : Patterns, swap : Nat, then : Patterns, made : Nat]

(* The ring holds the hand's last four turns, *)
Remembers ==
  \A k \in 1..4 : k <= hand.made => k <= Len(turns) /\ Back(k) = Nth(hand.made - k)

(* the lag of the pattern's length has a record of turns called in a row, *)
Climbs ==
  \A k \in 0..46 : hand.made >= Period + k => score[Period] >= Full - Short[k + 1]

(* a lag within four of a full record has called that many turns in a row, *)
Streaks ==
  \A i, j \in 1..4 : score[j] >= Full - 4 + i =>
    \A k \in 1..i : k <= hand.made => Agrees(j, hand.made - k)

(* and so the pattern is called from its turn 51 on: four turns to see it once,
   forty-six to fill a record. *)
CaughtIn50 == hand.made > 50 => called

GuessInv == GuessTyped /\ Remembers /\ Climbs /\ Streaks /\ CaughtIn50

(* A pattern is a sequence of one to four turns. *)
LEMMA PatternIs ==
  ASSUME MaxPeriod \in 1..4, NEW p \in Patterns
  PROVE  p \in Seq(Turnings) /\ Len(p) \in 1..4
<1>1. PICK m \in 0..MaxPeriod : p \in [1..m -> Turnings]
  BY DEF Patterns, BoundedSeq, SeqOf
<1>2. m \in Nat
  BY SMT
<1>3. p \in Seq(Turnings) /\ Len(p) = m
  BY <1>1, <1>2, SMT
<1>4. p # <<>>
  BY DEF Patterns
<1>5. m # 0
  BY <1>3, <1>4, EmptySeq
<1>6. QED
  BY <1>3, <1>5, SMT

(* The hand's pattern repeats. *)
LEMMA NthRepeats ==
  ASSUME MaxPeriod \in 1..4, hand.does \in Patterns, NEW m \in Nat, m >= Period
  PROVE  Nth(m - Period) = Nth(m)
<1>1. Len(hand.does) \in 1..4
  BY PatternIs
<1>2. Period \in Nat \ {0}
  <2>1. \A n \in 1..4 : n \in Nat \ {0}
    BY SMT
  <2>2. QED
    BY <1>1, <2>1 DEF Period
<1>3. (m - Period) % Period = m % Period
  BY <1>2, RingApart
<1>4. QED
  BY <1>3 DEF Nth

(* The turn that comes is one of Turnings. *)
LEMMA ComesIs ==
  ASSUME MaxPeriod \in 1..4, hand.does \in Patterns, hand.made \in Nat
  PROVE  Comes \in Turnings /\ Comes = Nth(hand.made)
<1>1. hand.does \in Seq(Turnings) /\ Len(hand.does) \in Nat \ {0}
  <2>1. hand.does \in Seq(Turnings) /\ Len(hand.does) \in 1..4
    BY PatternIs
  <2>2. \A n \in 1..4 : n \in Nat \ {0}
    BY SMT
  <2>3. QED
    BY <2>1, <2>2
<1>2. hand.made % Len(hand.does) \in 0..(Len(hand.does) - 1)
  BY <1>1, DivMod
<1>3. (hand.made % Len(hand.does)) + 1 \in 1..Len(hand.does)
  BY <1>1, <1>2, SMT
<1>4. Comes \in Turnings
  BY <1>1, <1>3, ElementOfSeq DEF Comes
<1>5. QED
  BY <1>4 DEF Comes, Nth, Period

(* What a hit adds to a record and what every turn takes from it. *)
LEMMA EighthLost ==
  ASSUME NEW s \in 0..Full, NEW e \in Nat, 8 * e <= s, s < 8 * e + 8
  PROVE  /\ s - e \in 0..Full /\ s - e <= Full - 4
         /\ s + 256 - e \in 0..Full
         /\ 8 * (Full - (s + 256 - e)) <= 7 * (Full - s)
         /\ s + 256 - e <= s + 1 \/ s + 256 - e <= Full - 4
<1>1. s \in Nat /\ s <= 2048
  BY SMT DEF Full
<1>2. /\ s - e \in Nat /\ s - e <= 1792
      /\ s + 256 - e \in Nat /\ s + 256 - e <= 2048
      /\ 8 * (2048 - (s + 256 - e)) <= 7 * (2048 - s)
      /\ s + 256 - e <= s + 1 \/ s + 256 - e <= 2044
  BY <1>1, SMT
<1>3. QED
  BY <1>2, SMT DEF Full

(* A record stays within eight times 256, and is near that only with the latest
   turn called: a miss costs it an eighth, and a hit leaves at most seven
   eighths of what it was short of. *)
LEMMA ScoreMoves ==
  ASSUME NEW j \in Predictor, score[j] \in 0..Full, NEW hit \in BOOLEAN
  PROVE  /\ Scored(j, hit) \in 0..Full
         /\ ~hit => Scored(j, hit) <= Full - 4
         /\ hit => 8 * (Full - Scored(j, hit)) <= 7 * (Full - score[j])
         /\ Scored(j, hit) <= score[j] + 1 \/ Scored(j, hit) <= Full - 4
<1> DEFINE s == score[j]
           e == s \div 8
           r == Scored(j, hit)
<1>1. r = s + (IF hit THEN 256 ELSE 0) - e
  BY DEF Scored
<1>2. s \in 0..Full /\ e = s \div 8 /\ Full \in Nat
  BY SMT DEF Full
<1> SUFFICES /\ r \in 0..Full
             /\ ~hit => r <= Full - 4
             /\ hit => 8 * (Full - r) <= 7 * (Full - s)
             /\ r <= s + 1 \/ r <= Full - 4
  OBVIOUS
<1> HIDE DEF s, e, r
<1>3. e \in Nat /\ 8 * e <= s /\ s < 8 * e + 8
  BY <1>2, SMT
<1>4. /\ s - e \in 0..Full /\ s - e <= Full - 4
      /\ s + 256 - e \in 0..Full
      /\ 8 * (Full - (s + 256 - e)) <= 7 * (Full - s)
      /\ s + 256 - e <= s + 1 \/ s + 256 - e <= Full - 4
  BY <1>2, <1>3, EighthLost
<1>5. CASE hit
  <2>1. r = s + 256 - e
    BY <1>1, <1>5
  <2>2. QED
    BY <1>4, <1>5, <2>1
<1>6. CASE ~hit
  <2>1. r = s - e
    BY <1>1, <1>2, <1>3, <1>6, SMT
  <2>2. QED
    BY <1>4, <1>6, <2>1
<1>7. QED
  BY <1>5, <1>6

(* What a record is short of shrinks no slower than the table says. *)
LEMMA ShortShrinks ==
  /\ \A k \in 1..47 : Short[k] \in Nat
  /\ \A k \in 1..46 : 7 * Short[k] < 8 * (Short[k + 1] + 1)
  /\ Short[1] = 2048 /\ Short[47] = 0
BY SMT DEF Short

(* The winner is the first of the best. *)
LEMMA WinnerIs ==
  ASSUME score \in [Predictor -> 0..Full]
  PROVE  /\ Winner \in Predictor
         /\ \A k \in Predictor : \/ score[k] < score[Winner]
                                 \/ score[k] = score[Winner] /\ Winner <= k
<1> DEFINE Best == {j \in Predictor : \A k \in Predictor : score[k] <= score[j]}
           Values == {score[j] : j \in Predictor}
<1>1. 1 \in Predictor /\ Predictor \subseteq Nat
  BY SMT DEF Predictor
<1>2. Full \in Nat /\ \A n \in 0..Full : n \in Nat /\ n <= Full
  BY SMT DEF Full
<1>3. (\A v \in Values : v \in 0..Full) /\ Values # {}
  BY <1>1
<1>4. PICK v \in Values : \A u \in Values : u <= v
  <2> HIDE DEF Values
  <2>1. Values \in SUBSET Nat /\ \A v \in Values : v <= Full
    BY <1>2, <1>3
  <2>2. QED
    BY <1>2, <1>3, <2>1, GreatestOfNat
<1>5. PICK g \in Predictor : v = score[g]
  OBVIOUS
<1>6. Best \in SUBSET Nat /\ Best # {}
  <2>1. g \in Best
    BY <1>4, <1>5
  <2>2. QED
    BY <1>1, <2>1
<1>7. PICK b \in Best : \A k \in Best : b <= k
  <2> HIDE DEF Best
  <2>1. QED
    BY <1>6, LeastOfNat
<1>8. b \in Predictor /\ \A k \in Predictor : score[k] <= score[b]
  BY <1>7
<1>9. ASSUME NEW k \in Predictor, ~(score[k] < score[b])
      PROVE  score[k] = score[b] /\ b <= k
  <2> HIDE DEF Best, Values
  <2>1. score[k] = score[b]
    BY <1>2, <1>8, <1>9, SMT
  <2>2. k \in Best
    BY <1>8, <2>1 DEF Best
  <2>3. QED
    BY <1>7, <2>1, <2>2
<1>10. QED
  BY <1>8, <1>9 DEF Winner

(* A turn is learned with the pattern's next turn, at the end of the ring. *)
LEMMA GoOnTurn ==
  ASSUME MaxPeriod \in 1..4, GuessTyped, GoOn
  PROVE  /\ TurnTo(Comes)
         /\ Comes \in Turnings /\ Comes = Nth(hand.made)
         /\ hand.made \in Nat /\ hand'.made = hand.made + 1 /\ hand.does \in Patterns
         /\ hand'.does = hand.does
         /\ hand' \in [does : Patterns, swap : Nat, then : Patterns, made : Nat]
<1>1. TurnTo(Comes) /\ hand' = [hand EXCEPT !.made = @ + 1]
  BY DEF GoOn
<1>2. /\ hand \in [does : Patterns, swap : Nat, then : Patterns, made : Nat]
      /\ hand.made \in Nat /\ hand.does \in Patterns
  BY DEF GuessTyped
<1>3. hand.made + 1 \in Nat
  BY <1>2, SMT
<1>4. /\ hand'.made = hand.made + 1 /\ hand'.does = hand.does
      /\ hand' \in [does : Patterns, swap : Nat, then : Patterns, made : Nat]
  BY <1>1, <1>2, <1>3, Zenon
<1>5. QED
  BY <1>1, <1>2, <1>4, ComesIs

(* Types are kept. *)
LEMMA TypedGoOn ==
  ASSUME MaxPeriod \in 1..4, GuessTyped, GoOn
  PROVE  GuessTyped'
<1>1. /\ TurnTo(Comes) /\ Comes \in Turnings
      /\ hand' \in [does : Patterns, swap : Nat, then : Patterns, made : Nat]
  BY GoOnTurn
<1>2. turns' = IF Len(turns) < RING THEN Append(turns, Comes) ELSE Append(Tail(turns), Comes)
  BY <1>1 DEF TurnTo
<1>3. turns \in Seq(Turnings) /\ Len(turns) <= RING /\ RING \in Nat \ {0}
  BY GuessAssumption DEF GuessTyped
<1>4. turns' \in Seq(Turnings) /\ Len(turns') <= RING
  <2>1. CASE Len(turns) < RING
    BY <1>1, <1>2, <1>3, <2>1, SMT
  <2>2. CASE ~(Len(turns) < RING)
    <3>1. turns # <<>> /\ Len(turns) = RING
      BY <1>3, <2>2, SMT
    <3>2. Tail(turns) \in Seq(Turnings) /\ Len(Tail(turns)) = Len(turns) - 1
      BY <1>3, <3>1, HeadTailProperties
    <3>3. turns' = Append(Tail(turns), Comes)
      BY <1>2, <2>2
    <3>4. QED
      BY <1>1, <1>3, <3>1, <3>2, <3>3, SMT
  <2>3. QED
    BY <2>1, <2>2
<1>5. score' \in [Predictor -> 0..Full]
  <2>1. score' = [j \in Predictor |-> Scored(j, Guess(j) = Comes)]
    BY <1>1 DEF TurnTo
  <2>2. ASSUME NEW j \in Predictor
        PROVE  Scored(j, Guess(j) = Comes) \in 0..Full
    <3>1. score[j] \in 0..Full /\ (Guess(j) = Comes) \in BOOLEAN
      BY DEF GuessTyped
    <3>2. QED
      BY <3>1, ScoreMoves
  <2>3. QED
    BY <2>1, <2>2
<1>6. QED
  BY <1>1, <1>4, <1>5 DEF GuessTyped

(* The ring keeps the turn just made, and those before it one place back. *)
LEMMA BackGoOn ==
  ASSUME MaxPeriod \in 1..4, RING >= 4, GuessTyped, GoOn,
         NEW k \in 2..4, k - 1 <= Len(turns)
  PROVE  k <= Len(turns') /\ Back(k)' = Back(k - 1)
<1> DEFINE n == Len(turns)
<1>1. TurnTo(Comes) /\ Comes \in Turnings
  BY GoOnTurn
<1>2. turns' = IF n < RING THEN Append(turns, Comes) ELSE Append(Tail(turns), Comes)
  BY <1>1 DEF TurnTo
<1>3. turns \in Seq(Turnings) /\ n \in Nat /\ n <= RING /\ RING \in Nat \ {0}
  BY GuessAssumption DEF GuessTyped
<1>4. Back(k - 1) = turns[n - (k - 1) + 1]
  BY DEF Back
<1>5. CASE n < RING
  <2>1. turns' = Append(turns, Comes)
    BY <1>2, <1>5
  <2>2. Len(turns') = n + 1 /\ \A i \in 1..n : turns'[i] = turns[i]
    BY <1>1, <1>3, <2>1
  <2> HIDE DEF n
  <2>3. /\ k <= n + 1 /\ (n + 1) - k + 1 \in 1..n /\ (n + 1) - k + 1 = n - (k - 1) + 1
    BY <1>3, SMT DEF n
  <2>4. turns'[(n + 1) - k + 1] = turns[n - (k - 1) + 1]
    BY <2>2, <2>3
  <2>5. k <= Len(turns') /\ Back(k)' = turns'[(n + 1) - k + 1]
    <3>1. Len(turns') = n + 1 /\ k <= n + 1
      BY <2>2, <2>3
    <3>2. k <= Len(turns')
      BY <3>1
    <3>3. Back(k)' = turns'[Len(turns') - k + 1]
      BY <3>2 DEF Back
    <3>4. QED
      BY <3>1, <3>2, <3>3
  <2>6. QED
    BY <1>4, <2>4, <2>5
<1>6. CASE ~(n < RING)
  <2>1. turns' = Append(Tail(turns), Comes)
    BY <1>2, <1>6
  <2>2. n = RING /\ turns # <<>> /\ n >= 4
    BY <1>3, <1>6, SMT
  <2>3. /\ Tail(turns) \in Seq(Turnings) /\ Len(Tail(turns)) = n - 1
        /\ \A i \in 1..Len(Tail(turns)) : Tail(turns)[i] = turns[i + 1]
    BY <1>3, <2>2, HeadTailProperties
  <2>4. Len(turns') = n - 1 + 1 /\ \A i \in 1..(n - 1) : turns'[i] = Tail(turns)[i]
    BY <1>1, <2>1, <2>3
  <2> HIDE DEF n
  <2>5. /\ n - 1 + 1 = n /\ k <= n /\ n - k + 1 \in 1..(n - 1)
        /\ n - k + 1 + 1 = n - (k - 1) + 1
    BY <1>3, <2>2, SMT
  <2>6. turns'[n - k + 1] = turns[n - k + 1 + 1]
    BY <2>3, <2>4, <2>5
  <2>7. QED
    BY <1>4, <2>4, <2>5, <2>6 DEF Back
<1>7. QED
  BY <1>5, <1>6

(* The turn just made is the last in the ring. *)
LEMMA BackIsComes ==
  ASSUME MaxPeriod \in 1..4, GuessTyped, GoOn
  PROVE  1 <= Len(turns') /\ Back(1)' = Comes
<1>1. TurnTo(Comes) /\ Comes \in Turnings
  BY GoOnTurn
<1>2. turns \in Seq(Turnings) /\ RING \in Nat \ {0} /\ Len(turns) \in Nat
  BY GuessAssumption DEF GuessTyped
<1>3. PICK s \in Seq(Turnings) : turns' = Append(s, Comes)
  <2>1. CASE Len(turns) < RING
    BY <1>1, <1>2, <2>1 DEF TurnTo
  <2>2. CASE ~(Len(turns) < RING)
    <3>1. turns # <<>>
      BY <1>2, <2>2, SMT
    <3>2. Tail(turns) \in Seq(Turnings)
      BY <1>2, <3>1, HeadTailProperties
    <3>3. QED
      BY <1>1, <2>2, <3>2 DEF TurnTo
  <2>3. QED
    BY <2>1, <2>2
<1>4. Len(turns') = Len(s) + 1 /\ turns'[Len(s) + 1] = Comes /\ Len(s) \in Nat
  BY <1>1, <1>3
<1>5. 1 <= Len(turns') /\ Len(turns') - 1 + 1 = Len(s) + 1
  BY <1>4, SMT
<1>6. QED
  BY <1>4, <1>5 DEF Back

(* The last four turns of the hand stay in the ring. *)
LEMMA RemembersGoOn ==
  ASSUME MaxPeriod \in 1..4, RING >= 4, GuessTyped, Remembers, GoOn
  PROVE  Remembers'
<1>1. /\ hand.made \in Nat /\ hand'.made = hand.made + 1 /\ hand'.does = hand.does
      /\ Comes = Nth(hand.made)
  BY GoOnTurn
<1>2. \A m : Nth(m)' = Nth(m)
  BY <1>1 DEF Nth, Period
<1>3. SUFFICES ASSUME NEW k \in 1..4, k <= hand'.made
               PROVE  k <= Len(turns') /\ Back(k)' = Nth(hand'.made - k)
  BY <1>1, <1>2 DEF Remembers
<1>4. CASE k = 1
  <2>1. hand'.made - 1 = hand.made
    BY <1>1, SMT
  <2>2. QED
    BY <1>1, <1>4, <2>1, BackIsComes
<1>5. CASE k # 1
  <2>1. /\ k \in 2..4 /\ k - 1 \in 1..4 /\ k - 1 <= hand.made
        /\ hand.made - (k - 1) = hand'.made - k
    BY <1>1, <1>3, <1>5, SMT
  <2>2. k - 1 <= Len(turns) /\ Back(k - 1) = Nth(hand.made - (k - 1))
    BY <2>1 DEF Remembers
  <2>3. QED
    BY <2>1, <2>2, BackGoOn
<1>6. QED
  BY <1>4, <1>5

(* A lag's guess is the turn that the pattern had so long ago. *)
LEMMA LagGuess ==
  ASSUME Remembers, NEW j \in 1..4, j <= hand.made
  PROVE  Guess(j) = Nth(hand.made - j)
BY DEF Guess, Remembers

(* A turn scores every predictor for the guess it made. *)
LEMMA ScoreGoOn ==
  ASSUME MaxPeriod \in 1..4, GuessTyped, GoOn, NEW j \in Predictor
  PROVE  /\ score[j] \in 0..Full /\ score'[j] \in 0..Full
         /\ Guess(j) # Comes => score'[j] <= Full - 4
         /\ Guess(j) = Comes => 8 * (Full - score'[j]) <= 7 * (Full - score[j])
         /\ score'[j] <= score[j] + 1 \/ score'[j] <= Full - 4
<1> DEFINE hit == Guess(j) = Comes
<1>1. score'[j] = Scored(j, hit) /\ score[j] \in 0..Full
  BY GoOnTurn DEF TurnTo, GuessTyped
<1>2. hit \in BOOLEAN
  OBVIOUS
<1>3. /\ Scored(j, hit) \in 0..Full
      /\ ~hit => Scored(j, hit) <= Full - 4
      /\ hit => 8 * (Full - Scored(j, hit)) <= 7 * (Full - score[j])
      /\ Scored(j, hit) <= score[j] + 1 \/ Scored(j, hit) <= Full - 4
  <2> HIDE DEF hit
  <2>1. QED
    BY <1>1, <1>2, ScoreMoves
<1>4. QED
  BY <1>1, <1>3

(* From its second round on, the pattern is called by the lag of its length. *)
LEMMA ClimbsGoOn ==
  ASSUME MaxPeriod \in 1..4, GuessTyped, Remembers, Climbs, GoOn
  PROVE  Climbs'
<1>1. /\ hand.made \in Nat /\ hand'.made = hand.made + 1 /\ hand'.does = hand.does
      /\ Comes = Nth(hand.made) /\ hand.does \in Patterns
  BY GoOnTurn
<1>2. Period \in 1..4 /\ Period' = Period /\ Period \in Predictor
  <2>1. Len(hand.does) \in 1..4
    BY <1>1, PatternIs
  <2>2. QED
    BY <1>1, <2>1, SMT DEF Period, Predictor
<1>3. SUFFICES ASSUME NEW k \in 0..46, hand'.made >= Period + k
               PROVE  score'[Period] >= Full - Short[k + 1]
  BY <1>2 DEF Climbs
<1>4. score[Period] \in 0..Full /\ score'[Period] \in 0..Full /\ Full \in Nat
  <2>1. Full \in Nat
    BY SMT DEF Full
  <2>2. QED
    BY <1>2, <2>1, ScoreGoOn
<1>5. CASE k = 0
  <2>1. Short[k + 1] = Full
    <3>1. k + 1 = 1
      BY <1>5, SMT
    <3>2. QED
      BY <3>1, ShortShrinks DEF Full
  <2>2. QED
    BY <1>4, <2>1, SMT
<1>6. CASE k # 0
  <2>1. /\ k - 1 \in 0..46 /\ hand.made >= Period + (k - 1) /\ k - 1 + 1 = k /\ k \in 1..46
        /\ Period <= hand.made
    BY <1>1, <1>2, <1>3, <1>6, SMT
  <2>2. score[Period] >= Full - Short[k]
    BY <2>1 DEF Climbs
  <2>3. Guess(Period) = Comes
    <3>1. Guess(Period) = Nth(hand.made - Period)
      BY <1>2, <2>1, LagGuess
    <3>2. Nth(hand.made - Period) = Nth(hand.made)
      BY <1>1, <2>1, NthRepeats
    <3>3. QED
      BY <1>1, <3>1, <3>2
  <2>4. 8 * (Full - score'[Period]) <= 7 * (Full - score[Period])
    BY <1>2, <2>3, ScoreGoOn
  <2>5. Short[k] \in Nat /\ Short[k + 1] \in Nat /\ 7 * Short[k] < 8 * (Short[k + 1] + 1)
    <3>1. k \in 1..47 /\ k + 1 \in 1..47
      BY <2>1, SMT
    <3>2. QED
      BY <2>1, <3>1, ShortShrinks
  <2>6. QED
    BY <1>4, <2>2, <2>4, <2>5, SMT
<1>7. QED
  BY <1>5, <1>6

(* A lag whose record is next to full has called the latest turns. *)
LEMMA StreaksGoOn ==
  ASSUME MaxPeriod \in 1..4, GuessTyped, Remembers, Streaks, GoOn
  PROVE  Streaks'
<1>1. /\ hand.made \in Nat /\ hand'.made = hand.made + 1 /\ hand'.does = hand.does
      /\ Comes = Nth(hand.made)
  BY GoOnTurn
<1>2. \A j, m : Agrees(j, m)' = Agrees(j, m)
  BY <1>1 DEF Agrees, Nth, Period
<1>3. SUFFICES ASSUME NEW i \in 1..4, NEW j \in 1..4, score'[j] >= Full - 4 + i,
                      NEW k \in 1..i, k <= hand'.made
               PROVE  Agrees(j, hand'.made - k)
  BY <1>2 DEF Streaks
<1>4. j \in Predictor /\ Full \in Nat
  BY SMT DEF Predictor, Full
<1>5. /\ score[j] \in 0..Full /\ score'[j] \in 0..Full
      /\ Guess(j) # Comes => score'[j] <= Full - 4
      /\ score'[j] <= score[j] + 1 \/ score'[j] <= Full - 4
  BY <1>4, ScoreGoOn
<1>6. ~(score'[j] <= Full - 4)
  BY <1>3, <1>4, <1>5, SMT
<1>7. CASE k = 1
  <2>1. hand'.made - k = hand.made
    BY <1>1, <1>7, SMT
  <2>2. j <= hand.made => Nth(hand.made - j) = Nth(hand.made)
    BY <1>1, <1>5, <1>6, LagGuess
  <2>3. hand.made >= j => j <= hand.made
    BY <1>1, SMT
  <2>4. QED
    BY <2>1, <2>2, <2>3 DEF Agrees
<1>8. CASE k # 1
  <2>1. /\ i - 1 \in 1..4 /\ k - 1 \in 1..(i - 1) /\ k - 1 <= hand.made
        /\ hand'.made - k = hand.made - (k - 1)
    BY <1>1, <1>3, <1>8, SMT
  <2>2. score[j] >= Full - 4 + (i - 1)
    BY <1>3, <1>4, <1>5, <1>6, SMT
  <2>3. QED
    BY <2>1, <2>2 DEF Streaks
<1>9. QED
  BY <1>7, <1>8

(* Fifty turns into a pattern the best record is a full one, and a lag that has
   a full one, shorter than the pattern or not, calls the turn too. *)
LEMMA WinnerCalls ==
  ASSUME MaxPeriod \in 1..4, GuessTyped, Remembers, Climbs, Streaks, hand.made >= 50
  PROVE  Guess(Winner) = Nth(hand.made)
<1>1. hand.made \in Nat /\ hand.does \in Patterns /\ score \in [Predictor -> 0..Full]
  BY DEF GuessTyped
<1>2. Period \in 1..4 /\ Period \in Predictor
  <2>1. Len(hand.does) \in 1..4
    BY <1>1, PatternIs
  <2>2. QED
    BY <2>1, SMT DEF Period, Predictor
<1>3. /\ Winner \in Predictor
      /\ score[Period] < score[Winner] \/ (score[Period] = score[Winner] /\ Winner <= Period)
  BY <1>1, <1>2, WinnerIs
<1>4. score[Period] \in 0..Full /\ score[Winner] \in 0..Full /\ Full \in Nat
  <2>1. Full \in Nat
    BY SMT DEF Full
  <2>2. QED
    BY <1>1, <1>2, <1>3, <2>1
<1>5. score[Period] >= Full
  <2>1. 46 \in 0..46 /\ hand.made >= Period + 46
    BY <1>1, <1>2, SMT
  <2>2. score[Period] >= Full - Short[46 + 1]
    BY <2>1 DEF Climbs
  <2>3. Short[46 + 1] = 0
    <3>1. 46 + 1 = 47
      BY SMT
    <3>2. QED
      BY <3>1, ShortShrinks
  <2>4. QED
    BY <1>4, <2>2, <2>3, SMT
<1> DEFINE j == Winner
<1>6. score[j] >= Full - 4 + 4 /\ j <= Period
  <2> HIDE DEF j
  <2>1. score[j] \in 0..Full /\ (score[Period] < score[j] \/ (score[Period] = score[j] /\ j <= Period))
    BY <1>3, <1>4 DEF j
  <2>2. QED
    BY <1>4, <1>5, <2>1, SMT
<1>7. j \in 1..4
  <2> HIDE DEF j
  <2>1. j \in Predictor
    BY <1>3 DEF j
  <2>2. QED
    BY <1>2, <1>6, <2>1, SMT DEF Predictor
<1> HIDE DEF j
<1> DEFINE m == hand.made
<1>8. /\ 4 \in 1..4 /\ Period \in 1..4 /\ Period <= m /\ m - Period >= j /\ j <= m
      /\ m - j \in Nat /\ m - j >= Period /\ m - Period - j = m - j - Period
  BY <1>1, <1>2, <1>7, SMT
<1>9. Agrees(j, m - Period)
  BY <1>6, <1>7, <1>8 DEF Streaks
<1>10. Nth(m - j - Period) = Nth(m - Period)
  BY <1>8, <1>9 DEF Agrees
<1>11. Nth(m - j - Period) = Nth(m - j) /\ Nth(m - Period) = Nth(m)
  BY <1>1, <1>8, NthRepeats
<1>12. Guess(j) = Nth(m - j)
  BY <1>7, <1>8, LagGuess
<1>13. QED
  BY <1>10, <1>11, <1>12 DEF j

(* Before its first turn a pattern has no round behind it. *)
LEMMA NoRoundYet ==
  ASSUME NEW p \in 1..4, NEW k \in 0..46
  PROVE  ~(0 >= p + k)
BY SMT

(* Every step keeps the invariant. *)
LEMMA GuessStep ==
  ASSUME MaxPeriod \in 1..4, RING >= 4, GuessInv, [GuessNext]_guessVars
  PROVE  GuessInv'
<1>1. CASE GoOn
  <2>1. GuessTyped' /\ Remembers' /\ Climbs' /\ Streaks'
    BY <1>1, TypedGoOn, RemembersGoOn, ClimbsGoOn, StreaksGoOn DEF GuessInv
  <2>2. CaughtIn50'
    <3>1. SUFFICES ASSUME hand'.made > 50 PROVE called'
      BY DEF CaughtIn50
    <3>2. /\ hand.made \in Nat /\ hand'.made = hand.made + 1 /\ Comes = Nth(hand.made)
          /\ TurnTo(Comes)
      BY <1>1, GoOnTurn DEF GuessInv
    <3>3. hand.made >= 50
      BY <3>1, <3>2, SMT
    <3>4. Guess(Winner) = Comes
      BY <3>2, <3>3, WinnerCalls DEF GuessInv
    <3>5. QED
      BY <3>2, <3>4 DEF TurnTo, Guessed
  <2>3. QED
    BY <2>1, <2>2 DEF GuessInv
<1>2. CASE SwapPattern
  <2>1. /\ hand' = [does |-> hand.then, swap |-> 0, then |-> hand.then, made |-> 0]
        /\ UNCHANGED <<turns, score>>
    BY <1>2 DEF SwapPattern
  <2>2. hand.then \in Patterns /\ 0 \in Nat
    BY DEF GuessInv, GuessTyped
  <2>3. GuessTyped' /\ hand'.made = 0 /\ hand'.does \in Patterns
    BY <2>1, <2>2 DEF GuessInv, GuessTyped
  <2>4. Period' \in 1..4
    BY <2>3, PatternIs DEF Period
  <2>5. Remembers' /\ Streaks' /\ CaughtIn50'
    BY <2>3, SMT DEF Remembers, Streaks, CaughtIn50
  <2>6. Climbs'
    <3>1. \A k \in 0..46 : ~(0 >= Period' + k)
      BY <2>4, NoRoundYet
    <3>2. QED
      BY <2>3, <3>1 DEF Climbs
  <2>7. QED
    BY <2>3, <2>5, <2>6 DEF GuessInv
<1>3. CASE UNCHANGED guessVars
  BY <1>3 DEF guessVars, GuessInv, GuessTyped, Remembers, Climbs, Streaks, CaughtIn50,
              Period, Nth, Back, Agrees
<1>4. QED
  BY <1>1, <1>2, <1>3 DEF GuessNext

(* And it holds before the first turn. *)
LEMMA GuessStart ==
  ASSUME MaxPeriod \in 1..4, GuessInit
  PROVE  GuessInv
<1>1. turns = <<>> /\ score = [j \in Predictor |-> 0]
  BY DEF GuessInit
<1>2. PICK p \in Patterns, q \in Patterns, n \in Swaps :
        hand = [does |-> p, swap |-> n, then |-> q, made |-> 0]
  BY DEF GuessInit
<1>3. n \in Nat /\ 0 \in Nat /\ hand.made = 0 /\ hand.does \in Patterns
  BY <1>2, GuessAssumption
<1>4. Len(turns) = 0 /\ turns \in Seq(Turnings)
  BY <1>1
<1>5. score \in [Predictor -> 0..Full] /\ Len(turns) <= RING
  BY <1>1, <1>4, GuessAssumption, SMT DEF Full
<1>6. GuessTyped
  BY <1>2, <1>3, <1>4, <1>5 DEF GuessTyped
<1>7. Len(hand.does) \in 1..4
  BY <1>3, PatternIs
<1>8. Remembers /\ Streaks /\ CaughtIn50
  BY <1>3, SMT DEF Remembers, Streaks, CaughtIn50
<1>9. Climbs
  <2>1. \A k \in 0..46 : ~(0 >= Len(hand.does) + k)
    BY <1>7, NoRoundYet
  <2>2. QED
    BY <1>3, <2>1 DEF Climbs, Period
<1>10. QED
  BY <1>6, <1>8, <1>9 DEF GuessInv

(* A hand that repeats a pattern of up to four turns is called from its turn 51
   on at the latest, for every ring of four turns or more, whatever patterns it
   may choose from and whatever it kept to before: entropy.c pays it nothing
   for its direction. *)
THEOREM PatternCalledHolds ==
  ASSUME MaxPeriod \in 1..4, RING >= 4, Patience \in Nat, Patience >= 50
  PROVE  GuessSpec => []PatternCalled
<1>1. GuessInit => GuessInv
  BY GuessStart
<1>2. GuessInv /\ [GuessNext]_guessVars => GuessInv'
  BY GuessStep
<1>3. GuessInv => PatternCalled
  <2>1. ASSUME GuessInv, hand.made > Patience
        PROVE  called
    <3>1. hand.made \in Nat
      BY <2>1 DEF GuessInv, GuessTyped
    <3>2. hand.made > 50
      BY <2>1, <3>1, SMT
    <3>3. QED
      BY <2>1, <3>2 DEF GuessInv, CaughtIn50
  <2>2. QED
    BY <2>1 DEF PatternCalled
<1>4. QED
  BY <1>1, <1>2, <1>3, PTL DEF GuessSpec
=============================================================================
