---------------------------- MODULE TurnAccount ----------------------------
(***************************************************************************)
(* What entropy_get_last_turn promises of the latest counted turn, without *)
(* runs, rolls, walls or ground: its fate is told when it is settled, a    *)
(* turn that is owed may become paid later and no other fate ever changes, *)
(* and the bar moves in exactly the steps in which a fate becomes "paid".  *)
(***************************************************************************)
EXTENDS Integers

CONSTANT TURNS_WRAP  \* what the count of turns wraps at, 2^32 in the source

VARIABLES
  seq,   \* the turns settled since the sweep began
  fate,  \* the latest one's: "none" before the first
  paid   \* whether the latest step paid

accountVars == <<seq, fate, paid>>

AccountInit == seq = 0 /\ fate = "none" /\ paid = FALSE

SettleTurn ==
  /\ seq' = (seq + 1) % TURNS_WRAP
  /\ fate' \in {"paid", "owed", "unpaid"}
  /\ paid' = (fate' = "paid")

ReachGround ==
  /\ fate = "owed"
  /\ fate' = "paid" /\ paid' = TRUE
  /\ UNCHANGED seq

(* A step that counts nothing pays nothing. *)
Pass == paid' = FALSE /\ UNCHANGED <<seq, fate>>

ForgetTurns == seq' = 0 /\ fate' = "none" /\ paid' = FALSE

AccountNext == SettleTurn \/ ReachGround \/ Pass \/ ForgetTurns

AccountSpec == AccountInit /\ [][AccountNext]_accountVars
=============================================================================
