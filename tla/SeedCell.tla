------------------------------ MODULE SeedCell ------------------------------
(***************************************************************************)
(* What the seed file promises the next run: one cell that holds a whole   *)
(* seed or nothing.  A seed is derived from the pool, then stored at once  *)
(* or never; a seed that was replaced or erased never comes back.          *)
(***************************************************************************)
EXTENDS Integers

VARIABLES
  cell,      \* what a run started now would load: 0, or the number of a seed
  derived,   \* how many seeds the pool has given so far
  pending    \* the latest of them may still be stored

Init == cell = 0 /\ derived = 0 /\ pending = FALSE

Derive == derived' = derived + 1 /\ pending' = TRUE /\ UNCHANGED cell

Store == pending /\ pending' = FALSE /\ cell' = derived /\ UNCHANGED derived

Lapse == pending' = FALSE /\ UNCHANGED <<cell, derived>>

Erase == cell' = 0 /\ UNCHANGED <<derived, pending>>

Next == Derive \/ Store \/ Lapse \/ Erase

Spec == Init /\ [][Next]_<<cell, derived, pending>>
=============================================================================
