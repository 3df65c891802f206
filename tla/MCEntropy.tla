----------------------------- MODULE MCEntropy -----------------------------
(***************************************************************************)
(* src/entropy.c beside its pool and locks, for TLC: what a sweep counts,  *)
(* which is turns, presses, the price of one and the guesses at it, and    *)
(* the file the seed is kept in.  Turns and presses share no state but the *)
(* units they add to (struct sweep and struct keys), guess and price are   *)
(* functions of a record, and the file knows of the count only that it is  *)
(* full, so each is explored by itself.                                    *)
(***************************************************************************)
EXTENDS Turns, Presses, Prices, Guesses, SeedFile

VARIABLE part  \* what this behaviour explores

entropyVars == <<turnVars, pressVars, priceVars, guessVars, vars, part>>

NoHand ==
  /\ turns = <<>> /\ follow = EmptyBag /\ called = FALSE
  /\ hand = [does |-> <<>>, swap |-> 0, then |-> <<>>, made |-> 0]
  /\ score = [j \in Predictor |-> 0]

EntropyInit ==
  /\ part \in {"turns", "presses", "prices", "guesses", "file"}
  /\ TurnsInit /\ PressInit /\ PriceInit /\ Init
  /\ IF part = "guesses" THEN GuessInit ELSE NoHand

OnlyTurns ==
  part = "turns" /\ TurnsNext /\ UNCHANGED <<pressVars, priceVars, guessVars, vars>>
OnlyPresses ==
  part = "presses" /\ PressNext /\ UNCHANGED <<turnVars, priceVars, guessVars, vars>>
OnlyPrices ==
  part = "prices" /\ PriceNext /\ UNCHANGED <<turnVars, pressVars, guessVars, vars>>
OnlyGuesses ==
  part = "guesses" /\ GuessNext /\ UNCHANGED <<turnVars, pressVars, priceVars, vars>>
OnlyFile ==
  part = "file" /\ Next /\ UNCHANGED <<turnVars, pressVars, priceVars, guessVars>>

EntropyNext ==
  (OnlyTurns \/ OnlyPresses \/ OnlyPrices \/ OnlyGuesses \/ OnlyFile) /\ UNCHANGED part

EntropySpec == EntropyInit /\ [][EntropyNext]_entropyVars
=============================================================================
