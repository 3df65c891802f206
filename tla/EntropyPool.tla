---------------------------- MODULE EntropyPool ----------------------------
(***************************************************************************)
(* The pool of src/entropy.c as several threads reach it: the credited     *)
(* count and its stash, the gate on wolfSSL's draws, and the two locks     *)
(* around the pool and the seed file.  Operations that take the pool lock  *)
(* alone are one step; those that also take the file lock run lock by      *)
(* lock, since the stick is slow.  What each turn or press pays is the     *)
(* sweep's business; here a payment is any number of sixteenths.  The      *)
(* calls that replace the seed file are SeedFile's; here a write stores    *)
(* the successor or leaves the file as it was, and a removal works.        *)
(***************************************************************************)
EXTENDS Integers

CONSTANTS
  Owner,      \* the thread that initialises, sweeps, stashes and forgets
  Net,        \* the threads that draw, load and save
  Nobody,
  Units,      \* UNITS: the count's units to a bit, 16 in the source
  Full,       \* FULL: ENTROPY_BITS in those units
  Payments,   \* what a turn or a press may pay, in sixteenths
  MaxUnits,   \* bound of the model: the count is not paid past it
  MaxForgets  \* bound of the model: calls of entropy_forget

ASSUME ThreadAssumption == Owner \notin Net /\ Nobody \notin Net \cup {Owner}
ASSUME PaymentAssumption ==
  /\ Units \in Nat \ {0} /\ Full \in Nat \ {0}
  /\ Payments \subseteq Nat \ {0}
ASSUME BoundAssumption == MaxUnits \in Nat /\ MaxForgets \in Nat

Threads == Net \cup {Owner}

VARIABLES
  initialised, units, broken, filled, waived, stash,  \* as in the source, -1 for no stash
  fileLock, poolLock,  \* who holds file_mutex and pool_mutex
  pc, op,              \* where each thread stands in the operation it is in
  next,                \* the successor a load or save has hashed: its epoch, 0 for none
  seed,                \* what the seed file holds: the epoch it was derived in, 0 for none
  epoch,               \* 1 + the number of times the pool was forgotten
  mass                 \* sixteenths the pool has taken in since it was last empty,
                       \* counted up to Full

count == <<units, filled, stash, mass>>
gate == <<initialised, broken, waived>>
file == <<seed, next, epoch>>
locks == <<fileLock, poolLock>>
vars == <<count, gate, file, locks, pc, op>>

Ops == {"none", "load", "save", "stash", "forget"}
Steps == {"idle", "file", "read", "pool", "hash", "remove", "recount", "write"}

TypeOK ==
  /\ initialised \in BOOLEAN /\ broken \in BOOLEAN
  /\ filled \in BOOLEAN /\ waived \in BOOLEAN
  /\ units \in Nat /\ mass \in 0..Full
  /\ stash \in Nat \cup {-1}
  /\ fileLock \in Threads \cup {Nobody} /\ poolLock \in Threads \cup {Nobody}
  /\ pc \in [Threads -> Steps]
  /\ op \in [Threads -> Ops]
  /\ next \in [Threads -> Nat]
  /\ seed \in Nat /\ epoch \in Nat \ {0}

(* A run may find the seed file of an earlier one. *)
Init ==
  /\ initialised = FALSE /\ broken = FALSE /\ filled = FALSE /\ waived = FALSE
  /\ units = 0 /\ mass = 0 /\ stash = -1
  /\ fileLock = Nobody /\ poolLock = Nobody
  /\ pc = [t \in Threads |-> "idle"]
  /\ op = [t \in Threads |-> "none"]
  /\ next = [t \in Threads |-> 0]
  /\ seed \in {0, 1} /\ epoch = 1

(* A hash may fail, and then nothing is drawn from here on. *)
Hash == broken' \in {broken, TRUE}

PoolFree(t) == pc[t] = "idle" /\ poolLock = Nobody
-----------------------------------------------------------------------------
(* Operations under the pool lock alone *)

EntropyInit ==
  /\ PoolFree(Owner)
  /\ initialised' = TRUE /\ Hash
  /\ units' = 0
  /\ UNCHANGED <<filled, stash, mass, waived, file, locks, pc, op>>

(* pay, from a counted turn or press *)
Pay(n) ==
  /\ PoolFree(Owner)
  /\ initialised
  /\ units + n <= MaxUnits
  /\ units' = units + n
  /\ mass' = IF mass + n <= Full THEN mass + n ELSE Full
  /\ filled' = (filled \/ units' >= Full)
  /\ stash' = IF units' >= Full THEN -1 ELSE stash
  /\ Hash
  /\ UNCHANGED <<initialised, waived, file, locks, pc, op>>

Restore ==
  /\ PoolFree(Owner)
  /\ units' = IF stash >= 0 THEN stash ELSE units
  /\ stash' = -1
  /\ UNCHANGED <<filled, mass, gate, file, locks, pc, op>>

AllowUnswept(t) ==
  /\ PoolFree(t)
  /\ waived' = TRUE
  /\ UNCHANGED <<count, initialised, broken, file, locks, pc, op>>

MayDraw == initialised /\ ~broken /\ (filled \/ waived)

(* pspkit_https_seed: a draw that is refused changes nothing. *)
Draw(t) ==
  /\ PoolFree(t)
  /\ MayDraw
  /\ Hash
  /\ UNCHANGED <<count, initialised, waived, file, locks, pc, op>>
-----------------------------------------------------------------------------
(* Operations that take the file lock, and the pool lock inside it *)

Goto(t, step) == pc' = [pc EXCEPT ![t] = step]

Call(t, name) ==
  /\ pc[t] = "idle"
  /\ name \in {"stash", "forget"} => t = Owner
  /\ name = "forget" => epoch <= MaxForgets
  /\ Goto(t, "file")
  /\ op' = [op EXCEPT ![t] = name]
  /\ UNCHANGED <<count, gate, file, locks>>

LockFile(t) ==
  /\ pc[t] = "file" /\ fileLock = Nobody
  /\ fileLock' = t
  /\ Goto(t, IF op[t] = "load" THEN "read" ELSE "pool")
  /\ UNCHANGED <<count, gate, file, poolLock, op>>

(* Every one of them ends by giving back what it holds. *)
Leave(t) ==
  /\ Goto(t, "idle")
  /\ op' = [op EXCEPT ![t] = "none"]
  /\ fileLock' = Nobody
  /\ poolLock' = IF poolLock = t THEN Nobody ELSE poolLock

ReadLeaking(t) ==                                                   \* mutant
  /\ pc[t] = "read"
  /\ \/ seed # 0 /\ Goto(t, "pool") /\ UNCHANGED op
     \/ Goto(t, "idle") /\ op' = [op EXCEPT ![t] = "none"]
  /\ UNCHANGED <<count, gate, file, locks>>

(* seed_read, with the file lock held and the pool free for others *)
Read(t) ==
  /\ pc[t] = "read"
  /\ \/ seed # 0 /\ Goto(t, "pool") /\ UNCHANGED <<locks, op>>
     \/ Leave(t)
  /\ UNCHANGED <<count, gate, file>>

LockPool(t) ==
  /\ pc[t] = "pool" /\ poolLock = Nobody
  /\ poolLock' = t
  /\ Goto(t, IF op[t] \in {"load", "save"} THEN "hash" ELSE "remove")
  /\ UNCHANGED <<count, gate, file, fileLock, op>>

UnlockBoth(t) == poolLock' = Nobody /\ fileLock' = Nobody           \* mutant
UnlockPool(t) == poolLock' = Nobody /\ UNCHANGED fileLock

(* What entropy_load and entropy_save do to the pool, and its release before *)
(* the stick is written                                                      *)
HashSeed(t) ==
  /\ pc[t] = "hash"
  /\ Hash
  /\ LET valid == ~broken' /\ (IF op[t] = "load" THEN initialised ELSE filled)
         loaded == valid /\ op[t] = "load"
     IN /\ IF loaded
           THEN units' = Full /\ filled' = TRUE /\ stash' = -1 /\ mass' = Full
           ELSE UNCHANGED count
        /\ IF valid
           THEN /\ next' = [next EXCEPT ![t] = epoch]
                /\ Goto(t, "write")
                /\ UnlockPool(t) /\ UNCHANGED op
           ELSE Leave(t) /\ UNCHANGED next
  /\ UNCHANGED <<initialised, waived, seed, epoch>>

SeedWrite(t) ==
  /\ pc[t] = "write"
  /\ seed' \in {seed, next[t]}
  /\ next' = [next EXCEPT ![t] = 0]
  /\ Leave(t)
  /\ UNCHANGED <<count, gate, epoch>>

SeedRemove(t) ==
  /\ pc[t] = "remove"
  /\ seed' = 0
  /\ Goto(t, "recount")
  /\ UNCHANGED <<count, gate, next, epoch, locks, op>>

StashCountDrying ==                                                 \* mutant
  /\ stash' = IF stash < 0 THEN units ELSE stash
  /\ units' = 0 /\ filled' = FALSE
  /\ UNCHANGED <<mass, waived, epoch>>

(* entropy_stash sets the count aside, once. *)
StashCount ==
  /\ stash' = IF stash < 0 THEN units ELSE stash
  /\ units' = 0
  /\ UNCHANGED <<filled, mass, waived, epoch>>

ForgetCountKeepingStash ==                                          \* mutant
  /\ units' = 0 /\ filled' = FALSE /\ waived' = FALSE /\ mass' = 0
  /\ epoch' = epoch + 1
  /\ UNCHANGED stash

ForgetCountKeepingUnits ==                                          \* mutant
  /\ filled' = FALSE /\ waived' = FALSE /\ stash' = -1 /\ mass' = 0
  /\ epoch' = epoch + 1
  /\ UNCHANGED units

(* entropy_forget empties the pool itself. *)
ForgetCount ==
  /\ units' = 0 /\ filled' = FALSE /\ waived' = FALSE /\ stash' = -1
  /\ mass' = 0
  /\ epoch' = epoch + 1

Recount(t) ==
  /\ pc[t] = "recount"
  /\ IF op[t] = "stash" THEN StashCount ELSE ForgetCount
  /\ Leave(t)
  /\ UNCHANGED <<initialised, broken, seed, next>>

Step(t) ==
  \/ \E name \in Ops \ {"none"} : Call(t, name)
  \/ LockFile(t) \/ Read(t) \/ LockPool(t) \/ HashSeed(t) \/ SeedWrite(t) \/ SeedRemove(t)
  \/ Recount(t) \/ AllowUnswept(t) \/ Draw(t)

Next ==
  \/ EntropyInit \/ Restore
  \/ \E n \in Payments : Pay(n)
  \/ \E t \in Threads : Step(t)

Spec == Init /\ [][Next]_vars

(* A thread keeps running, the stick answers, and a lock that keeps coming   *)
(* free is got in the end.                                                   *)
Fairness ==
  \A t \in Threads :
    /\ WF_vars(Read(t) \/ HashSeed(t) \/ SeedWrite(t) \/ SeedRemove(t) \/ Recount(t))
    /\ SF_vars(LockFile(t)) /\ SF_vars(LockPool(t))

FairSpec == Spec /\ Fairness
-----------------------------------------------------------------------------
(* Properties *)

(* wolfSSL draws, waiver aside, only from a pool that has taken in its full  *)
(* 128 bits since it was last empty, whatever was initialised again, stashed *)
(* or restored on the way.                                                   *)
FilledIsEarned == filled => mass = Full

(* A bar that shows full, or will once the stash is restored, is that of a   *)
(* pool that draws without the waiver, unless a hash has failed: that shuts  *)
(* the pool for good, and the bar does not show it.                          *)
FullBarDraws == units >= Full \/ stash >= Full => filled /\ (MayDraw \/ broken)

(* Once the pool was full a second sweep, given up or not, never shuts the   *)
(* gate on the threads that draw; only entropy_forget does.                  *)
OnlyForgetDries ==
  [][filled /\ ~filled' => pc[Owner] = "recount" /\ op[Owner] = "forget"]_vars

(* A seed derived before entropy_forget is never on the stick after it: a    *)
(* save or a load under way is waited for, not overtaken.                    *)
ForgottenStaysForgotten == seed # 0 => seed = epoch

(* Two locks, one order: every call returns.                                 *)
EveryCallReturns == \A t \in Threads : pc[t] # "idle" ~> pc[t] = "idle"

(* entropy_get_bits, from zero through ENTROPY_BITS as its comment says      *)
GetBits == units \div Units
BitsInRange == GetBits <= Full \div Units
=============================================================================
