------------------------- MODULE EntropyPool_proofs -------------------------
(***************************************************************************)
(* Proofs about EntropyPool, for any number of threads, any size of the    *)
(* pool and any payments.                                                  *)
(***************************************************************************)
EXTENDS EntropyPool, TLAPS

USE ThreadAssumption, PaymentAssumption, BoundAssumption

(* What a thread that stands in the middle of a call holds, and which call it *)
(* is in: one thread at a time is past the file lock, and only that thread    *)
(* has a successor to write.                                                  *)
HoldsFile == {"read", "pool", "hash", "remove", "recount", "write"}

LockInv ==
  \A t \in Threads :
    /\ pc[t] \in HoldsFile => fileLock = t
    /\ pc[t] \in {"hash", "remove", "recount"} => poolLock = t
    /\ pc[t] # "idle" => op[t] \in {"load", "save"} \/ (op[t] \in {"stash", "forget"} /\ t = Owner)
    /\ pc[t] \in {"remove", "recount"} => op[t] \in {"stash", "forget"}
    /\ pc[t] \in {"read", "hash", "write"} => op[t] \in {"load", "save"}

(* Nothing counts for more than the pool has taken in. *)
Backed(n) == n <= mass \/ mass = Full
CountBacked == Backed(units) /\ Backed(stash) /\ FilledIsEarned

(* What is on the stick or on its way there is of this epoch, and a forget   *)
(* that has removed the file finds nothing on its way.                       *)
EpochInv ==
  /\ ForgottenStaysForgotten
  /\ \A t \in Threads :
       /\ next[t] # 0 => next[t] = epoch /\ pc[t] = "write"
       /\ pc[t] = "recount" => seed = 0
-----------------------------------------------------------------------------
(* The variables keep their types, whatever the threads do. *)
LEMMA TypeStep == TypeOK /\ [Next]_vars => TypeOK'
<1> SUFFICES ASSUME TypeOK, [Next]_vars PROVE TypeOK'
  OBVIOUS
<1> USE DEF TypeOK, count, gate, file, locks, Goto, Leave, Hash, Steps, Ops, Threads
<1>1. CASE UNCHANGED vars
  BY <1>1 DEF vars
<1>2. CASE EntropyInit
  BY <1>2 DEF EntropyInit
<1>3. CASE Restore
  BY <1>3 DEF Restore
<1>4. ASSUME NEW n \in Payments, Pay(n) PROVE TypeOK'
  <2>1. filled' \in BOOLEAN
    BY <1>4, Zenon DEF Pay
  <2>2. units' \in Nat /\ stash' \in Nat \cup {-1} /\ mass' \in 0..Full
    BY <1>4 DEF Pay
  <2> QED
    BY <1>4, <2>1, <2>2 DEF Pay
<1>5. ASSUME NEW t \in Threads, NEW name \in Ops \ {"none"}, Call(t, name) PROVE TypeOK'
  BY <1>5 DEF Call
<1>6. ASSUME NEW t \in Threads, LockFile(t) PROVE TypeOK'
  BY <1>6 DEF LockFile
<1>7. ASSUME NEW t \in Threads, Read(t) PROVE TypeOK'
  BY <1>7 DEF Read
<1>8. ASSUME NEW t \in Threads, LockPool(t) PROVE TypeOK'
  BY <1>8 DEF LockPool
<1>9. ASSUME NEW t \in Threads, HashSeed(t) PROVE TypeOK'
  <2>1. broken' \in BOOLEAN /\ initialised' \in BOOLEAN /\ waived' \in BOOLEAN
    BY <1>9, Zenon DEF HashSeed
  <2>2. filled' \in BOOLEAN
    BY <1>9, Zenon DEF HashSeed
  <2>3. units' \in Nat /\ stash' \in Nat \cup {-1} /\ mass' \in 0..Full
    BY <1>9 DEF HashSeed
  <2>4. next' \in [Threads -> Nat] /\ seed' \in Nat /\ epoch' \in Nat \ {0}
    BY <1>9 DEF HashSeed
  <2>5. pc' \in [Threads -> Steps] /\ op' \in [Threads -> Ops]
    BY <1>9 DEF HashSeed
  <2>6. fileLock' \in Threads \cup {Nobody} /\ poolLock' \in Threads \cup {Nobody}
    BY <1>9 DEF HashSeed, UnlockPool
  <2> QED
    BY <2>1, <2>2, <2>3, <2>4, <2>5, <2>6
<1>10. ASSUME NEW t \in Threads, SeedWrite(t) PROVE TypeOK'
  BY <1>10 DEF SeedWrite
<1>11. ASSUME NEW t \in Threads, SeedRemove(t) PROVE TypeOK'
  BY <1>11 DEF SeedRemove
<1>12. ASSUME NEW t \in Threads, Recount(t) PROVE TypeOK'
  <2>1. pc' \in [Threads -> Steps] /\ op' \in [Threads -> Ops]
    BY <1>12 DEF Recount
  <2>2. fileLock' \in Threads \cup {Nobody} /\ poolLock' \in Threads \cup {Nobody}
    BY <1>12 DEF Recount
  <2>3. CASE op[t] = "stash"
    BY <1>12, <2>1, <2>2, <2>3 DEF Recount, StashCount
  <2>4. CASE op[t] # "stash"
    <3>1. filled' \in BOOLEAN /\ waived' \in BOOLEAN /\ broken' = broken /\ initialised' = initialised
      BY <1>12, <2>4, Zenon DEF Recount, ForgetCount
    <3> QED
      BY <1>12, <2>1, <2>2, <2>4, <3>1 DEF Recount, ForgetCount
  <2> QED
    BY <2>3, <2>4
<1>13. ASSUME NEW t \in Threads, AllowUnswept(t) PROVE TypeOK'
  BY <1>13 DEF AllowUnswept
<1>14. ASSUME NEW t \in Threads, Draw(t) PROVE TypeOK'
  BY <1>14 DEF Draw
<1> HIDE DEF TypeOK, count, gate, file, locks, Goto, Leave, Hash, Steps, Ops, Threads
<1> QED
  BY <1>1, <1>2, <1>3, <1>4, <1>5, <1>6, <1>7, <1>8, <1>9, <1>10, <1>11, <1>12, <1>13, <1>14
     DEF Next, Step

THEOREM TypeCorrect == Spec => []TypeOK
<1>1. ASSUME Init PROVE TypeOK
  <2>1. initialised \in BOOLEAN /\ broken \in BOOLEAN /\ filled \in BOOLEAN /\ waived \in BOOLEAN
    BY <1>1, Zenon DEF Init
  <2> QED
    BY <1>1, <2>1 DEF Init, TypeOK, Threads, Steps, Ops
<1> QED
  BY <1>1, TypeStep, PTL DEF Spec
-----------------------------------------------------------------------------
(* Each call keeps to the lock order: nothing is past a lock another holds. *)
LEMMA LockStep == TypeOK /\ LockInv /\ [Next]_vars => LockInv'
<1> SUFFICES ASSUME TypeOK, LockInv, [Next]_vars PROVE LockInv'
  OBVIOUS
<1>0. pc \in [Threads -> Steps] /\ op \in [Threads -> Ops] /\ Nobody \notin Threads
  BY DEF TypeOK, Threads
<1>1. CASE UNCHANGED vars
  BY <1>1 DEF vars, locks, LockInv
<1>2. CASE EntropyInit \/ Restore \/ \E n \in Payments : Pay(n)
  BY <1>2 DEF EntropyInit, Restore, Pay, locks, LockInv
<1>3. ASSUME NEW t \in Threads, Step(t) PROVE LockInv'
  <2> USE <1>0 DEF LockInv, HoldsFile, Steps, Goto, locks, Leave
  <2>1. ASSUME NEW name \in Ops \ {"none"}, Call(t, name) PROVE LockInv'
    <3>1. name \in {"load", "save"} \/ (name \in {"stash", "forget"} /\ t = Owner)
      BY <2>1 DEF Call, Ops
    <3>2. \A v \in Threads : pc'[v] = IF v = t THEN "file" ELSE pc[v]
      BY <2>1 DEF Call
    <3>3. \A v \in Threads : op'[v] = IF v = t THEN name ELSE op[v]
      BY <2>1 DEF Call
    <3>4. UNCHANGED <<fileLock, poolLock>>
      BY <2>1 DEF Call
    <3> QED
      BY <3>1, <3>2, <3>3, <3>4
  <2>2. CASE LockFile(t)
    BY <2>2 DEF LockFile
  <2>3. CASE Read(t)
    BY <2>3 DEF Read
  <2>4. CASE LockPool(t)
    BY <2>4 DEF LockPool
  <2>5. CASE HashSeed(t)
    <3>1. \/ Leave(t)
          \/ pc' = [pc EXCEPT ![t] = "write"] /\ UnlockPool(t) /\ UNCHANGED op
      BY <2>5 DEF HashSeed
    <3> QED
      BY <2>5, <3>1 DEF HashSeed, UnlockPool
  <2>6. CASE SeedWrite(t)
    BY <2>6 DEF SeedWrite
  <2>7. CASE SeedRemove(t)
    BY <2>7 DEF SeedRemove
  <2>8. CASE Recount(t)
    BY <2>8 DEF Recount
  <2>9. CASE AllowUnswept(t) \/ Draw(t)
    BY <2>9 DEF AllowUnswept, Draw
  <2> QED
    BY <1>3, <2>1, <2>2, <2>3, <2>4, <2>5, <2>6, <2>7, <2>8, <2>9 DEF Step
<1> QED
  BY <1>1, <1>2, <1>3 DEF Next

LEMMA LockInit == Init => LockInv
  BY DEF Init, LockInv, HoldsFile

(* No operation lets the count, or the stash, run ahead of the pool. *)
LEMMA CountStep == TypeOK /\ CountBacked /\ [Next]_vars => CountBacked'
<1> SUFFICES ASSUME TypeOK, CountBacked, [Next]_vars PROVE CountBacked'
  OBVIOUS
<1> USE DEF CountBacked, Backed, FilledIsEarned
<1>0. units \in Nat /\ mass \in 0..Full /\ stash \in Nat \cup {-1}
  BY DEF TypeOK
<1>1. CASE UNCHANGED count
  BY <1>1 DEF count
<1>2. CASE EntropyInit
  BY <1>0, <1>2 DEF EntropyInit
<1>3. CASE Restore
  BY <1>0, <1>3 DEF Restore
<1>4. ASSUME NEW n \in Payments, Pay(n) PROVE CountBacked'
  <2>1. Backed(units)' /\ Backed(stash)' /\ (mass = Full => mass' = Full)
    BY <1>0, <1>4 DEF Pay
  <2>2. CASE units' >= Full
    BY <1>0, <1>4, <2>1, <2>2 DEF Pay
  <2>3. CASE ~(units' >= Full)
    <3>1. filled' => filled
      BY <1>4, <2>3, Zenon DEF Pay
    <3> QED
      BY <2>1, <3>1
  <2> QED
    BY <2>2, <2>3
<1>5. ASSUME NEW t \in Threads, HashSeed(t) PROVE CountBacked'
  BY <1>0, <1>5 DEF HashSeed, count
<1>6. ASSUME NEW t \in Threads, Recount(t) PROVE CountBacked'
  BY <1>0, <1>6 DEF Recount, StashCount, ForgetCount
<1>7. ASSUME NEW t \in Threads, Step(t), ~HashSeed(t), ~Recount(t) PROVE UNCHANGED count
  BY <1>7 DEF Step, Call, LockFile, Read, LockPool, SeedWrite, SeedRemove, AllowUnswept, Draw
<1> QED
  BY <1>1, <1>2, <1>3, <1>4, <1>5, <1>6, <1>7 DEF Next, vars

(* The gate opens only on a pool that took in its full measure. *)
THEOREM GateIsEarned == Spec => []FilledIsEarned
<1>1. Init => CountBacked
  BY DEF Init, CountBacked, Backed, FilledIsEarned
<1>2. CountBacked => FilledIsEarned
  BY DEF CountBacked
<1> QED
  BY <1>1, <1>2, TypeCorrect, CountStep, PTL DEF Spec

(* A count that reached FULL, wherever it is kept, is that of a pool that     *)
(* draws, unless a hash has failed.                                           *)
THEOREM FullBarOpensGate == Spec => []FullBarDraws
<1> DEFINE Holds == units >= Full \/ stash >= Full => filled /\ (initialised \/ broken)
<1>1. Init => Holds
  BY DEF Init
<1>2. ASSUME TypeOK, Holds, [Next]_vars PROVE Holds'
  <2>0. units \in Nat /\ stash \in Nat \cup {-1}
    BY <1>2 DEF TypeOK
  <2>1. (initialised => initialised') /\ (broken => broken')
    <3> DEFINE Stays == (initialised => initialised') /\ (broken => broken')
    <3>0. TypeOK /\ TypeOK'
      BY <1>2, TypeStep
    <3> USE <3>0 DEF TypeOK
    <3>1. Hash => (broken => broken')
      <4>1. Hash => broken' = broken \/ broken' = TRUE
        BY DEF Hash
      <4> QED
        BY <4>1
    <3>2. CASE UNCHANGED <<initialised, broken>>
      BY <3>2
    <3>3. CASE EntropyInit
      <4>1. Hash /\ initialised'
        BY <3>3, Zenon DEF EntropyInit
      <4> QED
        BY <4>1, <3>1, Zenon
    <3>4. ASSUME NEW n \in Payments, Pay(n) PROVE Stays
      <4>1. Hash /\ UNCHANGED initialised
        BY <3>4, Zenon DEF Pay
      <4> QED
        BY <4>1, <3>1, Zenon
    <3>5. ASSUME NEW t \in Threads, HashSeed(t) \/ Draw(t) PROVE Stays
      BY <3>5 DEF HashSeed, Draw, Hash
    <3>6. ASSUME NEW t \in Threads, Step(t), ~HashSeed(t), ~Draw(t)
          PROVE  UNCHANGED gate \/ AllowUnswept(t) \/ Recount(t)
      BY <3>6 DEF Step, Call, LockFile, Read, LockPool, SeedWrite, SeedRemove
    <3>7. ASSUME NEW t \in Threads, AllowUnswept(t) \/ Recount(t) PROVE UNCHANGED <<initialised, broken>>
      BY <3>7 DEF AllowUnswept, Recount
    <3>8. CASE UNCHANGED vars \/ Restore
      BY <3>8 DEF vars, Restore, gate
    <3>9. UNCHANGED gate => UNCHANGED <<initialised, broken>>
      BY DEF gate
    <3> QED
      BY <1>2, <3>2, <3>3, <3>4, <3>5, <3>6, <3>7, <3>8, <3>9 DEF Next
  <2>2. CASE UNCHANGED count
    BY <1>2, <2>1, <2>2 DEF count
  <2>3. CASE EntropyInit
    BY <1>2, <2>0, <2>1, <2>3 DEF EntropyInit
  <2>4. CASE Restore
    BY <1>2, <2>0, <2>1, <2>4 DEF Restore
  <2>5. ASSUME NEW n \in Payments, Pay(n) PROVE Holds'
    BY <1>2, <2>0, <2>1, <2>5 DEF Pay
  <2>6. ASSUME NEW t \in Threads, HashSeed(t) PROVE Holds'
    BY <1>2, <2>0, <2>1, <2>6 DEF HashSeed, count
  <2>7. ASSUME NEW t \in Threads, Recount(t) PROVE Holds'
    BY <1>2, <2>0, <2>1, <2>7 DEF Recount, StashCount, ForgetCount
  <2>8. ASSUME NEW t \in Threads, Step(t), ~HashSeed(t), ~Recount(t) PROVE UNCHANGED count
    BY <2>8 DEF Step, Call, LockFile, Read, LockPool, SeedWrite, SeedRemove, AllowUnswept, Draw
  <2> QED
    BY <1>2, <2>2, <2>3, <2>4, <2>5, <2>6, <2>7, <2>8 DEF Next, vars
<1>3. TypeOK /\ Holds => FullBarDraws
  BY Zenon DEF FullBarDraws, MayDraw
<1> QED
  BY <1>1, <1>2, <1>3, TypeCorrect, PTL DEF Spec

(* The gate, once open, closes in entropy_forget alone. *)
THEOREM OnlyForgetShuts == Spec => OnlyForgetDries
<1> DEFINE Shut == filled /\ ~filled' => pc[Owner] = "recount" /\ op[Owner] = "forget"
<1>1. ASSUME TypeOK, LockInv, Next PROVE Shut
  <2>1. CASE EntropyInit \/ Restore
    BY <2>1 DEF EntropyInit, Restore
  <2>2. ASSUME NEW n \in Payments, Pay(n) PROVE Shut
    BY <2>2, Zenon DEF Pay
  <2>3. ASSUME NEW t \in Threads, HashSeed(t) PROVE Shut
    BY <2>3 DEF HashSeed, count
  <2>4. ASSUME NEW t \in Threads, Recount(t) PROVE Shut
    <3>1. t = Owner /\ op[t] \in {"stash", "forget"}
      BY <1>1, <2>4 DEF Recount, LockInv
    <3> QED
      BY <2>4, <3>1 DEF Recount, StashCount
  <2>5. ASSUME NEW t \in Threads, Step(t), ~HashSeed(t), ~Recount(t) PROVE UNCHANGED filled
    BY <2>5 DEF Step, Call, LockFile, Read, LockPool, SeedWrite, SeedRemove, AllowUnswept, Draw,
                count
  <2> QED
    BY <1>1, <2>1, <2>2, <2>3, <2>4, <2>5 DEF Next
<1>2. UNCHANGED vars => ~(filled /\ ~filled')
  BY DEF vars, count
<1>3. TypeOK /\ LockInv /\ [Next]_vars => [Shut]_vars
  BY <1>1, <1>2
<1> QED
  BY <1>3, TypeCorrect, LockInit, LockStep, PTL DEF Spec, OnlyForgetDries
-----------------------------------------------------------------------------
(* While one thread is past the file lock no other is, so a forget finds no *)
(* successor of the forgotten epoch that could still be written.            *)
LEMMA EpochStep == TypeOK /\ LockInv /\ EpochInv /\ [Next]_vars => EpochInv'
<1> SUFFICES ASSUME TypeOK, LockInv, EpochInv, [Next]_vars PROVE EpochInv'
  OBVIOUS
<1> USE DEF EpochInv, ForgottenStaysForgotten, Goto, file
<1>0. pc \in [Threads -> Steps] /\ next \in [Threads -> Nat] /\ seed \in Nat /\ epoch \in Nat \ {0}
  BY DEF TypeOK
<1>1. CASE UNCHANGED vars
  BY <1>1 DEF vars
<1>2. CASE EntropyInit \/ Restore \/ \E n \in Payments : Pay(n)
  BY <1>2 DEF EntropyInit, Restore, Pay
<1>3. ASSUME NEW t \in Threads, Step(t) PROVE EpochInv'
  <2> USE <1>0
  <2>1. ASSUME NEW name \in Ops \ {"none"}, Call(t, name) PROVE EpochInv'
    BY <2>1 DEF Call
  <2>2. CASE LockFile(t)
    BY <2>2 DEF LockFile
  <2>3. CASE Read(t)
    BY <2>3 DEF Read, Leave
  <2>4. CASE LockPool(t)
    BY <2>4 DEF LockPool
  <2>5. CASE HashSeed(t)
    <3>1. \/ pc' = [pc EXCEPT ![t] = "idle"] /\ UNCHANGED next
          \/ pc' = [pc EXCEPT ![t] = "write"] /\ next' = [next EXCEPT ![t] = epoch]
      BY <2>5 DEF HashSeed, Leave
    <3> QED
      BY <2>5, <3>1 DEF HashSeed
  <2>6. CASE SeedWrite(t)
    BY <2>6 DEF SeedWrite, Leave, LockInv, HoldsFile
  <2>7. CASE SeedRemove(t)
    BY <2>7 DEF SeedRemove
  <2>8. CASE Recount(t)
    <3>1. pc[t] = "recount" /\ seed = 0 /\ fileLock = t
      BY <2>8 DEF Recount, LockInv, HoldsFile
    <3>2. \A v \in Threads : next[v] = 0
      BY <3>1 DEF LockInv, HoldsFile
    <3> QED
      BY <2>8, <3>1, <3>2 DEF Recount, Leave
  <2>9. CASE AllowUnswept(t) \/ Draw(t)
    BY <2>9 DEF AllowUnswept, Draw
  <2> QED
    BY <1>3, <2>1, <2>2, <2>3, <2>4, <2>5, <2>6, <2>7, <2>8, <2>9 DEF Step
<1> QED
  BY <1>1, <1>2, <1>3 DEF Next

(* No seed of before a forget is on the stick after it. *)
THEOREM ForgottenForGood == Spec => []ForgottenStaysForgotten
<1>1. Init => EpochInv
  BY DEF Init, EpochInv, ForgottenStaysForgotten
<1>2. EpochInv => ForgottenStaysForgotten
  BY DEF EpochInv
<1> QED
  BY <1>1, <1>2, TypeCorrect, LockInit, LockStep, EpochStep, PTL DEF Spec
=============================================================================
