-------------------------- MODULE SeedFile_proofs --------------------------
(***************************************************************************)
(* Proofs about SeedFile, for any set of calls that may fail and any       *)
(* number of seeds.  Two of the theorems need the rename in recover to     *)
(* work: where it fails the code does lose the seed.  Two need a path that *)
(* names its device: where it names none the code syncs nothing, and a cut *)
(* may leave half a seed.                                                  *)
(***************************************************************************)
EXTENDS SeedFile, TLAPS

USE DeviceAssumption, MayFailAssumption, MaxSeedsAssumption

(* seed.new holds the seed last derived when it takes the name seed, ... *)
DiskInv ==
  /\ pc \in {"recover", "write", "sync", "dropBak", "aside", "promote"} => derived > 0
  /\ pc \in {"sync", "dropBak", "aside", "promote"} => disk["new"] = derived

(* ... and, on a device, takes it only once its bytes are on the stick. *)
SyncInv ==
  /\ disk["seed"] # Torn /\ disk["bak"] # Torn
  /\ unsynced \subseteq {"new"}
  /\ pc \in {"dropBak", "aside", "promote"} => unsynced = {}

(* Once recover has done its work a .bak has a seed beside it until the seed *)
(* itself is put aside; a removal is what its two steps belong to.           *)
NamesInv ==
  /\ pc \in {"write", "sync", "dropBak", "aside"} => Exists("seed") \/ ~Exists("bak")
  /\ pc \in {"promote", "rollback"} => ~Exists("seed")
  /\ pc \in {"syncNew", "tidy"} => Exists("seed")
  /\ pc \in {"removeBak", "removeSeed"} => op = "remove"

Inv == TypeOK /\ DiskInv
-----------------------------------------------------------------------------
(* What a rename moves: the bytes, and with them the wait for a sync *)
LEMMA RenameMoves ==
  ASSUME TypeOK, NEW from \in Names, NEW to \in Names, from # to, Rename(from, to)
  PROVE  /\ disk' \in [Names -> {Absent, Torn} \cup 1..MaxSeeds]
         /\ unsynced' \in SUBSET Names
         /\ disk'[to] = disk[from] /\ disk'[from] = Absent
         /\ \A n \in Names \ {from, to} : disk'[n] = disk[n]
         /\ from \notin unsynced => unsynced' \subseteq unsynced
<1>1. disk' = [disk EXCEPT ![to] = disk[from], ![from] = Absent]
  BY DEF Rename
<1>2. /\ unsynced' = (unsynced \ {from, to}) \cup (IF from \in unsynced THEN {to} ELSE {})
      /\ unsynced \in SUBSET Names
  BY DEF Rename, TypeOK
<1>3. unsynced' \in SUBSET Names /\ (from \notin unsynced => unsynced' \subseteq unsynced)
  BY <1>2
<1> QED
  BY <1>1, <1>3 DEF TypeOK, Absent

LEMMA RecoverStep ==
  ASSUME Inv, NEW step \in Steps, NEW next \in Steps, Recover(step, next),
         step # next, <<step, next>> \in {<<"recover", "write">>, <<"readRecover", "read">>}
  PROVE  Inv'
  BY DEF Recover, Inv, TypeOK, DiskInv, Rename, SameDisk, SameRam, Goto, Names, Exists, Absent,
         Torn, Steps, WriteSteps, Outcome

(* The types hold, and a write has what it needs. *)
LEMMA InvStep == Inv /\ [Next]_vars => Inv'
<1> SUFFICES ASSUME Inv, [Next]_vars PROVE Inv'
  OBVIOUS
<1> USE DEF Inv, TypeOK, DiskInv, Names, Absent, Torn, Ops, Steps, WriteSteps, SameDisk, SameRam,
            Goto, Return
<1>1. CASE UNCHANGED vars
  BY <1>1 DEF vars
<1>2. CASE Sweep
  BY <1>2 DEF Sweep
<1>3. CASE Load \/ Save \/ StashOrForget
  BY <1>3 DEF Load, Save, StashOrForget, Call
<1>4. CASE Recover("readRecover", "read")
  BY <1>4, RecoverStep
<1>5. CASE Read
  BY <1>5 DEF Read
<1>6. CASE Derive
  BY <1>6 DEF Derive
<1>7. CASE SeedWrite
  <2>1. CASE Recover("recover", "write")
    BY <2>1, RecoverStep
  <2>2. CASE Write
    <3>1. unsynced' \in SUBSET Names
      BY <2>2 DEF Write
    <3>2. /\ disk' \in [Names -> {Absent, Torn} \cup 1..MaxSeeds]
          /\ pc' = "idle" \/ (pc' = "sync" /\ disk'["new"] = derived)
      BY <2>2 DEF Write
    <3>3. op' \in Ops /\ pc' \in Steps /\ derived > 0 /\ UNCHANGED <<had, derived, filled>>
      BY <2>2 DEF Write, SameRam
    <3> QED
      BY <3>1, <3>2, <3>3
  <2>3. CASE Sync("sync", "dropBak")
    BY <2>3 DEF Sync, NothingToSync
  <2>4. CASE DropBak
    BY <2>4 DEF DropBak, RemoveName, Exists
  <2>5. CASE Aside
    BY <2>5 DEF Aside, Rename, Exists
  <2>6. CASE Promote
    BY <2>6 DEF Promote, Rename
  <2>7. CASE Rollback
    BY <2>7 DEF Rollback, Rename
  <2>8. CASE Sync("syncNew", "tidy")
    BY <2>8 DEF Sync, NothingToSync
  <2>9. CASE Tidy
    BY <2>9 DEF Tidy, RemoveName
  <2> QED
    BY <1>7, <2>1, <2>2, <2>3, <2>4, <2>5, <2>6, <2>7, <2>8, <2>9 DEF SeedWrite
<1>8. CASE SeedRemove
  BY <1>8 DEF SeedRemove, RemoveStep, RemoveName
<1>9. CASE Crash
  BY <1>9 DEF Crash
<1> HIDE DEF Inv
<1> QED
  BY <1>1, <1>2, <1>3, <1>4, <1>5, <1>6, <1>7, <1>8, <1>9 DEF Next

LEMMA InvInit == Init => Inv
<1> SUFFICES ASSUME Init PROVE Inv
  OBVIOUS
<1>1. had \in BOOLEAN /\ filled \in BOOLEAN
  BY Zenon DEF Init
<1> QED
  BY <1>1 DEF Init, Inv, TypeOK, DiskInv, Names, Absent, Torn, Ops, Steps

LEMMA InvAlways == Spec => []Inv
  BY InvInit, InvStep, PTL DEF Spec

(* The variables keep their types, whatever fails and whatever is synced. *)
THEOREM TypeCorrect == Spec => []TypeOK
<1>1. Inv => TypeOK
  BY DEF Inv
<1> QED
  BY <1>1, InvAlways, PTL

(* On a device no name that a run reads holds half a seed. *)
LEMMA SyncStep ==
  ASSUME Device, Inv, SyncInv, [Next]_vars
  PROVE  SyncInv'
<1> USE DEF Inv, TypeOK, DiskInv, SyncInv, Names, Absent, Torn, SameDisk, SameRam, Goto, Return
<1>1. CASE UNCHANGED vars
  BY <1>1 DEF vars
<1>2. CASE Sweep \/ Load \/ Save \/ StashOrForget
  BY <1>2 DEF Sweep, Load, Save, StashOrForget, Call
<1>3. ASSUME NEW from \in Names, NEW to \in Names, from # to, Rename(from, to),
             from \notin unsynced, disk[from] # Torn,
             pc' \in {"dropBak", "aside", "promote"} => unsynced = {}
      PROVE  SyncInv'
  <2> HIDE DEF SyncInv
  <2>1. /\ disk'[to] = disk[from] /\ disk'[from] = Absent
        /\ \A n \in Names \ {from, to} : disk'[n] = disk[n]
        /\ unsynced' \subseteq unsynced
    BY <1>3, RenameMoves DEF Inv
  <2> QED
    BY <1>3, <2>1 DEF SyncInv
<1>4. CASE Recover("readRecover", "read") \/ Recover("recover", "write")
  BY <1>3, <1>4 DEF Recover
<1>5. CASE Read \/ Derive
  BY <1>5 DEF Read, Derive
<1>6. CASE Write
  <2>1. unsynced' \subseteq {"new"} /\ pc' \in {"sync", "idle"}
    BY <1>6 DEF Write
  <2>2. disk'["seed"] = disk["seed"] /\ disk'["bak"] = disk["bak"]
    BY <1>6 DEF Write
  <2> QED
    BY <2>1, <2>2
<1>7. CASE Sync("sync", "dropBak") \/ Sync("syncNew", "tidy")
  BY <1>7 DEF Sync, NothingToSync
<1>8. CASE DropBak \/ Tidy
  <2>1. pc' \in {"aside", "idle"} /\ (pc' = "aside" => pc = "dropBak")
    BY <1>8 DEF DropBak, Tidy
  <2>2. unsynced' \subseteq unsynced
    BY <1>8 DEF DropBak, Tidy, RemoveName
  <2>3. disk'["seed"] = disk["seed"] /\ disk'["bak"] \in {disk["bak"], Absent}
    BY <1>8 DEF DropBak, Tidy, RemoveName
  <2> QED
    BY <2>1, <2>2, <2>3
<1>9. CASE Aside \/ Promote \/ Rollback
  <2>1. CASE SameDisk
    BY <1>9, <2>1 DEF Aside, Promote, Rollback
  <2>2. CASE Aside /\ Rename("seed", "bak")
    BY <1>3, <2>2 DEF Aside
  <2>3. CASE Promote /\ Rename("new", "seed")
    BY <1>3, <2>3 DEF Promote
  <2>4. CASE Rollback /\ Rename("bak", "seed")
    BY <1>3, <2>4 DEF Rollback
  <2> QED
    BY <1>9, <2>1, <2>2, <2>3, <2>4 DEF Aside, Promote, Rollback
<1>10. CASE SeedRemove
  <2>1. pc' \in {"removeSeed", "idle"}
    BY <1>10 DEF SeedRemove, RemoveStep
  <2>2. unsynced' \subseteq unsynced
    BY <1>10 DEF SeedRemove, RemoveStep, RemoveName
  <2>3. disk'["seed"] \in {disk["seed"], Absent} /\ disk'["bak"] \in {disk["bak"], Absent}
    BY <1>10 DEF SeedRemove, RemoveStep, RemoveName
  <2> QED
    BY <2>1, <2>2, <2>3
<1>11. CASE Crash
  <2>1. PICK lost \in SUBSET unsynced : disk' = [n \in Names |-> IF n \in lost THEN Torn ELSE disk[n]]
    BY <1>11 DEF Crash
  <2>2. "seed" \notin lost /\ "bak" \notin lost
    BY <2>1
  <2> QED
    BY <1>11, <2>1, <2>2 DEF Crash
<1> QED
  BY <1>1, <1>2, <1>4, <1>5, <1>6, <1>7, <1>8, <1>9, <1>10, <1>11 DEF Next, SeedWrite

LEMMA SyncInit == Init => SyncInv
  BY DEF Init, SyncInv, Absent, Torn, Names

LEMMA SyncAlways ==
  ASSUME Device
  PROVE  Spec => []SyncInv
<1>1. Inv /\ SyncInv /\ [Next]_vars => SyncInv'
  BY SyncStep
<1> QED
  BY <1>1, SyncInit, InvAlways, PTL DEF Spec

(* If the path names its device, a cut at any point leaves a whole seed or *)
(* none.                                                                   *)
THEOREM WholeAfterCut ==
  ASSUME Device
  PROVE  Spec => []SeedIsWhole
<1>1. SyncInv => SeedIsWhole
  BY DEF SyncInv, SeedIsWhole, Recoverable
<1> QED
  BY <1>1, SyncAlways, PTL
-----------------------------------------------------------------------------
(* With a recover that works, names and files stay in step. *)
LEMMA NamesStep ==
  ASSUME "recover" \notin MayFail, Inv, NamesInv, [Next]_vars
  PROVE  NamesInv'
<1> USE DEF NamesInv, SameDisk, SameRam, Goto, Return, Exists, Rename, RemoveName, Absent
<1>0. disk \in [Names -> {Absent, Torn} \cup 1..MaxSeeds]
  BY DEF Inv, TypeOK
<1>1. CASE UNCHANGED vars
  BY <1>1 DEF vars
<1>2. CASE Sweep \/ Load \/ Save \/ StashOrForget
  BY <1>2 DEF Sweep, Load, Save, StashOrForget, Call
<1>3. CASE Recover("readRecover", "read")
  BY <1>3 DEF Recover
<1>4. CASE Read \/ Derive
  BY <1>4 DEF Read, Derive
<1>5. CASE SeedWrite
  <2> USE <1>0 DEF Names
  <2>1. CASE Recover("recover", "write")
    BY <2>1 DEF Recover, Outcome, Torn
  <2>2. CASE Write
    BY <2>2 DEF Write
  <2>3. CASE Sync("sync", "dropBak")
    BY <2>3 DEF Sync, NothingToSync
  <2>4. CASE DropBak
    BY <2>4 DEF DropBak
  <2>5. CASE Aside
    BY <2>5 DEF Aside
  <2>6. CASE Promote
    BY <2>6 DEF Promote, Inv, DiskInv
  <2>7. CASE Rollback
    BY <2>7 DEF Rollback
  <2>8. CASE Sync("syncNew", "tidy")
    BY <2>8 DEF Sync, NothingToSync
  <2>9. CASE Tidy
    BY <2>9 DEF Tidy
  <2> QED
    BY <1>5, <2>1, <2>2, <2>3, <2>4, <2>5, <2>6, <2>7, <2>8, <2>9 DEF SeedWrite
<1>6. CASE SeedRemove
  BY <1>6 DEF SeedRemove, RemoveStep
<1>7. CASE Crash
  BY <1>7 DEF Crash
<1> QED
  BY <1>1, <1>2, <1>3, <1>4, <1>5, <1>6, <1>7 DEF Next

LEMMA NamesInit == Init => NamesInv
  BY DEF Init, NamesInv

(* What a step of a write does to the seed a run would find: nothing, or the *)
(* successor takes its place whole.                                          *)
LEMMA WriteKeeps ==
  ASSUME "recover" \notin MayFail, Inv, NamesInv, SeedWrite
  PROVE  /\ derived' = derived
         /\ \/ Recoverable' = Recoverable
            \/ pc = "promote" /\ pc' = "syncNew" /\ Recoverable' = derived /\ derived > 0
<1> USE DEF Inv, DiskInv, TypeOK, NamesInv, Recoverable, SameDisk, SameRam, Goto, Return, Exists,
            Rename, RemoveName, Absent, Names
<1>1. CASE Recover("recover", "write")
  BY <1>1 DEF Recover
<1>2. CASE Write
  BY <1>2 DEF Write
<1>3. CASE Sync("sync", "dropBak") \/ Sync("syncNew", "tidy")
  BY <1>3 DEF Sync, NothingToSync
<1>4. CASE DropBak
  BY <1>4 DEF DropBak
<1>5. CASE Aside
  BY <1>5 DEF Aside
<1>6. CASE Promote
  BY <1>6 DEF Promote
<1>7. CASE Rollback
  BY <1>7 DEF Rollback
<1>8. CASE Tidy
  BY <1>8 DEF Tidy
<1> QED
  BY <1>1, <1>2, <1>3, <1>4, <1>5, <1>6, <1>7, <1>8 DEF SeedWrite

(* Nor does anything else but a removal and a cut. *)
LEMMA OthersKeep ==
  ASSUME Inv, NamesInv,
         \/ UNCHANGED vars \/ Sweep \/ Load \/ Save \/ StashOrForget
         \/ Recover("readRecover", "read") \/ Read \/ Derive
  PROVE  Recoverable' = Recoverable
<1> USE DEF Inv, DiskInv, TypeOK, NamesInv, Recoverable, SameDisk, SameRam, Goto, Return, Exists,
            Rename, Absent, Names
<1>1. CASE UNCHANGED vars
  BY <1>1 DEF vars
<1>2. CASE Sweep \/ Load \/ Save \/ StashOrForget \/ Read \/ Derive
  BY <1>2 DEF Sweep, Load, Save, StashOrForget, Call, Read, Derive
<1>3. CASE Recover("readRecover", "read")
  BY <1>3 DEF Recover
<1> QED
  BY <1>1, <1>2, <1>3

(* A cut may tear the seed of a path without a device; that leaves a file    *)
(* where one was, and on a device it leaves the seed as well.                *)
LEMMA CrashKeeps ==
  ASSUME Inv, Crash
  PROVE  /\ Recoverable' = Absent => Recoverable = Absent
         /\ SyncInv => Recoverable' = Recoverable
<1> USE DEF Inv, TypeOK, Recoverable, Exists, Absent, Torn, Names
<1>1. PICK lost \in SUBSET unsynced : disk' = [n \in Names |-> IF n \in lost THEN Torn ELSE disk[n]]
  BY DEF Crash
<1>2. SyncInv => "seed" \notin lost /\ "bak" \notin lost
  BY <1>1 DEF SyncInv
<1>3. disk'["seed"] \in {disk["seed"], Torn} /\ disk'["bak"] \in {disk["bak"], Torn}
  BY <1>1
<1>4. SyncInv => disk'["seed"] = disk["seed"] /\ disk'["bak"] = disk["bak"]
  BY <1>1, <1>2
<1>5. Recoverable' = Absent => Recoverable = Absent
  BY <1>3
<1> QED
  BY <1>4, <1>5

(* A write of the successor never costs the seed it replaces, if recover may *)
(* count on its rename, synced or not.                                       *)
THEOREM SeedSafeFromWrites ==
  ASSUME "recover" \notin MayFail
  PROVE  Spec => SeedNeverLost
<1> DEFINE Safe == Recoverable # Absent /\ Recoverable' = Absent => op = "remove"
<1>1. NamesInv /\ Inv /\ [Next]_vars => NamesInv'
  BY NamesStep
<1>2. ASSUME Inv, NamesInv, [Next]_vars PROVE Safe
  <2>1. CASE SeedRemove
    BY <1>2, <2>1 DEF NamesInv, SeedRemove, RemoveStep
  <2>2. CASE SeedWrite
    BY <1>2, <2>2, WriteKeeps DEF Absent
  <2>3. CASE Crash
    BY <1>2, <2>3, CrashKeeps
  <2>4. CASE ~SeedRemove /\ ~SeedWrite /\ ~Crash
    BY <1>2, <2>4, OthersKeep DEF Next
  <2> QED
    BY <2>1, <2>2, <2>3, <2>4
<1>3. Inv /\ NamesInv /\ [Next]_vars => [Safe]_vars
  BY <1>2
<1> QED
  BY <1>1, <1>3, InvAlways, NamesInit, PTL DEF Spec, SeedNeverLost
-----------------------------------------------------------------------------
(* The .bak goes before the seed, so no old seed is left to come back. *)
RemovalInv == pc = "removeSeed" => ~Exists("bak")

LEMMA RemovalStep ==
  ASSUME "remove" \notin MayFail, Inv, RemovalInv, [Next]_vars
  PROVE  RemovalInv'
<1> USE DEF Inv, TypeOK, RemovalInv, SameDisk, SameRam, Goto, Return, Exists
<1>1. CASE UNCHANGED vars \/ Sweep
  BY <1>1 DEF vars, Sweep
<1>2. CASE SeedRemove
  BY <1>2 DEF SeedRemove, RemoveStep, RemoveName, Outcome, Absent, Names
<1>3. CASE Load \/ Save \/ StashOrForget
  BY <1>3 DEF Load, Save, StashOrForget, Call
<1>4. CASE Recover("readRecover", "read") \/ Read \/ Derive \/ Crash
  BY <1>4 DEF Recover, Read, Derive, Crash
<1>5. CASE SeedWrite
  BY <1>5 DEF SeedWrite, Recover, Write, Sync, NothingToSync, DropBak, Aside, Promote, Rollback, Tidy
<1> QED
  BY <1>1, <1>2, <1>3, <1>4, <1>5 DEF Next

(* The three names implement the cell, where the path names its device and   *)
(* the rename in recover and the removals work.                              *)
THEOREM CellImplemented ==
  ASSUME Device, "recover" \notin MayFail, "remove" \notin MayFail
  PROVE  Spec => ImplementsCell
<1> DEFINE Pending == pc \in {"recover", "write", "sync", "dropBak", "aside", "promote"}
           CellVars == <<Recoverable, derived, Pending>>
<1>1. NamesInv /\ Inv /\ [Next]_vars => NamesInv'
  BY NamesStep
<1>2. RemovalInv /\ Inv /\ [Next]_vars => RemovalInv'
  BY RemovalStep
<1>3. Init => RemovalInv /\ Cell!Init
  BY DEF Init, RemovalInv, Cell!Init, Recoverable, Exists, Absent, Names
<1>4. ASSUME Inv, SyncInv, NamesInv, RemovalInv, [Next]_vars PROVE [Cell!Next]_CellVars
  <2> USE DEF Cell!Next, Cell!Derive, Cell!Store, Cell!Lapse, Cell!Erase
  <2>1. CASE UNCHANGED vars
    BY <2>1 DEF vars, Recoverable, Exists
  <2>2. CASE Sweep
    BY <1>4, <2>2, OthersKeep DEF Sweep
  <2>3. CASE Load \/ Save \/ StashOrForget \/ Read \/ Recover("readRecover", "read")
    <3>1. Recoverable' = Recoverable
      BY <1>4, <2>3, OthersKeep
    <3>2. derived' = derived /\ (~Pending /\ ~Pending')
      BY <2>3 DEF Load, Save, StashOrForget, Call, Read, Recover, SameRam, Goto, Return
    <3> QED
      BY <3>1, <3>2
  <2>4. CASE Derive
    BY <1>4, <2>4, OthersKeep DEF Derive, Goto
  <2>5. CASE Crash
    <3>1. Recoverable' = Recoverable
      BY <1>4, <2>5, CrashKeeps
    <3>2. derived' = derived /\ ~Pending'
      BY <2>5 DEF Crash, Return
    <3>3. CASE Pending
      BY <3>1, <3>2, <3>3
    <3>4. CASE ~Pending
      BY <3>1, <3>2, <3>4
    <3> QED
      BY <3>3, <3>4
  <2>6. CASE SeedWrite
    <3>1. (Pending /\ Pending') \/ ~Pending'
      BY <2>6 DEF SeedWrite, Recover, Write, Sync, NothingToSync, DropBak, Aside, Promote, Rollback,
                      Tidy, Goto, Return
    <3>2. CASE Recoverable' = Recoverable /\ derived' = derived
      BY <3>1, <3>2
    <3>3. CASE pc = "promote" /\ pc' = "syncNew" /\ Recoverable' = derived /\ derived' = derived
      BY <3>3
    <3> QED
      BY <1>4, <2>6, <3>2, <3>3, WriteKeeps
  <2>7. CASE SeedRemove
    <3>1. derived' = derived /\ ~Pending /\ ~Pending'
      BY <2>7 DEF SeedRemove, RemoveStep, SameRam, Goto, Return
    <3>2. Recoverable' \in {Recoverable, 0}
      BY <1>4, <2>7 DEF SeedRemove, RemoveStep, RemoveName, SameDisk, RemovalInv, Recoverable, Exists,
                        Absent, Inv, TypeOK, Names, Outcome
    <3> QED
      BY <3>1, <3>2
  <2> QED
    BY <1>4, <2>1, <2>2, <2>3, <2>4, <2>5, <2>6, <2>7 DEF Next
<1> QED
  BY <1>1, <1>2, <1>3, <1>4, InvAlways, SyncAlways, NamesInit, PTL DEF Spec, ImplementsCell, Cell!Spec
=============================================================================
