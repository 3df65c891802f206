------------------------------ MODULE SeedFile ------------------------------
(***************************************************************************)
(* The seed file of src/entropy.c, call by call: seed_read, seed_write and *)
(* seed_remove over the three names seed, seed.bak and seed.new, as        *)
(* entropy_load, entropy_save and the two removers (stash, forget) run     *)
(* them under the file lock.  Any call named in MayFail may fail, and the  *)
(* console may be cut off between two calls.                               *)
(*                                                                         *)
(* Renames and removals reach the stick in the order they are made; the    *)
(* bytes of a new file are sure to be on it only after sceIoSync, which    *)
(* the code calls for a path that names its device (device_of).            *)
(***************************************************************************)
EXTENDS Integers

CONSTANTS
  Device,    \* the seed's path names a device to sync, as "ms0:/..." does
  MayFail,   \* the steps whose sceIo call may fail
  MaxSeeds   \* bound of the model: seeds the pool derives in all

ASSUME DeviceAssumption == Device \in BOOLEAN
ASSUME MayFailAssumption ==
  MayFail \subseteq {"recover", "read", "open", "write", "sync", "dropBak", "aside", "promote",
                    "rollback", "tidy", "remove"}
ASSUME MaxSeedsAssumption == MaxSeeds \in Nat

VARIABLES
  disk,      \* what each name holds: Absent, Torn or the number of a seed
  unsynced,  \* the names whose bytes may not be on the stick yet
  pc, op,    \* the next call, and the operation it belongs to
  had,       \* seed_write's had
  derived,   \* number of the last seed hashed out of the pool
  filled     \* pool_filled, in this run

vars == <<disk, unsynced, pc, op, had, derived, filled>>

Names == {"seed", "bak", "new"}
Absent == 0
Torn == -1
Ops == {"none", "load", "save", "remove"}
WriteSteps == {"recover", "write", "sync", "dropBak", "aside", "promote", "rollback",
               "syncNew", "tidy"}
Steps == {"idle", "readRecover", "read", "derive", "removeBak", "removeSeed"} \cup WriteSteps

TypeOK ==
  /\ disk \in [Names -> {Absent, Torn} \cup 1..MaxSeeds]
  /\ unsynced \in SUBSET Names
  /\ pc \in Steps /\ op \in Ops
  /\ had \in BOOLEAN /\ filled \in BOOLEAN
  /\ derived \in 0..MaxSeeds

Init ==
  /\ disk = [n \in Names |-> Absent]
  /\ unsynced = {}
  /\ pc = "idle" /\ op = "none"
  /\ had = FALSE /\ filled = FALSE
  /\ derived = 0

Exists(n) == disk[n] # Absent

(* A call's outcome: it may fail only if MayFail says so. *)
Outcome(step) == IF step \in MayFail THEN BOOLEAN ELSE {TRUE}

Rename(from, to) ==
  /\ disk' = [disk EXCEPT ![to] = disk[from], ![from] = Absent]
  /\ unsynced' = (unsynced \ {from, to}) \cup (IF from \in unsynced THEN {to} ELSE {})

RemoveName(n) ==
  /\ disk' = [disk EXCEPT ![n] = Absent]
  /\ unsynced' = unsynced \ {n}

Goto(step) == pc' = step /\ UNCHANGED op
Return == pc' = "idle" /\ op' = "none"
SameDisk == UNCHANGED <<disk, unsynced>>
SameRam == UNCHANGED <<had, derived, filled>>
-----------------------------------------------------------------------------
(* The hand has swept the pool full. *)
Sweep ==
  /\ ~filled
  /\ filled' = TRUE
  /\ UNCHANGED <<disk, unsynced, pc, op, had, derived>>

Call(name, step) ==
  /\ pc = "idle"
  /\ op' = name /\ pc' = step
  /\ SameDisk /\ SameRam

Load == Call("load", "readRecover")
Save == filled /\ Call("save", "derive")
StashOrForget == Call("remove", "removeBak")

(* recover: a .bak with no seed beside it takes the name back. *)
Recover(step, next) ==
  /\ pc = step
  /\ \E ok \in Outcome("recover") :
       IF ok /\ ~Exists("seed") /\ Exists("bak") THEN Rename("bak", "seed") ELSE SameDisk
  /\ Goto(next)
  /\ SameRam

(* seed_read's answer: only a whole seed counts.  entropy_load then makes the *)
(* pool full, unless a hash failed, and goes on to write the successor.       *)
Read ==
  /\ pc = "read"
  /\ \E ok \in Outcome("read"), valid \in BOOLEAN :
       IF ok /\ disk["seed"] > 0 /\ valid
       THEN filled' = TRUE /\ Goto("derive")
       ELSE Return /\ UNCHANGED filled
  /\ SameDisk /\ UNCHANGED <<had, derived>>

(* pool_hash(OUT_FILE) under the pool lock *)
Derive ==
  /\ pc = "derive"
  /\ derived < MaxSeeds
  /\ derived' = derived + 1
  /\ Goto("recover")
  /\ SameDisk /\ UNCHANGED <<had, filled>>

(* open, write and close of seed.new: a short write is removed again. *)
Write ==
  /\ pc = "write"
  /\ \/ /\ disk' = [disk EXCEPT !["new"] = derived]
        /\ unsynced' = unsynced \cup {"new"}
        /\ Goto("sync")
     \/ "open" \in MayFail /\ SameDisk /\ Return
     \/ /\ "write" \in MayFail
        /\ \E removed \in Outcome("tidy") :
             disk' = [disk EXCEPT !["new"] = IF removed THEN Absent ELSE Torn]
        /\ unsynced' = unsynced \ {"new"}
        /\ Return
  /\ SameRam

SyncPassedOver(step, next) ==                                      \* mutant
  /\ pc = step
  /\ unsynced' \in {{}, unsynced}
  /\ Goto(next)
  /\ UNCHANGED disk /\ SameRam

(* Where device_of finds no device the write goes on as if it had synced. *)
NothingToSync(next) == ~Device /\ UNCHANGED unsynced /\ Goto(next)

Sync(step, next) ==
  /\ pc = step
  /\ \/ NothingToSync(next)
     \/ Device /\ unsynced' = {} /\ Goto(next)
     \/ Device /\ "sync" \in MayFail /\ UNCHANGED unsynced /\ Return
  /\ UNCHANGED disk /\ SameRam

DropBak ==
  /\ pc = "dropBak"
  /\ \E ok \in Outcome("dropBak") :
       IF ~Exists("bak") THEN SameDisk /\ Goto("aside")
       ELSE IF ok THEN RemoveName("bak") /\ Goto("aside")
       ELSE SameDisk /\ Return
  /\ SameRam

AsideRemoving ==                                                   \* mutant
  /\ pc = "aside"
  /\ had' = Exists("seed")
  /\ IF Exists("seed") THEN RemoveName("seed") ELSE SameDisk
  /\ Goto("promote")
  /\ UNCHANGED <<derived, filled>>

Aside ==
  /\ pc = "aside"
  /\ had' = Exists("seed")
  /\ \E ok \in Outcome("aside") :
       IF ~Exists("seed") THEN SameDisk /\ Goto("promote")
       ELSE IF ok THEN Rename("seed", "bak") /\ Goto("promote")
       ELSE SameDisk /\ Return
  /\ UNCHANGED <<derived, filled>>

Promote ==
  /\ pc = "promote"
  /\ \E ok \in Outcome("promote") :
       IF ok THEN Rename("new", "seed") /\ Goto("syncNew")
       ELSE SameDisk /\ (IF had THEN Goto("rollback") ELSE Return)
  /\ SameRam

Rollback ==
  /\ pc = "rollback"
  /\ \E ok \in Outcome("rollback") : IF ok THEN Rename("bak", "seed") ELSE SameDisk
  /\ Return
  /\ SameRam

Tidy ==
  /\ pc = "tidy"
  /\ \E ok \in Outcome("tidy") : IF had /\ ok THEN RemoveName("bak") ELSE SameDisk
  /\ Return
  /\ SameRam

(* seed_remove: what fails is passed over. *)
RemoveStep(step, name, next) ==
  /\ pc = step
  /\ \E ok \in Outcome("remove") : IF ok THEN RemoveName(name) ELSE SameDisk
  /\ IF next = "idle" THEN Return ELSE Goto(next)
  /\ SameRam

SeedRemoveSwapped ==                                               \* mutant
  \/ RemoveStep("removeBak", "seed", "removeSeed")
  \/ RemoveStep("removeSeed", "bak", "idle")

SeedRemove ==
  \/ RemoveStep("removeBak", "bak", "removeSeed")
  \/ RemoveStep("removeSeed", "seed", "idle")

(* The power goes: the bytes of any unsynced file may be lost, and a new run *)
(* starts dry.                                                               *)
Crash ==
  /\ \E lost \in SUBSET unsynced :
       disk' = [n \in Names |-> IF n \in lost THEN Torn ELSE disk[n]]
  /\ unsynced' = {}
  /\ Return
  /\ had' = FALSE /\ filled' = FALSE
  /\ UNCHANGED derived

SeedWrite ==
  \/ Recover("recover", "write") \/ Write \/ Sync("sync", "dropBak") \/ DropBak \/ Aside
  \/ Promote \/ Rollback \/ Sync("syncNew", "tidy") \/ Tidy

Next ==
  \/ Sweep \/ Load \/ Save \/ StashOrForget
  \/ Recover("readRecover", "read") \/ Read \/ Derive \/ SeedWrite \/ SeedRemove \/ Crash

Spec == Init /\ [][Next]_vars
-----------------------------------------------------------------------------
(* Properties *)

(* What recover and seed_read would find now *)
Recoverable == IF Exists("seed") THEN disk["seed"] ELSE disk["bak"]

(* A cut never leaves half a seed where a run would take it for one. *)
SeedIsWhole == Recoverable # Torn

(* A seed on the stick is lost only to stash and forget, never to a write of *)
(* its successor that was cut off or that failed on the way.                 *)
SeedNeverLost == [][Recoverable # Absent /\ Recoverable' = Absent => op = "remove"]_vars

(* The three files and their calls implement the one cell of SeedCell: the   *)
(* seed a run finds changes in one step from the old one to its successor,   *)
(* and neither a cut nor a removal brings back one that was replaced.        *)
Cell == INSTANCE SeedCell
          WITH cell <- Recoverable,
               pending <- pc \in {"recover", "write", "sync", "dropBak", "aside", "promote"}

ImplementsCell == Cell!Spec
=============================================================================
