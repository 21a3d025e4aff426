------------------------------ MODULE PartStore ------------------------------
(***************************************************************************)
(* part_store.rs on the file system: the directory of NNN.part and         *)
(* NNN.part.met files, shared by all downloads.  save_met is three file    *)
(* system calls (write NNN.part.met.tmp, rename the met to .bak, rename    *)
(* the tmp to the met) made under ITS download's lock only; creating a     *)
(* download scans the directory for the next free index under no download  *)
(* lock; a kill can fall between any two calls, and the next start opens   *)
(* what resume_downloads finds.                                            *)
(*                                                                         *)
(* The content of a met is the download it describes and how much of it    *)
(* is received (module Download has the gap list behind that number).      *)
(***************************************************************************)
EXTENDS Naturals, FiniteSets, FiniteSetsExt

CONSTANTS
    Downloads,   \* downloads that may be created, each at most once
    MaxProgress, \* bound: received blocks of a complete download
    MaxIndex,    \* bound: the highest NNN
    MaxKills     \* bound: kills of the process

ASSUME StoreAssumption ==
    /\ MaxProgress \in Nat \ {0}
    /\ MaxIndex \in Nat \ {0}
    /\ MaxKills \in Nat
    /\ "none" \notin Downloads
    /\ "nobody" \notin Downloads

Indices == 1 .. MaxIndex
None == [of |-> "none", n |-> 0]
Mets == [of : Downloads, n : 0 .. MaxProgress]
Nobody == "nobody"

VARIABLES
    live,   \* NNN.part.met
    bak,    \* NNN.part.met.bak
    tmp,    \* NNN.part.met.tmp
    part,   \* whose bytes NNN.part holds, or Nobody
    state,  \* "new", "active", "moved", "cancelled", or "lost" by a restart
    slot,   \* the index of each download; 0 before it has one
    n,      \* what each download has received (its gap list in memory)
    step,   \* the next file system call made under the download's lock
    saved,  \* what its last finished save recorded; MaxProgress + 1: none yet
    kills

vars == <<live, bak, tmp, part, state, slot, n, step, saved, kills>>

NeverSaved == MaxProgress + 1

Init ==
    /\ live = [i \in Indices |-> None]
    /\ bak = [i \in Indices |-> None]
    /\ tmp = [i \in Indices |-> None]
    /\ part = [i \in Indices |-> Nobody]
    /\ state = [d \in Downloads |-> "new"]
    /\ slot = [d \in Downloads |-> 0]
    /\ n = [d \in Downloads |-> 0]
    /\ step = [d \in Downloads |-> "idle"]
    /\ saved = [d \in Downloads |-> NeverSaved]
    /\ kills = 0
-----------------------------------------------------------------------------
\* next_part_index: one more than the highest NNN.part.met the scan sees.
next_part_index == Max({0} \cup {i \in Indices : live[i] # None}) + 1

\* add_download holds the engine while it creates a download, its first save
\* included, and so does cancel_download: those never overlap.  Saves of other
\* downloads, and finish_in_place, hold their download's lock only.
engine_busy ==
    \E d \in Downloads : \/ state[d] = "active" /\ saved[d] = NeverSaved
                         \/ state[d] = "cancelled" /\ step[d] = "unlink"

\* add_download -> PartStore::create: open NNN.part with truncate, then save.
Create(d) ==
    /\ state[d] = "new" /\ ~engine_busy
    /\ next_part_index \in Indices
    /\ slot' = [slot EXCEPT ![d] = next_part_index]
    /\ part' = [part EXCEPT ![next_part_index] = d]
    /\ state' = [state EXCEPT ![d] = "active"]
    /\ step' = [step EXCEPT ![d] = "tmp"]
    /\ UNCHANGED <<live, bak, tmp, n, saved, kills>>

\* A block arrives; the save that follows may be due or not (met_save_due).
Commit(d) ==
    /\ state[d] = "active" /\ step[d] = "idle"
    /\ n[d] < MaxProgress
    /\ n' = [n EXCEPT ![d] = @ + 1]
    /\ \E due \in BOOLEAN : step' = [step EXCEPT ![d] = IF due THEN "tmp" ELSE "idle"]
    /\ UNCHANGED <<live, bak, tmp, part, state, slot, saved, kills>>

\* A save nothing was received for: set_paused, set_priority, the checkpoint;
\* and those, or a raced commit, by a task that still holds a download that was
\* finished or cancelled meanwhile.
Save(d) ==
    /\ state[d] \in {"active", "moved", "cancelled"} /\ step[d] = "idle"
    /\ step' = [step EXCEPT ![d] = "tmp"]
    /\ UNCHANGED <<live, bak, tmp, part, state, slot, n, saved, kills>>

\* save_met, call by call.
WriteTmp(d) ==
    /\ step[d] = "tmp"
    /\ tmp' = [tmp EXCEPT ![slot[d]] = [of |-> d, n |-> n[d]]]
    /\ step' = [step EXCEPT ![d] = "bak"]
    /\ UNCHANGED <<live, bak, part, state, slot, n, saved, kills>>

\* (Removing the old met instead of keeping it.)
RenameToBak_removes(d) ==
    /\ step[d] = "bak"
    /\ live' = [live EXCEPT ![slot[d]] = None]
    /\ step' = [step EXCEPT ![d] = "install"]
    /\ UNCHANGED <<bak, tmp, part, state, slot, n, saved, kills>>

\* Best effort: a first save has nothing to promote.
RenameToBak(d) ==
    /\ step[d] = "bak"
    /\ \/ /\ live[slot[d]] # None
          /\ bak' = [bak EXCEPT ![slot[d]] = live[slot[d]]]
          /\ live' = [live EXCEPT ![slot[d]] = None]
       \/ /\ live[slot[d]] = None
          /\ UNCHANGED <<live, bak>>
    /\ step' = [step EXCEPT ![d] = "install"]
    /\ UNCHANGED <<tmp, part, state, slot, n, saved, kills>>

\* The rename fails when another download's save took the tmp of a shared index.
Install(d) ==
    /\ step[d] = "install"
    /\ LET i == slot[d]
       IN /\ live' = [live EXCEPT ![i] = IF tmp[i] # None THEN tmp[i] ELSE @]
          /\ tmp' = [tmp EXCEPT ![i] = None]
          /\ saved' = [saved EXCEPT ![d] = IF tmp[i] # None THEN tmp[i].n ELSE @]
    /\ step' = [step EXCEPT ![d] = "idle"]
    /\ UNCHANGED <<bak, part, state, slot, n, kills>>

\* finish_in_place and remove_backing_files: the .part first, then the met.
DropPart(d, how) ==
    /\ state[d] = "active" /\ step[d] = "idle"
    /\ part' = [part EXCEPT ![slot[d]] = Nobody]
    /\ state' = [state EXCEPT ![d] = how]
    /\ step' = [step EXCEPT ![d] = "unlink"]
    /\ UNCHANGED <<live, bak, tmp, slot, n, saved, kills>>

FinishInPlace(d) == n[d] = MaxProgress /\ DropPart(d, "moved")

RemoveBackingFiles(d) == ~engine_busy /\ DropPart(d, "cancelled")

RemoveMet(d) ==
    /\ step[d] = "unlink"
    /\ live' = [live EXCEPT ![slot[d]] = None]
    /\ step' = [step EXCEPT ![d] = "idle"]
    /\ UNCHANGED <<bak, tmp, part, state, slot, n, saved, kills>>

\* open: the live met, or else the .bak.  Every met here is readable, so the
\* .bak is read only when the live one is gone.
met_at(i) == IF live[i] # None THEN live[i] ELSE bak[i]

\* The scan sees NNN.part.met only, and open needs the .part beside it.
resumable_without_part(i) == live[i] # None
resumable(i) == live[i] # None /\ part[i] # Nobody

\* A kill between any two calls, and the next start's resume_downloads.
KillAndRestart ==
    /\ kills < MaxKills
    /\ kills' = kills + 1
    /\ LET back(d) == {i \in Indices : resumable(i) /\ met_at(i).of = d}
       IN /\ state' = [d \in Downloads |->
                IF back(d) # {} THEN "active"
                ELSE IF state[d] = "active" THEN "lost" ELSE state[d]]
          /\ slot' = [d \in Downloads |-> IF back(d) # {} THEN Max(back(d)) ELSE slot[d]]
          /\ n' = [d \in Downloads |->
                IF back(d) # {} THEN met_at(Max(back(d))).n ELSE n[d]]
    \* Whoever outlives the process is gone with it, late holders too.
    /\ step' = [d \in Downloads |-> IF state'[d] = "active" THEN "idle" ELSE "dead"]
    /\ UNCHANGED <<live, bak, tmp, part, saved>>

Next ==
    \/ \E d \in Downloads :
          \/ Create(d) \/ Commit(d) \/ Save(d)
          \/ WriteTmp(d) \/ RenameToBak(d) \/ Install(d)
          \/ FinishInPlace(d) \/ RemoveBackingFiles(d) \/ RemoveMet(d)
    \/ KillAndRestart

Spec == Init /\ [][Next]_vars
-----------------------------------------------------------------------------
TypeOK ==
    /\ live \in [Indices -> Mets \cup {None}]
    /\ bak \in [Indices -> Mets \cup {None}]
    /\ tmp \in [Indices -> Mets \cup {None}]
    /\ part \in [Indices -> Downloads \cup {Nobody}]
    /\ state \in [Downloads -> {"new", "active", "moved", "cancelled", "lost"}]
    /\ slot \in [Downloads -> 0 .. MaxIndex]
    /\ n \in [Downloads -> 0 .. MaxProgress]
    /\ step \in [Downloads -> {"idle", "tmp", "bak", "install", "unlink", "dead"}]
    /\ saved \in [Downloads -> 0 .. NeverSaved]
    /\ kills \in 0 .. MaxKills

\* No other download was ever given d's index.
sole(d) == \A e \in Downloads \ {d} : slot[e] # slot[d]

\* A finished save is never undone: at every moment, between the two renames
\* too, the directory holds a met of the download with at least the progress of
\* its last finished save, where open would find it (save_met, open), as long
\* as the index is its own.  (The types come first.)
SavedProgressIsKept ==
    /\ TypeOK
    /\ \A d \in Downloads :
          state[d] \in {"active", "lost"} /\ saved[d] # NeverSaved /\ sole(d) =>
             met_at(slot[d]).of = d /\ met_at(slot[d]).n >= saved[d]

\* What was finished or cancelled stays so, as long as its index is not given
\* away: a met that a late save puts back, or that a kill keeps from being
\* removed, is never resumed (remove_backing_files, finish_in_place).
GoneStaysGone ==
    [][\A d \in Downloads :
         state[d] \in {"moved", "cancelled"} /\ sole(d) => state'[d] = state[d]]_vars
-----------------------------------------------------------------------------
(* A statement of the code's comments that does not hold; see the findings. *)

\* "A new download MUST NOT reuse an index some existing .part.met already
\* claims": no two downloads in the registry share their files.
IndexIsNeverShared ==
    \A d, e \in Downloads :
       d # e /\ state[d] = "active" /\ state[e] = "active" => slot[d] # slot[e]
=============================================================================
