--------------------------- MODULE Download_proofs ---------------------------
(***************************************************************************)
(* Machine-checked theorems about module Download, for every set of peers, *)
(* every file geometry and every bound; and, in the second half, about     *)
(* PartFile, whose gap list and allocator Download abstracts to a set of   *)
(* units and to any pick that IsPick allows.                               *)
(***************************************************************************)
EXTENDS Download, PartFile, FiniteSetTheorems, WellFoundedInduction, TLAPS

\* Whatever next_blocks hands out is a set of blocks of the file.
LEMMA PicksAreBlocks ==
    ASSUME NEW g \in SUBSET Units, NEW taken, NEW parts, NEW most,
           NEW T \in Picks(Requestable(g, taken, parts), most)
    PROVE  T \subseteq Blocks
<1>1. T \subseteq OpenBlocks(g)
    BY DEF Picks, Requestable
<1>2. \A x \in OpenBlocks(g) : x \subseteq Units
  <2> SUFFICES ASSUME NEW x \in OpenBlocks(g) PROVE x \subseteq Units
    OBVIOUS
  <2>1. PICK ab \in g \X g : IsOpenBlock(ab[1], ab[2], g) /\ x = ab[1] .. ab[2]
    BY DEF OpenBlocks
  <2>2. \A u \in ab[1] .. ab[2] : u \in g
    BY <2>1 DEF IsOpenBlock
  <2> QED
    BY <2>1, <2>2
<1> QED
    BY <1>1, <1>2 DEF Blocks

LEMMA TakeBlocksType ==
    ASSUME gaps \subseteq Units, NEW s \in Sessions, NEW most,
           NEW T \in take_blocks(s, most)
    PROVE  T \subseteq Blocks
<1>1. CASE cancelled \/ paused
    BY <1>1 DEF take_blocks
<1>2. CASE ~(cancelled \/ paused)
  <2>1. \/ T \in Picks(Requestable(gaps, {}, Holds[s]), most)
        \/ T \in Picks(Requestable(gaps, reserved, Holds[s]), most)
    BY <1>2 DEF take_blocks
  <2> QED
    BY <2>1, PicksAreBlocks
<1> QED
    BY <1>1, <1>2
-----------------------------------------------------------------------------
(* Type correctness.  TypeOK is inductive together with WaitingWrites: a     *)
(* dropped session leaves its write behind in orphans.                       *)

TypeInv == TypeOK /\ WaitingWrites

LEMMA TypeInit == Init => TypeInv
<1> SUFFICES ASSUME Init PROVE TypeInv
    OBVIOUS
<1>1. met \in Mets
    BY DEF Init, Mets, Hashsets
<1>2. since \in 0 .. (MetSaveBytes - 1) /\ events \in 0 .. MaxEvents
    BY DownloadAssumption DEF Init
<1>3. TypeOK
    BY <1>1, <1>2 DEF Init, TypeOK, Hashsets, Bytes, PCs, FinPCs, Blocks
<1> QED
    BY <1>3 DEF Init, TypeInv, WaitingWrites

LEMMA TypeSession ==
    ASSUME TypeInv, NEW s \in Sessions, SessionStep(s)
    PROVE  TypeInv'
<1> USE DownloadAssumption
    DEF TypeInv, TypeOK, WaitingWrites, storeVars, flagVars, sessVars, finVars,
        engineVars, blameVars, Blocks, PCs, Hashsets
<1>1. CASE FetchOne(s)
    BY <1>1 DEF FetchOne
<1>2. CASE SetHashset(s)
    BY <1>2 DEF SetHashset, sent_by, disturb
<1>3. CASE TakeBlocks(s)
  <2>0. PICK T \in take_blocks(s, MaxRequest) : TakeBlocks(s)!2!(T)
    BY <1>3 DEF TakeBlocks
  <2>b. T \subseteq SUBSET Units
    BY TakeBlocksType, <2>0
  <2>1. CASE T = {}
    <3>1. drop_session(s)
      BY <2>0, <2>1
    <3>2. UNCHANGED <<storeVars, part_hashes, data, file, blameVars, flagVars,
                      engineVars, finVars, events>>
      BY <1>3 DEF TakeBlocks
    <3> QED
      BY <3>1, <3>2 DEF drop_session, release
  <2>2. CASE T # {}
    <3>1. /\ extend_held(s, T)
          /\ rx' = [rx EXCEPT ![s] = T]
          /\ pc' = [pc EXCEPT ![s] = "recv"]
          /\ draining' = [draining EXCEPT ![s] = FALSE]
          /\ UNCHANGED <<cur, orphans>>
      BY <2>0, <2>2
    <3>2. UNCHANGED <<storeVars, part_hashes, data, file, blameVars, flagVars,
                      engineVars, finVars, events>>
      BY <1>3 DEF TakeBlocks
    <3>3. reserved' \subseteq Blocks /\ held' \in [Sessions -> SUBSET Blocks]
      BY <3>1, <2>b DEF extend_held
    <3>4. rx' \in [Sessions -> SUBSET Blocks] /\ due' \in [Sessions -> SUBSET Units]
      BY <3>1, <2>b DEF extend_held
    <3>5. pc' \in [Sessions -> PCs] /\ draining' \in [Sessions -> BOOLEAN]
      BY <3>1
    <3>6. TypeOK'
      BY <3>1, <3>2, <3>3, <3>4, <3>5
    <3>7. WaitingWrites'
      BY <3>1, <3>2
    <3> QED
      BY <3>6, <3>7
  <2> QED
    BY <2>1, <2>2
<1>4. CASE CommitDetach(s)
  <2>1. PICK u \in due[s], v \in {"good", "bad"} : CommitDetach(s)!2!(u, v)
    BY <1>4 DEF CommitDetach
  <2>2. u \in Units /\ [unit |-> u, val |-> v] \in Writes
    BY DEF Writes
  <2>3. events' \in 0 .. MaxEvents
    BY <2>1 DEF sent_by, disturb
  <2>4. block_sources' \in [Cells -> SUBSET Sessions]
    BY <2>1
  <2>5. due' \in [Sessions -> SUBSET Units]
    BY <2>1
  <2>6. cur' \in [Sessions -> Writes \cup {NoWrite}]
    BY <2>1, <2>2
  <2>7. TypeOK'
    BY <1>4, <2>3, <2>4, <2>5, <2>6 DEF CommitDetach
  <2>8. WaitingWrites'
    BY <1>4, <2>1, <2>2 DEF CommitDetach
  <2> QED
    BY <2>7, <2>8
<1>5. CASE WriteAndSync(s)
    BY <1>5 DEF WriteAndSync, Writes, Bytes
<1>6. CASE CommitClose(s)
    BY <1>6 DEF CommitClose, release, save_met, Mets, met_save_due, delivered
<1>7. CASE TopUp(s)
    BY <1>7, TakeBlocksType DEF TopUp, extend_held
<1>8. CASE WindowDone(s)
    BY <1>8 DEF WindowDone
<1>9. CASE OutOfPartReqs(s)
    BY <1>9 DEF OutOfPartReqs, release, disturb
<1>10. CASE DropSession(s)
    BY <1>10 DEF DropSession, drop_session, release, disturb
<1>11. CASE Watchdog(s)
    BY <1>11 DEF Watchdog, drop_session, release
<1> QED
    BY <1>1, <1>2, <1>3, <1>4, <1>5, <1>6, <1>7, <1>8, <1>9, <1>10,
       <1>11 DEF SessionStep

LEMMA TypeFinish ==
    ASSUME TypeInv, NEW f \in Finalizers, FinishStep(f)
    PROVE  TypeInv'
<1> USE DownloadAssumption
    DEF TypeInv, TypeOK, WaitingWrites, storeVars, flagVars, sessVars, finVars,
        engineVars, blameVars, FinPCs
<1>1. CASE TryBeginFinalize(f)
    BY <1>1 DEF TryBeginFinalize, try_begin_finalize
<1>2. CASE VerifyWholeFile(f)
    BY <1>2 DEF VerifyWholeFile
<1>3. CASE LocalizeCorruption(f)
    BY <1>3 DEF LocalizeCorruption, bad_parts
<1>4. CASE BlameParts(f)
  <2>1. gaps' \subseteq Units /\ corrupted' \subseteq Parts
    BY <1>4 DEF BlameParts, PartUnits
  <2>2. met' \in Mets
    BY <1>4, <2>1 DEF BlameParts, save_met, Mets
  <2>3. \A p : contributors(p) \subseteq Sessions
    BY DEF contributors
  <2>4. banned' \subseteq Sessions
    BY <1>4, <2>3 DEF BlameParts
  <2>5. block_sources' \in [Cells -> SUBSET Sessions]
    BY <1>4 DEF BlameParts
  <2>6. TypeOK'
    BY <1>4, <2>1, <2>2, <2>4, <2>5 DEF BlameParts
  <2> QED
    BY <1>4, <2>6 DEF BlameParts
<1>5. CASE ResetAllGaps(f)
    BY <1>5 DEF ResetAllGaps, save_met, Mets
<1>6. CASE LeaveRegistry(f)
    BY <1>6 DEF LeaveRegistry
<1>7. CASE FinishTo(f)
    BY <1>7 DEF FinishTo, disturb
<1>8. CASE ShareFile(f)
    BY <1>8 DEF ShareFile
<1> QED
    BY <1>1, <1>2, <1>3, <1>4, <1>5, <1>6, <1>7, <1>8 DEF FinishStep

LEMMA ThrottleStartsInRange == 0 \in 0 .. (MetSaveBytes - 1)
BY DownloadAssumption

LEMMA TypeEngine ==
    ASSUME TypeInv, EngineStep \/ WriteOrphan
    PROVE  TypeInv'
<1> USE DownloadAssumption
    DEF TypeInv, TypeOK, WaitingWrites, storeVars, flagVars, sessVars, finVars,
        engineVars, blameVars
<1>1. CASE CancelRemove
  <2>1. events' \in 0 .. MaxEvents
    BY <1>1 DEF CancelRemove, disturb
  <2> QED
    BY <1>1, <2>1 DEF CancelRemove
<1>2. CASE CancelFlag
    BY <1>2 DEF CancelFlag
<1>3. CASE CancelDiscard
    BY <1>3 DEF CancelDiscard
<1>4. CASE SetPaused
    BY <1>4 DEF SetPaused, disturb, save_met, Mets
<1>5. CASE PersistSnapshot
    BY <1>5 DEF PersistSnapshot, disturb
<1>6. CASE Persist
  <2>1. met' \in Mets
    BY <1>6 DEF Persist, save_met, Mets
  <2>2. since' \in 0 .. (MetSaveBytes - 1) /\ flush' \in BOOLEAN
    BY <1>6, ThrottleStartsInRange DEF Persist
  <2>3. TypeOK'
    BY <1>6, <2>1, <2>2 DEF Persist
  <2> QED
    BY <1>6, <2>3 DEF Persist
<1>7. CASE KillAndRestart
  <2>1. events' \in 0 .. MaxEvents
    BY <1>7 DEF KillAndRestart, disturb
  <2>2. data' \in [Units -> Bytes]
    BY <1>7 DEF KillAndRestart, after_kill
  <2>3. /\ gaps' \subseteq Units /\ corrupted' \subseteq Parts
        /\ part_hashes' \in Hashsets
    BY <1>7 DEF KillAndRestart, resumable, Mets, Hashsets
  <2>4. registered' \in BOOLEAN /\ paused' \in BOOLEAN
    BY <1>7 DEF KillAndRestart, resumable, Mets
  <2>5. /\ block_sources' \in [Cells -> SUBSET Sessions] /\ banned' \subseteq Sessions
        /\ reserved' \subseteq Blocks /\ orphans' \subseteq Writes
        /\ fin' \in [Finalizers -> FinPCs] /\ fin_bad' \in [Finalizers -> SUBSET Parts]
    BY <1>7 DEF KillAndRestart, FinPCs
  <2>6. /\ pc' \in [Sessions -> PCs] /\ held' \in [Sessions -> SUBSET Blocks]
        /\ rx' \in [Sessions -> SUBSET Blocks] /\ due' \in [Sessions -> SUBSET Units]
        /\ draining' \in [Sessions -> BOOLEAN]
        /\ cur' \in [Sessions -> Writes \cup {NoWrite}]
    BY <1>7 DEF KillAndRestart, PCs
  <2>7. /\ since' = 0
        /\ cancelled' \in BOOLEAN /\ finalizing' \in BOOLEAN /\ flush' \in BOOLEAN
        /\ cancel_pc' \in {"idle", "flag", "discard"}
        /\ UNCHANGED <<met, file, shared>>
    BY <1>7 DEF KillAndRestart
  <2>8. TypeOK'
    BY <2>1, <2>2, <2>3, <2>4, <2>5, <2>6, <2>7, ThrottleStartsInRange
  <2> QED
    BY <1>7, <2>8 DEF KillAndRestart
<1>8. CASE WriteOrphan
    BY <1>8 DEF WriteOrphan, Writes, Bytes
<1> QED
    BY <1>1, <1>2, <1>3, <1>4, <1>5, <1>6, <1>7, <1>8 DEF EngineStep

LEMMA TypeStep == TypeInv /\ [Next]_vars => TypeInv'
<1>1. TypeInv /\ UNCHANGED vars => TypeInv'
    BY DEF TypeInv, TypeOK, WaitingWrites, vars, storeVars, flagVars, sessVars,
           finVars, engineVars, blameVars
<1> QED
    BY <1>1, TypeSession, TypeFinish, TypeEngine DEF Next

\* Every variable keeps its type in every run of Download (TypeOK), for any
\* peers, file geometry and bounds.
THEOREM TypeCorrect == Spec => []TypeOK
    BY TypeInit, TypeStep, PTL DEF Spec, TypeInv
-----------------------------------------------------------------------------
(* Reservations *)

\* The steps that leave the reservations and the held blocks alone.
LEMMA ReservationsTouchedBy ==
    ASSUME [Next]_vars
    PROVE  \/ UNCHANGED <<reserved, held>>
           \/ \E s \in Sessions :
                 \/ TakeBlocks(s) \/ CommitClose(s) \/ TopUp(s)
                 \/ OutOfPartReqs(s) \/ DropSession(s) \/ Watchdog(s)
           \/ KillAndRestart
<1> USE DEF sessVars
<1>1. CASE UNCHANGED vars
    BY <1>1 DEF vars
<1>2. CASE WriteOrphan
    BY <1>2 DEF WriteOrphan
<1>3. ASSUME NEW s \in Sessions, SessionStep(s)
      PROVE  \/ UNCHANGED <<reserved, held>>
             \/ TakeBlocks(s) \/ CommitClose(s) \/ TopUp(s)
             \/ OutOfPartReqs(s) \/ DropSession(s) \/ Watchdog(s)
    BY <1>3 DEF SessionStep, FetchOne, SetHashset, CommitDetach, WriteAndSync, WindowDone
<1>4. ASSUME NEW f \in Finalizers, FinishStep(f)
      PROVE  UNCHANGED <<reserved, held>>
    BY <1>4 DEF FinishStep, TryBeginFinalize, VerifyWholeFile, LocalizeCorruption,
                BlameParts, ResetAllGaps, LeaveRegistry, FinishTo, ShareFile
<1>5. CASE EngineStep
    BY <1>5 DEF EngineStep, CancelRemove, CancelFlag, CancelDiscard, SetPaused,
                PersistSnapshot, Persist
<1> QED
    BY <1>1, <1>2, <1>3, <1>4, <1>5 DEF Next

LEMMA DropKeepsReservationsHeld ==
    ASSUME TypeInv, NoLeakedReservation, NEW s \in Sessions, drop_session(s)
    PROVE  NoLeakedReservation'
BY DEF TypeInv, TypeOK, NoLeakedReservation, drop_session, release

LEMMA ExtendKeepsReservationsHeld ==
    ASSUME TypeInv, NoLeakedReservation, NEW s \in Sessions, NEW T, extend_held(s, T)
    PROVE  NoLeakedReservation'
BY DEF TypeInv, TypeOK, NoLeakedReservation, extend_held

LEMMA ReservationStep ==
    TypeInv /\ NoLeakedReservation /\ [Next]_vars => NoLeakedReservation'
<1> SUFFICES ASSUME TypeInv, NoLeakedReservation, [Next]_vars
             PROVE  NoLeakedReservation'
    OBVIOUS
<1>1. CASE UNCHANGED <<reserved, held>>
    BY <1>1 DEF NoLeakedReservation
<1>2. ASSUME NEW s \in Sessions, TakeBlocks(s) PROVE NoLeakedReservation'
    BY <1>2, DropKeepsReservationsHeld, ExtendKeepsReservationsHeld DEF TakeBlocks
<1>3. ASSUME NEW s \in Sessions, CommitClose(s) PROVE NoLeakedReservation'
    BY <1>3 DEF CommitClose, release, TypeInv, TypeOK, NoLeakedReservation
<1>4. ASSUME NEW s \in Sessions, TopUp(s) PROVE NoLeakedReservation'
    BY <1>4, ExtendKeepsReservationsHeld DEF TopUp
<1>5. ASSUME NEW s \in Sessions, OutOfPartReqs(s) PROVE NoLeakedReservation'
    BY <1>5 DEF OutOfPartReqs, release, TypeInv, TypeOK, NoLeakedReservation
<1>6. ASSUME NEW s \in Sessions, DropSession(s) \/ Watchdog(s) PROVE NoLeakedReservation'
    BY <1>6, DropKeepsReservationsHeld DEF DropSession, Watchdog
<1>7. CASE KillAndRestart
    BY <1>7 DEF KillAndRestart, NoLeakedReservation
<1> QED
    BY <1>1, <1>2, <1>3, <1>4, <1>5, <1>6, <1>7, ReservationsTouchedBy

\* No reservation outlives its holder (NoLeakedReservation), however sessions
\* end: HeldBlocks::drop and release cover every exit of run_peer.
THEOREM ReservationsNeverLeak == Spec => []NoLeakedReservation
<1>1. Init => NoLeakedReservation
    BY DEF Init, NoLeakedReservation
<1> QED
    BY <1>1, TypeInit, TypeStep, ReservationStep, PTL DEF Spec
-----------------------------------------------------------------------------
(* Durability: the gap list and the met never claim bytes that are not on     *)
(* disk, and an unclean stop loses less than MET_SAVE_BYTES.                  *)

\* The steps that leave the gap list, the met, its throttle and the bytes alone.
LEMMA StoreTouchedBy ==
    ASSUME [Next]_vars
    PROVE  \/ UNCHANGED <<gaps, met, since, data>>
           \/ \E s \in Sessions : WriteAndSync(s) \/ CommitClose(s)
           \/ \E f \in Finalizers : BlameParts(f) \/ ResetAllGaps(f) \/ FinishTo(f)
           \/ WriteOrphan
           \/ CancelDiscard \/ SetPaused \/ Persist \/ KillAndRestart
<1> USE DEF storeVars
<1>1. CASE UNCHANGED vars
    BY <1>1 DEF vars
<1>2. ASSUME NEW s \in Sessions, SessionStep(s)
      PROVE  UNCHANGED <<gaps, met, since, data>> \/ WriteAndSync(s) \/ CommitClose(s)
    BY <1>2 DEF SessionStep, FetchOne, SetHashset, TakeBlocks, CommitDetach, TopUp,
                WindowDone, OutOfPartReqs, DropSession, Watchdog
<1>3. ASSUME NEW f \in Finalizers, FinishStep(f)
      PROVE  \/ UNCHANGED <<gaps, met, since, data>>
             \/ BlameParts(f) \/ ResetAllGaps(f) \/ FinishTo(f)
    BY <1>3 DEF FinishStep, TryBeginFinalize, VerifyWholeFile, LocalizeCorruption,
                LeaveRegistry, ShareFile
<1>4. CASE EngineStep
    BY <1>4 DEF EngineStep, CancelRemove, CancelFlag, PersistSnapshot
<1> QED
    BY <1>1, <1>2, <1>3, <1>4 DEF Next

\* No step takes bytes off the disk: a write in flight at a kill leaves the old
\* bytes or the new ones.
LEMMA BytesStay ==
    ASSUME TypeInv, [Next]_vars
    PROVE  \A u \in Units : data[u] # "none" => data'[u] # "none"
<1>1. CASE UNCHANGED data
    BY <1>1
<1>2. ASSUME NEW s \in Sessions, WriteAndSync(s)
      PROVE  \A u \in Units : data[u] # "none" => data'[u] # "none"
    BY <1>2 DEF WriteAndSync, TypeInv, TypeOK, WaitingWrites, Writes
<1>3. CASE WriteOrphan
    BY <1>3 DEF WriteOrphan, TypeInv, TypeOK, Writes
<1>4. CASE KillAndRestart
  <2>1. PICK W \in SUBSET Writes : data' \in after_kill(W)
    BY <1>4 DEF KillAndRestart, TypeInv, TypeOK, WaitingWrites
  <2> QED
    BY <2>1 DEF after_kill, Writes
<1> QED
    BY <1>1, <1>2, <1>3, <1>4, StoreTouchedBy
    DEF CommitClose, BlameParts, ResetAllGaps, FinishTo, CancelDiscard, SetPaused, Persist

Durable == ClosedGapsAreOnDisk /\ MetNeverOverclaims

LEMMA DurableStep == TypeInv /\ Durable /\ [Next]_vars => Durable'
<1> SUFFICES ASSUME TypeInv, Durable, [Next]_vars PROVE Durable'
    OBVIOUS
<1> USE BytesStay DEF Durable, ClosedGapsAreOnDisk, MetNeverOverclaims
<1>1. CASE UNCHANGED <<gaps, met>>
    BY <1>1
<1>2. ASSUME NEW s \in Sessions, CommitClose(s) PROVE Durable'
  <2>1. gaps' = gaps \ {cur[s].unit} /\ data' = data
    BY <1>2 DEF CommitClose
  <2>2. data[cur[s].unit] # "none"
    BY <1>2 DEF CommitClose, TypeInv, WaitingWrites
  <2>3. ClosedGapsAreOnDisk'
    BY <2>1, <2>2
  <2>4. met' = met \/ met'.gaps = gaps'
    BY <1>2 DEF CommitClose, save_met
  <2> QED
    BY <2>1, <2>3, <2>4
<1>3. ASSUME NEW f \in Finalizers, BlameParts(f) \/ ResetAllGaps(f) PROVE Durable'
    BY <1>3 DEF BlameParts, ResetAllGaps, save_met
<1>4. ASSUME NEW f \in Finalizers, FinishTo(f) PROVE Durable'
    BY <1>4 DEF FinishTo
<1>5. CASE CancelDiscard
    BY <1>5 DEF CancelDiscard
<1>6. CASE SetPaused \/ Persist
    BY <1>6 DEF SetPaused, Persist, save_met
<1>7. CASE KillAndRestart
    BY <1>7 DEF KillAndRestart, resumable
<1> QED
    BY <1>1, <1>2, <1>3, <1>4, <1>5, <1>6, <1>7, StoreTouchedBy
    DEF WriteAndSync, WriteOrphan, storeVars

LEMMA DurableInit == Init => Durable
BY DEF Init, Durable, ClosedGapsAreOnDisk, MetNeverOverclaims

\* The gap list in memory never claims bytes the disk does not hold
\* (ClosedGapsAreOnDisk): commit closes a gap only after write_and_sync.
THEOREM GapListIsTruthful == Spec => []ClosedGapsAreOnDisk
BY DurableInit, DurableStep, TypeInit, TypeStep, PTL DEF Spec, Durable

\* Neither does the part.met a restart resumes from (MetNeverOverclaims).
THEOREM MetIsTruthful == Spec => []MetNeverOverclaims
BY DurableInit, DurableStep, TypeInit, TypeStep, PTL DEF Spec, Durable

LEMMA UnitsFinite == IsFiniteSet(Units)
BY FS_Interval, GeometryAssumption DEF Units

\* A set that gains at most one element grows by at most one.
LEMMA GrowsByOne ==
    ASSUME NEW S, NEW R, NEW x, IsFiniteSet(S), R \subseteq S \cup {x}
    PROVE  /\ Cardinality(S) \in Nat /\ Cardinality(R) \in Nat
           /\ Cardinality(R) <= Cardinality(S) + 1
<1>1. Cardinality(S) \in Nat
    BY FS_CardinalityType
<1>2. IsFiniteSet(S \cup {x}) /\ Cardinality(S \cup {x}) \in Nat
    BY FS_AddElement, FS_CardinalityType
<1>3. Cardinality(S \cup {x}) <= Cardinality(S) + 1
  <2>1. Cardinality(S \cup {x}) = IF x \in S THEN Cardinality(S) ELSE Cardinality(S) + 1
    BY ONLY IsFiniteSet(S), FS_AddElement, Zenon
  <2> QED
    BY <1>1, <2>1
<1>4. IsFiniteSet(R) /\ Cardinality(R) <= Cardinality(S \cup {x})
    BY <1>2, FS_Subset
<1>5. Cardinality(R) \in Nat
    BY <1>4, FS_CardinalityType
<1> QED
    BY <1>1, <1>2, <1>3, <1>4, <1>5

LEMMA LossStep == TypeInv /\ LossIsCounted /\ [Next]_vars => LossIsCounted'
<1> SUFFICES ASSUME TypeInv, LossIsCounted, [Next]_vars PROVE LossIsCounted'
    OBVIOUS
<1> USE DEF LossIsCounted
<1>0. Cardinality({}) = 0 /\ since \in Nat /\ \A S : S \ S = {}
    BY FS_EmptySet, DownloadAssumption DEF TypeInv, TypeOK
<1>1. CASE UNCHANGED <<gaps, met, since>>
    BY <1>1
<1>2. ASSUME NEW s \in Sessions, CommitClose(s) PROVE LossIsCounted'
  <2>1. CASE met'.gaps = gaps' /\ since' = 0
    BY <2>1, <1>0
  <2>2. CASE met' = met /\ since' = since + 1
    <3> SUFFICES ASSUME met # NoMet
                 PROVE  Cardinality(met.gaps \ gaps') <= since + 1
      BY <2>2
    <3>1. met.gaps \subseteq Units
      BY DEF TypeInv, TypeOK, Mets
    <3>2. IsFiniteSet(met.gaps \ gaps)
      BY <3>1, UnitsFinite, FS_Subset
    <3>3. met.gaps \ gaps' \subseteq (met.gaps \ gaps) \cup {cur[s].unit}
      BY <1>2 DEF CommitClose
    <3>4. /\ Cardinality(met.gaps \ gaps) \in Nat
          /\ Cardinality(met.gaps \ gaps') \in Nat
          /\ Cardinality(met.gaps \ gaps') <= Cardinality(met.gaps \ gaps) + 1
      BY ONLY <3>2, <3>3, GrowsByOne, Zenon
    <3>5. Cardinality(met.gaps \ gaps) <= since
      OBVIOUS
    <3> QED
      BY ONLY <3>4, <3>5, <1>0
  <2> QED
    BY <1>2, <2>1, <2>2 DEF CommitClose, save_met
<1>3. ASSUME NEW f \in Finalizers, BlameParts(f) \/ ResetAllGaps(f) PROVE LossIsCounted'
  <2>1. met'.gaps \ gaps' = {} /\ since' = since
    BY <1>3 DEF BlameParts, ResetAllGaps, save_met
  <2> QED
    BY <2>1, <1>0
<1>4. ASSUME NEW f \in Finalizers, FinishTo(f) PROVE LossIsCounted'
    BY <1>4 DEF FinishTo
<1>5. CASE CancelDiscard
    BY <1>5 DEF CancelDiscard
<1>6. CASE SetPaused \/ Persist
    BY <1>6, <1>0 DEF SetPaused, Persist, save_met
<1>7. CASE KillAndRestart
  <2>1. met' = met /\ since' = 0
    BY <1>7 DEF KillAndRestart
  <2>2. met # NoMet => met.gaps \subseteq gaps'
    BY <1>7 DEF KillAndRestart, TypeInv, TypeOK, Mets
  <2>3. met # NoMet => met.gaps \ gaps' = {}
    BY <2>2
  <2> QED
    BY <2>1, <2>3, <1>0
<1> QED
    BY <1>1, <1>2, <1>3, <1>4, <1>5, <1>6, <1>7, StoreTouchedBy
    DEF WriteAndSync, WriteOrphan, storeVars

\* "An unclean stop loses at most one PART's worth of received data"
\* (LossIsBounded): since_met_save accounts for every closed gap the met does
\* not know of, across re-openings, pauses, checkpoints and restarts.
THEOREM LossBounded == Spec => []LossIsBounded
<1>1. Init => LossIsCounted
  <2>1. Init => met.gaps \ gaps = {} /\ since = 0
    BY DEF Init
  <2> QED
    BY <2>1, FS_EmptySet DEF LossIsCounted
<1>2. TypeInv /\ LossIsCounted => LossIsBounded
  <2> SUFFICES ASSUME TypeInv, LossIsCounted, met # NoMet
               PROVE  Cardinality(met.gaps \ gaps) < MetSaveBytes
    BY DEF LossIsBounded
  <2>1. met.gaps \subseteq Units
    BY DEF TypeInv, TypeOK, Mets
  <2>2. Cardinality(met.gaps \ gaps) \in Nat
    BY <2>1, UnitsFinite, FS_Subset, FS_CardinalityType
  <2> QED
    BY <2>2, DownloadAssumption DEF TypeInv, TypeOK, LossIsCounted
<1> QED
    BY <1>1, <1>2, TypeInit, TypeStep, LossStep, PTL DEF Spec
-----------------------------------------------------------------------------
(* Finalizing *)

Exclusive == FinalizeIsExclusive /\ OwnsTheClaim

LEMMA FinalizeTouchedBy ==
    ASSUME [Next]_vars
    PROVE  \/ UNCHANGED <<fin, finalizing>> /\ gaps' \subseteq gaps
           \/ UNCHANGED <<fin, finalizing, gaps>>
           \/ \E f \in Finalizers : FinishStep(f)
           \/ KillAndRestart
<1> USE DEF storeVars, flagVars, finVars
<1>1. CASE UNCHANGED vars
    BY <1>1 DEF vars
<1>2. CASE WriteOrphan
    BY <1>2 DEF WriteOrphan
<1>3. ASSUME NEW s \in Sessions, SessionStep(s)
      PROVE  UNCHANGED <<fin, finalizing>> /\ gaps' \subseteq gaps
    BY <1>3 DEF SessionStep, FetchOne, SetHashset, TakeBlocks, CommitDetach, WriteAndSync,
                CommitClose, TopUp, WindowDone, OutOfPartReqs, DropSession, Watchdog
<1>4. CASE EngineStep
    BY <1>4 DEF EngineStep, CancelRemove, CancelFlag, CancelDiscard, SetPaused,
                PersistSnapshot, Persist
<1> QED
    BY <1>1, <1>2, <1>3, <1>4 DEF Next

LEMMA ExclusiveStep == TypeInv /\ Exclusive /\ [Next]_vars => Exclusive'
<1> SUFFICES ASSUME TypeInv, Exclusive, [Next]_vars PROVE Exclusive'
    OBVIOUS
<1> USE DEF Exclusive, FinalizeIsExclusive, OwnsTheClaim, TypeInv, TypeOK, storeVars, flagVars
<1>1. CASE UNCHANGED <<fin, finalizing>> /\ gaps' \subseteq gaps
    BY <1>1
<1>2. ASSUME NEW f \in Finalizers, TryBeginFinalize(f) PROVE Exclusive'
    BY <1>2 DEF TryBeginFinalize, try_begin_finalize, is_complete
<1>3. ASSUME NEW f \in Finalizers,
             \/ VerifyWholeFile(f) \/ LocalizeCorruption(f) \/ LeaveRegistry(f)
             \/ FinishTo(f) \/ ShareFile(f)
      PROVE  Exclusive'
    BY <1>3 DEF VerifyWholeFile, LocalizeCorruption, LeaveRegistry, FinishTo, ShareFile
<1>4. ASSUME NEW f \in Finalizers, BlameParts(f) \/ ResetAllGaps(f) PROVE Exclusive'
    BY <1>4 DEF BlameParts, ResetAllGaps
<1>5. CASE KillAndRestart
    BY <1>5 DEF KillAndRestart
<1> QED
    BY <1>1, <1>2, <1>3, <1>4, <1>5, FinalizeTouchedBy DEF FinishStep

\* At most one task finalizes a download at a time, and the gap list it found
\* complete stays complete under it (FinalizeIsExclusive).
THEOREM FinalizeExclusive == Spec => []FinalizeIsExclusive
<1>1. Init => Exclusive
    BY DEF Init, Exclusive, FinalizeIsExclusive, OwnsTheClaim
<1> QED
    BY <1>1, TypeInit, TypeStep, ExclusiveStep, PTL DEF Spec, Exclusive
-----------------------------------------------------------------------------
(* Cancelling against moving *)

LEMMA RegistryTouchedBy ==
    ASSUME [Next]_vars
    PROVE  \/ UNCHANGED <<file, registered, cancel_pc, fin>>
           \/ \E f \in Finalizers : FinishStep(f)
           \/ CancelRemove \/ CancelFlag \/ CancelDiscard \/ KillAndRestart
<1> USE DEF engineVars, finVars
<1>1. CASE UNCHANGED vars
    BY <1>1 DEF vars
<1>2. CASE WriteOrphan
    BY <1>2 DEF WriteOrphan
<1>3. ASSUME NEW s \in Sessions, SessionStep(s)
      PROVE  UNCHANGED <<file, registered, cancel_pc, fin>>
    BY <1>3 DEF SessionStep, FetchOne, SetHashset, TakeBlocks, CommitDetach, WriteAndSync,
                CommitClose, TopUp, WindowDone, OutOfPartReqs, DropSession, Watchdog
<1>4. CASE SetPaused \/ PersistSnapshot \/ Persist
    BY <1>4 DEF SetPaused, PersistSnapshot, Persist
<1> QED
    BY <1>1, <1>2, <1>3, <1>4 DEF Next, EngineStep

LEMMA UnregisteredStep ==
    TypeInv /\ GoneIsUnregistered /\ [Next]_vars => GoneIsUnregistered'
<1> SUFFICES ASSUME TypeInv, GoneIsUnregistered, [Next]_vars PROVE GoneIsUnregistered'
    OBVIOUS
<1> USE DEF GoneIsUnregistered, TypeInv, TypeOK, engineVars, finVars
<1>1. CASE UNCHANGED <<file, registered, cancel_pc, fin>>
    BY <1>1
<1>2. ASSUME NEW f \in Finalizers, FinishStep(f) PROVE GoneIsUnregistered'
    BY <1>2 DEF FinishStep, TryBeginFinalize, VerifyWholeFile, LocalizeCorruption,
                BlameParts, ResetAllGaps, LeaveRegistry, FinishTo, ShareFile
<1>3. CASE CancelRemove \/ CancelFlag \/ CancelDiscard
    BY <1>3 DEF CancelRemove, CancelFlag, CancelDiscard
<1>4. CASE KillAndRestart
    BY <1>4 DEF KillAndRestart, resumable
<1> QED
    BY <1>1, <1>2, <1>3, <1>4, RegistryTouchedBy

\* A cancelled download is never moved into place, a discarded file never comes
\* back, a moved one is never deleted, and neither is registered again, in any
\* interleaving with finalizing, late saves and restarts (CancelAndMoveExclude).
THEOREM CancelMoveExclusion == Spec => CancelAndMoveExclude
<1> DEFINE Fate == /\ cancelled /\ file = "part" => file' # "moved"
                   /\ file # "part" => file' = file /\ ~registered'
<1>1. Init => GoneIsUnregistered
    BY DEF Init, GoneIsUnregistered
<1>2. TypeInv /\ GoneIsUnregistered /\ [Next]_vars => Fate
  <2> SUFFICES ASSUME TypeInv, GoneIsUnregistered, [Next]_vars PROVE Fate
    OBVIOUS
  <2>1. file # "part" => ~registered'
    <3>1. file # "part" => ~registered
      BY DEF GoneIsUnregistered
    <3>2. UNCHANGED registered \/ ~registered' \/ KillAndRestart
      BY RegistryTouchedBy
         DEF engineVars, FinishStep, TryBeginFinalize, VerifyWholeFile, LocalizeCorruption,
             BlameParts, ResetAllGaps, LeaveRegistry, FinishTo, ShareFile, CancelRemove,
             CancelFlag, CancelDiscard
    <3> QED
      BY <3>1, <3>2 DEF KillAndRestart, resumable
  <2>2. \/ UNCHANGED file
        \/ ~cancelled /\ file = "part" /\ file' = "moved"
        \/ file = "part" /\ file' = "deleted"
    BY RegistryTouchedBy
       DEF FinishStep, TryBeginFinalize, VerifyWholeFile, LocalizeCorruption, BlameParts,
           ResetAllGaps, LeaveRegistry, FinishTo, ShareFile, CancelRemove, CancelFlag,
           CancelDiscard, KillAndRestart
  <2> QED
    BY <2>1, <2>2
<1>3. TypeInv /\ GoneIsUnregistered /\ [Next]_vars => [Fate]_vars
    BY <1>2
<1> QED
    BY <1>1, <1>3, TypeInit, TypeStep, UnregisteredStep, PTL
    DEF Spec, CancelAndMoveExclude

-----------------------------------------------------------------------------
(***************************************************************************)
(* Module PartFile: a download's gap list and its corrupted parts, for     *)
(* every list a part.met may hold, every set of reservations, every limit  *)
(* and every rarity.                                                       *)
(***************************************************************************)

\* A non-empty set of naturals has a least element.
LEMMA LeastNat ==
    ASSUME NEW T \in SUBSET Nat, T # {}
    PROVE  \E x \in T : \A y \in T : x <= y
<1>1. PICK x \in T : \A y \in T : ~(<<y, x>> \in OpToRel(<, Nat))
  BY NatLessThanWellFounded, WFMin
<1>2. \A y \in T : ~(y < x)
  BY <1>1 DEF OpToRel
<1> QED
  BY <1>2

\* g lists what a loop computes that starts at b and takes step[k] in its k-th round.
Rounds(n, S, b, step, g) ==
    g \in [0 .. n -> S] /\ g[0] = b /\ \A k \in 1 .. n : g[k] = step[k][g[k - 1]]

\* A loop has a value after every round.
LEMMA LoopRuns ==
    ASSUME NEW n \in Nat, NEW S, NEW b \in S, NEW step \in [1 .. n -> [S -> S]]
    PROVE  \E g : Rounds(n, S, b, step, g)
<1> DEFINE Goes(m, g) == g \in [0 .. m -> S] /\ g[0] = b /\ \A k \in 1 .. m : g[k] = step[k][g[k - 1]]
           T == {m \in 0 .. n : ~ \E g : Goes(m, g)}
<1>1. SUFFICES ASSUME n \in T PROVE FALSE
  BY DEF Rounds
<1>2. PICK x \in T : \A y \in T : x <= y
  <2>1. T \in SUBSET Nat
    OBVIOUS
  <2> HIDE DEF T
  <2> QED
    BY <1>1, <2>1, LeastNat
<1>3. x # 0
  <2>1. Goes(0, [k \in 0 .. 0 |-> b])
    OBVIOUS
  <2> QED
    BY <1>2, <2>1
<1>4. x \in 1 .. n /\ x - 1 \in 0 .. n /\ x - 1 \notin T
  <2>1. x \in 1 .. n /\ x - 1 \in 0 .. n /\ ~(x <= x - 1)
    BY <1>2, <1>3
  <2> QED
    BY <1>2, <2>1
<1>5. PICK g : Goes(x - 1, g)
  BY <1>4
<1> DEFINE h == [k \in 0 .. x |-> IF k = x THEN step[x][g[x - 1]] ELSE g[k]]
<1>6. g[x - 1] \in S /\ step[x][g[x - 1]] \in S
  BY <1>4, <1>5
<1>7. h \in [0 .. x -> S]
  BY <1>4, <1>5, <1>6
<1>8. h[0] = b
  BY <1>3, <1>4, <1>5
<1>9. \A k \in 1 .. x : h[k] = step[k][h[k - 1]]
  <2> SUFFICES ASSUME NEW k \in 1 .. x PROVE h[k] = step[k][h[k - 1]]
    OBVIOUS
  <2>1. CASE k = x
    BY <1>3, <1>4, <2>1
  <2>2. CASE k # x
    <3>1. k \in 1 .. (x - 1) /\ k - 1 \in 0 .. x - 1 /\ k \in 0 .. x /\ k - 1 \in 0 .. x /\ k - 1 # x
      BY <1>4, <2>2
    <3>2. h[k] = g[k] /\ h[k - 1] = g[k - 1]
      BY <2>2, <3>1
    <3> QED
      BY <1>5, <3>1, <3>2
  <2> QED
    BY <2>1, <2>2
<1>10. Goes(x, h)
  BY <1>7, <1>8, <1>9
<1> HIDE DEF Goes, h
<1> QED
  BY <1>2, <1>10

\* Whether a list covers a unit, and what normalize makes of one.
Covers(gs, u) == \E i \in 1 .. Len(gs) : gs[i].start <= u /\ u < gs[i].end
Tidy(gs) ==
    /\ gs \in Seq(AnyGap)
    /\ \A i \in 1 .. Len(gs) : gs[i].start < gs[i].end /\ gs[i].end <= Size
    /\ \A i \in 1 .. Len(gs) - 1 : gs[i].end < gs[i + 1].start

LEMMA UnitsCovered ==
    ASSUME NEW gs \in Seq(AnyGap)
    PROVE  UnitsOf(gs) = {u \in Nat : Covers(gs, u)}
<1>0. DOMAIN gs = 1 .. Len(gs) /\ \A i \in 1 .. Len(gs) : gs[i] \in AnyGap
  OBVIOUS
<1>1. DOMAIN gs = 1 .. Len(gs) /\ \A i \in 1 .. Len(gs) : gs[i].start \in Nat /\ gs[i].end \in Nat
  BY <1>0 DEF AnyGap
<1>2. ASSUME NEW u, u \in UnitsOf(gs) PROVE u \in Nat /\ Covers(gs, u)
  <2>1. PICK i \in 1 .. Len(gs) : u \in gs[i].start .. (gs[i].end - 1)
    BY <1>1, <1>2 DEF UnitsOf
  <2>2. u \in Nat /\ gs[i].start <= u /\ u < gs[i].end
    BY <1>1, <2>1
  <2> QED
    BY <2>2 DEF Covers
<1>3. ASSUME NEW u \in Nat, Covers(gs, u) PROVE u \in UnitsOf(gs)
  <2>1. PICK i \in 1 .. Len(gs) : gs[i].start <= u /\ u < gs[i].end
    BY <1>3 DEF Covers
  <2>2. u \in gs[i].start .. (gs[i].end - 1)
    BY <1>1, <2>1
  <2> QED
    BY <1>1, <2>2 DEF UnitsOf
<1> QED
  BY <1>2, <1>3

\* One round of the merge, for a gap that starts no earlier than the last one.
LEMMA MergeStepDoes ==
    ASSUME NEW out, Tidy(out), NEW g \in AnyGap, g.start < g.end, g.end <= Size,
           out # <<>> => out[Len(out)].start <= g.start
    PROVE  LET r == merge_step(out, g) IN
           /\ Tidy(r) /\ r # <<>> /\ r[Len(r)].start <= g.start
           /\ \A u \in Nat : Covers(r, u) <=> Covers(out, u) \/ (g.start <= u /\ u < g.end)
<1>0. out \in Seq(AnyGap) /\ Len(out) \in Nat /\ DOMAIN out = 1 .. Len(out)
  BY DEF Tidy
<1>a. /\ g.start \in Nat /\ g.end \in Nat /\ Size \in Nat
      /\ \A i \in 1 .. Len(out) : out[i].start \in Nat /\ out[i].end \in Nat /\ out[i] \in AnyGap
  <2>1. \A i \in 1 .. Len(out) : out[i] \in AnyGap
    BY <1>0
  <2> QED
    BY <2>1, GeometryAssumption DEF AnyGap
<1>b. /\ \A i \in 1 .. Len(out) : out[i].start < out[i].end /\ out[i].end <= Size
      /\ \A i \in 1 .. Len(out) - 1 : out[i].end < out[i + 1].start
  BY DEF Tidy
<1>1. CASE out # <<>> /\ g.start <= out[Len(out)].end
  <2> DEFINE m == Len(out)
             last == [start |-> out[m].start, end |-> max(out[m].end, g.end)]
             r == [out EXCEPT ![m] = last]
  <2>0. m \in 1 .. m /\ m \in Nat
    BY <1>0, <1>1
  <2>1. merge_step(out, g) = r
    <3>1. out[m] = [start |-> out[m].start, end |-> out[m].end]
      BY <1>a, <2>0 DEF AnyGap
    <3>2. [out[m] EXCEPT !.end = max(out[m].end, g.end)] = last
      BY <3>1
    <3> QED
      BY <1>1, <3>2 DEF merge_step
  <2>2. /\ last.start = out[m].start /\ last.end \in Nat /\ last \in AnyGap
        /\ last.end >= out[m].end /\ last.end >= g.end /\ last.end <= Size
        /\ last.end = out[m].end \/ last.end = g.end
    BY <1>a, <1>b, <2>0 DEF max, AnyGap
  <2>3. r \in Seq(AnyGap) /\ Len(r) = m /\ r[m] = last /\ \A i \in 1 .. m : i # m => r[i] = out[i]
    <3> HIDE DEF last
    <3> QED
      BY <1>0, <2>0, <2>2
  <2> HIDE DEF r, last
  <2>4. Tidy(r)
    <3>1. \A i \in 1 .. m : r[i].start < r[i].end /\ r[i].end <= Size
      BY <1>a, <1>b, <2>0, <2>2, <2>3
    <3>2. ASSUME NEW i \in 1 .. m - 1 PROVE r[i].end < r[i + 1].start
      <4>1. i \in 1 .. m /\ i # m /\ i + 1 \in 1 .. m /\ r[i] = out[i]
        BY <2>0, <2>3
      <4>2. r[i + 1].start = out[i + 1].start
        BY <2>2, <2>3, <4>1
      <4> QED
        BY <1>b, <4>1, <4>2
    <3> QED
      BY <2>3, <3>1, <3>2 DEF Tidy
  <2>5. r # <<>> /\ r[Len(r)].start <= g.start
    BY <1>1, <2>0, <2>2, <2>3
  <2>6. ASSUME NEW u \in Nat PROVE Covers(r, u) <=> Covers(out, u) \/ (g.start <= u /\ u < g.end)
    <3>1. ASSUME Covers(r, u) PROVE Covers(out, u) \/ (g.start <= u /\ u < g.end)
      <4>1. PICK i \in 1 .. m : r[i].start <= u /\ u < r[i].end
        BY <2>3, <3>1 DEF Covers
      <4>2. CASE i # m
        BY <2>3, <4>1, <4>2 DEF Covers
      <4>3. CASE i = m
        <5>1. out[m].start <= u /\ (u < out[m].end \/ (g.start <= u /\ u < g.end))
          BY <1>1, <1>a, <2>0, <2>2, <2>3, <4>1, <4>3
        <5> QED
          BY <2>0, <5>1 DEF Covers
      <4> QED
        BY <4>2, <4>3
    <3>2. ASSUME Covers(out, u) PROVE Covers(r, u)
      <4>1. PICK i \in 1 .. m : out[i].start <= u /\ u < out[i].end
        BY <3>2 DEF Covers
      <4>2. r[i].start <= u /\ u < r[i].end
        BY <1>a, <2>0, <2>2, <2>3, <4>1
      <4> QED
        BY <2>3, <4>2 DEF Covers
    <3>3. ASSUME g.start <= u, u < g.end PROVE Covers(r, u)
      <4>1. r[m].start <= u /\ u < r[m].end
        BY <1>1, <1>a, <2>0, <2>2, <2>3, <3>3
      <4> QED
        BY <2>0, <2>3, <4>1 DEF Covers
    <3> QED
      BY <3>1, <3>2, <3>3
  <2> QED
    BY <2>1, <2>4, <2>5, <2>6
<1>2. CASE ~(out # <<>> /\ g.start <= out[Len(out)].end)
  <2> DEFINE r == Append(out, g)
             m == Len(out)
  <2>1. merge_step(out, g) = r
    BY <1>2 DEF merge_step
  <2>2. r \in Seq(AnyGap) /\ Len(r) = m + 1 /\ r[m + 1] = g /\ \A i \in 1 .. m : r[i] = out[i]
    BY <1>0
  <2>3. m \in Nat /\ m + 1 \in 1 .. m + 1 /\ \A i \in 1 .. m + 1 : i \in 1 .. m \/ i = m + 1
    BY <1>0
  <2> HIDE DEF r
  <2>4. Tidy(r)
    <3>1. \A i \in 1 .. m + 1 : r[i].start < r[i].end /\ r[i].end <= Size
      BY <1>b, <2>2, <2>3
    <3>2. ASSUME NEW i \in 1 .. m PROVE r[i].end < r[i + 1].start
      <4>1. CASE i = m
        BY <1>2, <1>a, <2>2, <2>3, <4>1
      <4>2. CASE i # m
        <5>1. i \in 1 .. m - 1 /\ i + 1 \in 1 .. m
          BY <2>3, <4>2
        <5> QED
          BY <1>b, <2>2, <5>1
      <4> QED
        BY <4>1, <4>2
    <3>3. m = Len(r) - 1
      BY <2>2, <2>3
    <3> QED
      BY <2>2, <3>1, <3>2, <3>3 DEF Tidy
  <2>5. r # <<>> /\ r[Len(r)].start <= g.start
    BY <1>a, <2>2, <2>3
  <2>6. ASSUME NEW u \in Nat PROVE Covers(r, u) <=> Covers(out, u) \/ (g.start <= u /\ u < g.end)
    BY <2>2, <2>3 DEF Covers
  <2> QED
    BY <2>1, <2>4, <2>5, <2>6
<1> QED
  BY <1>1, <1>2

\* What merge_step returns is a list of gaps again.
LEMMA MergeStepTyped ==
    ASSUME NEW out \in Seq(AnyGap), NEW g \in AnyGap
    PROVE  merge_step(out, g) \in Seq(AnyGap)
<1>0. Len(out) \in Nat /\ DOMAIN out = 1 .. Len(out) /\ \A i \in 1 .. Len(out) : out[i] \in AnyGap
  OBVIOUS
<1>1. CASE out # <<>> /\ g.start <= out[Len(out)].end
  <2> DEFINE m == Len(out)
             e == max(out[m].end, g.end)
  <2>1. m \in 1 .. m
    BY <1>0, <1>1
  <2>2. out[m] \in AnyGap
    BY <1>0, <2>1
  <2>3. e \in Nat
    BY <2>2 DEF AnyGap, max
  <2>4. [out[m] EXCEPT !.end = e] \in AnyGap
    <3> HIDE DEF e
    <3> QED
      BY <2>2, <2>3 DEF AnyGap
  <2>5. merge_step(out, g) = [out EXCEPT ![m] = [out[m] EXCEPT !.end = e]]
    BY <1>1 DEF merge_step
  <2> HIDE DEF e
  <2> QED
    BY <1>0, <2>1, <2>4, <2>5
<1>2. CASE ~(out # <<>> /\ g.start <= out[Len(out)].end)
  BY <1>2 DEF merge_step
<1> QED
  BY <1>1, <1>2

\* Lists of gaps that are not empty, none past the end, by start.
ByStart(gs) ==
    /\ gs \in Seq(AnyGap)
    /\ \A i \in 1 .. Len(gs) : gs[i].start < gs[i].end /\ gs[i].end <= Size
    /\ \A i, j \in 1 .. Len(gs) : i < j => gs[i].start <= gs[j].start

\* Merging them leaves a tidy list of the same units.
LEMMA MergeDoes ==
    ASSUME NEW gs, ByStart(gs)
    PROVE  Tidy(merge(gs)) /\ \A u \in Nat : Covers(merge(gs), u) <=> Covers(gs, u)
<1> DEFINE n == Len(gs)
           S == Seq(AnyGap)
           step == [k \in 1 .. n |-> [out \in S |-> merge_step(out, gs[k])]]
           F(f) == [k \in 0 .. n |-> IF k = 0 THEN <<>> ELSE merge_step(f[k - 1], gs[k])]
           merged == CHOOSE f : f = F(f)
<1>0. /\ n \in Nat /\ gs \in Seq(AnyGap)
      /\ \A i \in 1 .. n : gs[i] \in AnyGap /\ gs[i].start < gs[i].end /\ gs[i].end <= Size
  BY DEF ByStart
<1>1. step \in [1 .. n -> [S -> S]]
  BY <1>0, MergeStepTyped
<1>2. PICK g \in [0 .. n -> S] : g[0] = <<>> /\ \A k \in 1 .. n : g[k] = step[k][g[k - 1]]
  <2>1. <<>> \in S
    OBVIOUS
  <2>2. n \in Nat
    BY <1>0
  <2>3. PICK g : Rounds(n, S, <<>>, step, g)
    <3> HIDE DEF step, S, n
    <3> QED
      BY <1>1, <2>1, <2>2, LoopRuns
  <2> QED
    BY <2>3 DEF Rounds
<1>3. ASSUME NEW k \in 0 .. n PROVE g[k] = IF k = 0 THEN <<>> ELSE merge_step(g[k - 1], gs[k])
  <2> HIDE DEF S
  <2>1. CASE k = 0
    BY <1>2, <2>1
  <2>2. CASE k # 0
    <3>1. k \in 1 .. n /\ k - 1 \in 0 .. n
      BY <1>0, <2>2
    <3>2. g[k - 1] \in S
      BY <1>2, <3>1
    <3>3. g[k] = step[k][g[k - 1]]
      BY <1>2, <3>1
    <3> QED
      BY <2>2, <3>1, <3>2, <3>3
  <2> QED
    BY <2>1, <2>2
<1>4. g = F(g)
  <2> HIDE DEF S
  <2> QED
    BY <1>2, <1>3
<1>5. merged = F(merged)
  BY <1>4
<1>6. merge(gs) = merged[n]
  BY DEF merge
<1> HIDE DEF merged
<1>7. \A k \in 0 .. n : merged[k] = IF k = 0 THEN <<>> ELSE merge_step(merged[k - 1], gs[k])
  BY <1>5
<1> DEFINE Upto(k, u) == \E i \in 1 .. k : gs[i].start <= u /\ u < gs[i].end
           P(k) == /\ Tidy(merged[k])
                   /\ \A u \in Nat : Covers(merged[k], u) <=> Upto(k, u)
                   /\ k # 0 => /\ merged[k] # <<>>
                               /\ merged[k][Len(merged[k])].start <= gs[k].start
<1>8. P(0)
  <2>1. merged[0] = <<>>
    BY <1>0, <1>7
  <2> QED
    BY <2>1 DEF Tidy, Covers
<1>9. ASSUME NEW k \in 1 .. n, P(k - 1) PROVE P(k)
  <2> DEFINE out == merged[k - 1]
  <2>1. k - 1 \in 0 .. n /\ k \in 0 .. n /\ k # 0 /\ gs[k] \in AnyGap /\ gs[k].start < gs[k].end /\ gs[k].end <= Size
    BY <1>0
  <2>2. merged[k] = merge_step(out, gs[k])
    BY <1>7, <2>1
  <2>3. out # <<>> => out[Len(out)].start <= gs[k].start
    <3> SUFFICES ASSUME out # <<>> PROVE out[Len(out)].start <= gs[k].start
      OBVIOUS
    <3>1. k - 1 # 0
      BY <1>0, <1>7
    <3>2. k - 1 \in 1 .. n /\ k - 1 < k
      BY <1>0, <3>1
    <3>3. gs[k - 1].start <= gs[k].start /\ gs[k - 1].start \in Nat /\ gs[k].start \in Nat
      BY <1>0, <3>2 DEF ByStart, AnyGap
    <3>4. out[Len(out)].start <= gs[k - 1].start
      BY <1>9, <3>1
    <3>5. out[Len(out)] \in AnyGap
      <4>1. out \in Seq(AnyGap)
        BY <1>9 DEF Tidy
      <4>2. Len(out) \in 1 .. Len(out)
        BY <4>1
      <4> QED
        BY <4>1, <4>2
    <3>6. out[Len(out)].start \in Nat
      BY <3>5 DEF AnyGap
    <3> HIDE DEF out
    <3> QED
      BY <3>3, <3>4, <3>6
  <2>4. Tidy(out)
    BY <1>9
  <2>5. /\ Tidy(merged[k]) /\ merged[k] # <<>> /\ merged[k][Len(merged[k])].start <= gs[k].start
        /\ \A u \in Nat : Covers(merged[k], u) <=> Covers(out, u) \/ (gs[k].start <= u /\ u < gs[k].end)
    <3> HIDE DEF out
    <3> QED
      BY <2>1, <2>2, <2>3, <2>4, MergeStepDoes
  <2>6. ASSUME NEW u \in Nat PROVE Covers(merged[k], u) <=> Upto(k, u)
    <3>1. Covers(out, u) <=> Upto(k - 1, u)
      BY <1>9
    <3>2. Upto(k, u) <=> Upto(k - 1, u) \/ (gs[k].start <= u /\ u < gs[k].end)
      <4>1. \A i \in 1 .. k : i \in 1 .. k - 1 \/ i = k
        OBVIOUS
      <4>2. k \in 1 .. k /\ \A i \in 1 .. k - 1 : i \in 1 .. k
        OBVIOUS
      <4> QED
        BY <4>1, <4>2
    <3> HIDE DEF out, Upto
    <3> QED
      BY <2>5, <3>1, <3>2
  <2> HIDE DEF out, Upto
  <2> QED
    BY <2>5, <2>6
<1> HIDE DEF P
<1>10. P(n)
  <2> DEFINE T == {k \in 0 .. n : ~P(k)}
  <2> SUFFICES ASSUME T # {} PROVE FALSE
    BY <1>0
  <2>1. PICK x \in T : \A y \in T : x <= y
    <3>1. T \in SUBSET Nat
      BY <1>0
    <3> HIDE DEF T
    <3> QED
      BY <3>1, LeastNat
  <2>2. x # 0
    BY <1>8, <2>1
  <2>3. x \in 1 .. n /\ x - 1 \in 0 .. n /\ ~(x <= x - 1)
    BY <1>0, <2>1, <2>2
  <2>4. P(x - 1)
    BY <2>1, <2>3
  <2> QED
    BY <1>9, <2>1, <2>3, <2>4
<1> QED
  <2>1. Tidy(merged[n]) /\ \A u \in Nat : Covers(merged[n], u) <=> Upto(n, u)
    BY <1>10 DEF P
  <2>2. \A u : Upto(n, u) <=> Covers(gs, u)
    BY DEF Covers
  <2> HIDE DEF Upto
  <2> QED
    BY <1>6, <2>1, <2>2

\* A strict order of all members of S.
Orders(S, before) ==
    /\ \A x \in S : <<x, x>> \notin before
    /\ \A x, y \in S : x = y \/ <<x, y>> \in before \/ <<y, x>> \in before
    /\ \A x, y, z \in S : <<x, y>> \in before /\ <<y, z>> \in before => <<x, z>> \in before

\* InOrder lists every member once, the smaller ones first.
LEMMA InOrderDoes ==
    ASSUME NEW S, IsFiniteSet(S), NEW before, Orders(S, before)
    PROVE  LET order == InOrder(S, before) IN
           /\ Cardinality(S) \in Nat /\ order \in [1 .. Cardinality(S) -> S]
           /\ \A x \in S : \E n \in 1 .. Cardinality(S) : order[n] = x
           /\ \A n, m \in 1 .. Cardinality(S) : n < m => <<order[n], order[m]>> \in before
<1> DEFINE Below(x) == {y \in S : <<y, x>> \in before}
           rank(x) == Cardinality(Below(x))
           N == Cardinality(S)
           I == 0 .. N - 1
           at(n) == CHOOSE x \in S : rank(x) = n - 1
           order == [n \in 1 .. N |-> at(n)]
<1>1. InOrder(S, before) = order
  BY DEF InOrder
<1>2. N \in Nat
  BY FS_CardinalityType
<1>3. /\ \A x \in S : <<x, x>> \notin before
      /\ \A x, y \in S : x = y \/ <<x, y>> \in before \/ <<y, x>> \in before
      /\ \A x, y, z \in S : <<x, y>> \in before /\ <<y, z>> \in before => <<x, z>> \in before
  BY DEF Orders
<1>8. \A x : IsFiniteSet(Below(x)) /\ rank(x) \in Nat
  <2> TAKE x
  <2>1. Below(x) \in SUBSET S
    OBVIOUS
  <2> HIDE DEF Below
  <2>2. IsFiniteSet(Below(x))
    BY <2>1, FS_Subset
  <2> QED
    BY <2>2, FS_CardinalityType
<1>9. ASSUME NEW U, IsFiniteSet(U), NEW T \in SUBSET U, NEW x \in U, x \notin T
      PROVE  Cardinality(T) < Cardinality(U)
  <2>1. IsFiniteSet(T) /\ Cardinality(T) <= Cardinality(U) /\ (Cardinality(T) = Cardinality(U) => T = U)
    BY <1>9, FS_Subset
  <2>2. T # U
    BY <1>9
  <2>3. Cardinality(T) \in Nat /\ Cardinality(U) \in Nat
    BY <1>9, <2>1, FS_CardinalityType
  <2> QED
    BY <2>1, <2>2, <2>3
<1>10. ASSUME NEW x \in S PROVE rank(x) \in I
  <2>1. Below(x) \in SUBSET S /\ x \notin Below(x)
    BY <1>3
  <2> HIDE DEF Below
  <2>2. rank(x) < N
    BY <1>9, <2>1
  <2> HIDE DEF rank
  <2> QED
    BY <1>2, <1>8, <2>2
<1>11. ASSUME NEW x \in S, NEW y \in S, <<x, y>> \in before PROVE rank(x) < rank(y)
  <2>1. Below(x) \in SUBSET Below(y) /\ x \in Below(y) /\ x \notin Below(x)
    BY <1>3, <1>11
  <2>2. IsFiniteSet(Below(y))
    BY <1>8
  <2> HIDE DEF Below
  <2> QED
    BY <1>9, <2>1, <2>2
<1> HIDE DEF rank
<1>12. ASSUME NEW x \in S, NEW y \in S, rank(x) <= rank(y), x # y PROVE <<x, y>> \in before
  <2>1. PICK a, b : a = rank(x) /\ b = rank(y)
    OBVIOUS
  <2>2. a \in Nat /\ b \in Nat /\ ~(b < a)
    <3>1. a \in Nat /\ b \in Nat
      BY <1>8, <2>1 DEF rank
    <3> QED
      BY <1>12, <2>1, <3>1
  <2>3. <<y, x>> \notin before
    BY <1>11, <2>1, <2>2
  <2> QED
    BY <1>3, <1>12, <2>3
<1>a. ASSUME NEW x \in S, NEW y \in S, rank(x) = rank(y) PROVE x = y
  <2> SUFFICES ASSUME x # y PROVE FALSE
    OBVIOUS
  <2>1. PICK a, b : a = rank(x) /\ b = rank(y)
    OBVIOUS
  <2>2. a \in Nat /\ b \in Nat /\ a <= b /\ ~(a < b)
    <3>1. a \in Nat /\ b \in Nat
      BY <1>8, <2>1 DEF rank
    <3> QED
      BY <1>a, <2>1, <3>1
  <2>3. <<x, y>> \in before
    BY <1>12, <2>1, <2>2
  <2> QED
    BY <1>11, <2>1, <2>2, <2>3
<1> DEFINE f == [x \in S |-> rank(x)]
<1>13. f \in Surjection(S, I)
  <2>1. f \in [S -> I]
    <3> HIDE DEF I
    <3> QED
      BY <1>10
  <2>2. \A x, y \in S : f[x] = f[y] => x = y
    BY <1>a
  <2>3. f \in Injection(S, I)
    <3> HIDE DEF f, I
    <3> QED
      BY <2>1, <2>2 DEF Injection, IsInjective
  <2>4. IsFiniteSet(I) /\ Cardinality(I) = N
    <3> HIDE DEF N
    <3>1. 0 \in Int /\ N - 1 \in Int
      BY <1>2
    <3>2. IsFiniteSet(0 .. N - 1) /\ Cardinality(0 .. N - 1) = IF 0 > N - 1 THEN 0 ELSE N - 1 - 0 + 1
      BY <3>1, FS_Interval
    <3> QED
      BY <1>2, <3>2
  <2> HIDE DEF f, I
  <2> QED
    BY <2>3, <2>4, FS_Injection
<1>14. \A k \in I : \E x \in S : rank(x) = k
  <2> HIDE DEF I
  <2> QED
    BY <1>13 DEF Surjection
<1>15. ASSUME NEW n \in 1 .. N PROVE at(n) \in S /\ rank(at(n)) = n - 1
  <2>1. n - 1 \in I
    BY <1>2
  <2> HIDE DEF I
  <2> QED
    BY <1>14, <2>1
<1>16. ASSUME NEW x \in S PROVE \E n \in 1 .. N : order[n] = x
  <2>1. PICK n : n = rank(x) + 1
    OBVIOUS
  <2>2. n \in 1 .. N /\ n - 1 = rank(x)
    BY <1>2, <1>8, <1>10, <2>1
  <2>3. at(n) = x
    <3> HIDE DEF at
    <3> QED
      BY <1>a, <1>15, <2>2
  <2> HIDE DEF at
  <2> QED
    BY <2>2, <2>3
<1> HIDE DEF at
<1>17. order \in [1 .. N -> S] /\ \A n \in 1 .. N : order[n] = at(n)
  BY <1>15
<1> HIDE DEF order, N
<1>18. ASSUME NEW n \in 1 .. N, NEW m \in 1 .. N, n < m PROVE <<order[n], order[m]>> \in before
  <2>1. PICK x, y : x = order[n] /\ y = order[m]
    OBVIOUS
  <2>2. x \in S /\ y \in S /\ rank(x) = n - 1 /\ rank(y) = m - 1
    BY <1>15, <1>17, <2>1
  <2>3. rank(x) <= rank(y) /\ x # y
    <3>1. n - 1 <= m - 1 /\ n - 1 # m - 1
      BY <1>2, <1>18
    <3> QED
      BY <2>2, <3>1
  <2> QED
    BY <1>12, <2>1, <2>2, <2>3
<1> QED
  BY <1>1, <1>2, <1>16, <1>17, <1>18 DEF N

\* Sorting leaves the same units, without the empty gaps, by start.
LEMMA SortedDoes ==
    ASSUME NEW gs \in Seq(AnyGap), \A i \in 1 .. Len(gs) : gs[i].end <= Size
    PROVE  ByStart(sorted(gs)) /\ \A u \in Nat : Covers(sorted(gs), u) <=> Covers(gs, u)
<1> DEFINE kept == {i \in DOMAIN gs : gs[i].start < gs[i].end}
           sooner == {x \in kept \X kept :
                        \/ gs[x[1]].start < gs[x[2]].start
                        \/ gs[x[1]].start = gs[x[2]].start /\ x[1] < x[2]}
           Sooner(j, i) == \/ gs[j].start < gs[i].start
                           \/ gs[j].start = gs[i].start /\ j < i
           order == InOrder(kept, sooner)
           N == Cardinality(kept)
           r == [n \in DOMAIN order |-> gs[order[n]]]
<1>0. DOMAIN gs = 1 .. Len(gs) /\ Len(gs) \in Nat /\ \A i \in 1 .. Len(gs) : gs[i] \in AnyGap
  OBVIOUS
<1>1. \A i \in 1 .. Len(gs) : gs[i].start \in Nat /\ gs[i].end \in Nat
  BY <1>0 DEF AnyGap
<1>2. kept \in SUBSET (1 .. Len(gs)) /\ \A i \in kept : i \in Nat /\ gs[i].start \in Nat
  BY <1>0, <1>1
<1>3. IsFiniteSet(kept)
  <2>1. IsFiniteSet(1 .. Len(gs))
    BY <1>0, FS_Interval
  <2> QED
    BY <1>2, <2>1, FS_Subset
<1>4. /\ \A i \in kept : ~Sooner(i, i)
      /\ \A i, j \in kept : i = j \/ Sooner(i, j) \/ Sooner(j, i)
      /\ \A i, j, k \in kept : Sooner(i, j) /\ Sooner(j, k) => Sooner(i, k)
  <2> HIDE DEF kept
  <2> QED
    BY <1>2
<1>a. \A i, j \in kept : Sooner(i, j) => gs[i].start <= gs[j].start
  <2> HIDE DEF kept
  <2> QED
    BY <1>2
<1>5. sorted(gs) = r
  BY DEF sorted
<1>6. \A i, j \in kept : <<i, j>> \in sooner <=> Sooner(i, j)
  <2> HIDE DEF kept
  <2> QED
    OBVIOUS
<1>7. \A i \in 1 .. Len(gs) : i \in kept <=> gs[i].start < gs[i].end
  BY <1>0
<1> HIDE DEF kept, Sooner, sooner
<1>8. Orders(kept, sooner)
  BY <1>4, <1>6 DEF Orders
<1>9. /\ N \in Nat /\ order \in [1 .. N -> kept]
      /\ \A i \in kept : \E n \in 1 .. N : order[n] = i
      /\ \A n, m \in 1 .. N : n < m => <<order[n], order[m]>> \in sooner
  BY <1>3, <1>8, InOrderDoes
<1> HIDE DEF order, N
<1>17. /\ r \in Seq(AnyGap) /\ Len(r) = N
       /\ \A n \in 1 .. N : r[n] = gs[order[n]] /\ order[n] \in 1 .. Len(gs) /\ order[n] \in kept
  <2>1. \A n \in 1 .. N : order[n] \in 1 .. Len(gs) /\ order[n] \in kept
    BY <1>2, <1>9
  <2>2. \A n \in 1 .. N : gs[order[n]] \in AnyGap
    BY <1>0, <2>1
  <2>3. DOMAIN order = 1 .. N
    BY <1>9
  <2>4. r \in [1 .. N -> AnyGap] /\ \A n \in 1 .. N : r[n] = gs[order[n]]
    BY <2>2, <2>3
  <2>5. r \in Seq(AnyGap) /\ Len(r) = N
    <3> HIDE DEF r
    <3> QED
      BY <1>9, <2>4
  <2> QED
    BY <2>1, <2>4, <2>5
<1> HIDE DEF r
<1>18. ASSUME NEW n \in 1 .. N, NEW m \in 1 .. N, n < m PROVE r[n].start <= r[m].start
  <2>1. PICK i, j : i = order[n] /\ j = order[m]
    OBVIOUS
  <2>2. i \in kept /\ j \in kept /\ <<i, j>> \in sooner /\ r[n] = gs[i] /\ r[m] = gs[j]
    BY <1>9, <1>17, <1>18, <2>1
  <2> QED
    BY <1>a, <1>6, <2>2
<1>19. \A n \in 1 .. N : r[n].start < r[n].end /\ r[n].end <= Size
  BY <1>7, <1>17
<1>20. ByStart(r)
  BY <1>17, <1>18, <1>19 DEF ByStart
<1>21. ASSUME NEW u \in Nat PROVE Covers(r, u) <=> Covers(gs, u)
  <2>1. ASSUME Covers(r, u) PROVE Covers(gs, u)
    BY <1>17, <2>1 DEF Covers
  <2>2. ASSUME Covers(gs, u) PROVE Covers(r, u)
    <3>1. PICK i \in 1 .. Len(gs) : gs[i].start <= u /\ u < gs[i].end
      BY <2>2 DEF Covers
    <3>2. i \in kept
      BY <1>1, <1>7, <3>1
    <3>3. PICK n \in 1 .. N : order[n] = i
      BY <1>9, <3>2
    <3> QED
      BY <1>17, <3>1, <3>3 DEF Covers
  <2> QED
    BY <2>1, <2>2
<1> QED
  BY <1>5, <1>20, <1>21

\* normalize makes any list tidy and keeps exactly the units inside the file.
LEMMA NormalizeDoes ==
    ASSUME NEW gs \in Seq(AnyGap)
    PROVE  /\ Tidy(normalize(gs))
           /\ UnitsOf(normalize(gs)) = UnitsOf(gs) \cap Units
<1> DEFINE c == [i \in DOMAIN gs |-> clamp(gs[i])]
<1>0. DOMAIN gs = 1 .. Len(gs) /\ Len(gs) \in Nat /\ Size \in Nat
  BY GeometryAssumption
<1>1. \A i \in 1 .. Len(gs) : gs[i] \in AnyGap
  BY <1>0
<1>2. ASSUME NEW g \in AnyGap
      PROVE  /\ clamp(g) \in AnyGap /\ clamp(g).end <= Size
             /\ \A u \in Nat : clamp(g).start <= u /\ u < clamp(g).end
                                <=> g.start <= u /\ u < g.end /\ u < Size
  <2>1. g.start \in Nat /\ g.end \in Nat
    BY DEF AnyGap
  <2>2. PICK e : e = min(g.end, Size)
    OBVIOUS
  <2>3. PICK s : s = min(g.start, e)
    OBVIOUS
  <2>4. e \in Nat /\ e <= Size /\ e <= g.end /\ (e = g.end \/ e = Size)
    BY <1>0, <2>1, <2>2 DEF min
  <2>5. s \in Nat /\ s <= e /\ s <= g.start /\ (s = g.start \/ s = e)
    BY <2>1, <2>3, <2>4 DEF min
  <2>6. clamp(g) = [start |-> s, end |-> e]
    BY <2>2, <2>3 DEF clamp, Gap
  <2>7. clamp(g) \in AnyGap /\ clamp(g).start = s /\ clamp(g).end = e
    BY <2>4, <2>5, <2>6 DEF AnyGap
  <2> QED
    BY <1>0, <2>1, <2>4, <2>5, <2>7
<1>3. c \in Seq(AnyGap) /\ Len(c) = Len(gs) /\ \A i \in 1 .. Len(gs) : c[i] = clamp(gs[i])
  BY <1>0, <1>1, <1>2
<1>4. normalize(gs) = merge(sorted(c))
  BY DEF normalize
<1> HIDE DEF c
<1>5. \A i \in 1 .. Len(c) : c[i].end <= Size
  BY <1>1, <1>2, <1>3
<1>6. PICK s : s = sorted(c)
  OBVIOUS
<1>7. ByStart(s) /\ \A u \in Nat : Covers(s, u) <=> Covers(c, u)
  BY <1>3, <1>5, <1>6, SortedDoes
<1>8. PICK m : m = merge(s)
  OBVIOUS
<1>9. Tidy(m) /\ \A u \in Nat : Covers(m, u) <=> Covers(s, u)
  BY <1>7, <1>8, MergeDoes
<1>10. ASSUME NEW u \in Nat PROVE Covers(m, u) <=> Covers(gs, u) /\ u < Size
  <2>1. Covers(m, u) <=> Covers(c, u)
    BY <1>7, <1>9
  <2>2. Covers(c, u) <=> Covers(gs, u) /\ u < Size
    BY <1>1, <1>2, <1>3 DEF Covers
  <2> QED
    BY <2>1, <2>2
<1>11. UnitsOf(m) = {u \in Nat : Covers(m, u)} /\ UnitsOf(gs) = {u \in Nat : Covers(gs, u)}
  BY <1>9, UnitsCovered DEF Tidy
<1>12. \A u : u \in Units <=> u \in Nat /\ u < Size
  BY <1>0 DEF Units
<1>13. UnitsOf(m) = UnitsOf(gs) \cap Units
  BY <1>10, <1>11, <1>12
<1> QED
  BY <1>4, <1>6, <1>8, <1>9, <1>13

LEMMA CoversJoined ==
    ASSUME NEW a \in Seq(AnyGap), NEW b \in Seq(AnyGap), NEW u
    PROVE  a \o b \in Seq(AnyGap) /\ (Covers(a \o b, u) <=> Covers(a, u) \/ Covers(b, u))
<1>1. PICK m, n, c : m = Len(a) /\ n = Len(b) /\ c = a \o b
  OBVIOUS
<1>2. /\ m \in Nat /\ n \in Nat /\ c \in Seq(AnyGap) /\ Len(c) = m + n
      /\ \A i \in 1 .. m + n : c[i] = IF i <= m THEN a[i] ELSE b[i - m]
  BY <1>1
<1>3. \A i \in 1 .. m : i \in 1 .. m + n /\ c[i] = a[i]
  BY <1>2
<1>4. ASSUME NEW i \in 1 .. n PROVE m + i \in 1 .. m + n /\ c[m + i] = b[i]
  <2>1. m + i \in 1 .. m + n /\ ~(m + i <= m) /\ (m + i) - m = i
    BY <1>2
  <2> QED
    BY <1>2, <2>1
<1>5. \A i \in 1 .. m + n : (i \in 1 .. m /\ c[i] = a[i]) \/ (i - m \in 1 .. n /\ c[i] = b[i - m])
  BY <1>2
<1>6. Covers(c, u) => Covers(a, u) \/ Covers(b, u)
  BY <1>1, <1>2, <1>5 DEF Covers
<1>7. Covers(a, u) => Covers(c, u)
  BY <1>1, <1>2, <1>3 DEF Covers
<1>8. Covers(b, u) => Covers(c, u)
  BY <1>1, <1>2, <1>4 DEF Covers
<1> QED
  BY <1>1, <1>2, <1>6, <1>7, <1>8

\* Cutting [s, e) out of a gap leaves exactly its other units.
LEMMA CutDoes ==
    ASSUME NEW g \in AnyGap, NEW s \in Nat, NEW e \in Nat, s < e
    PROVE  /\ cut(g, s, e) \in Seq(AnyGap)
           /\ \A u \in Nat : Covers(cut(g, s, e), u)
                              <=> g.start <= u /\ u < g.end /\ ~(s <= u /\ u < e)
<1>0. g.start \in Nat /\ g.end \in Nat
  BY DEF AnyGap
<1>a. ASSUME NEW x \in AnyGap PROVE <<x>> \in Seq(AnyGap) /\ \A u : Covers(<<x>>, u) <=> x.start <= u /\ u < x.end
  <2>1. <<x>> \in Seq(AnyGap) /\ Len(<<x>>) = 1 /\ <<x>>[1] = x
    OBVIOUS
  <2>2. 1 .. 1 = {1}
    OBVIOUS
  <2>3. PICK y : y = <<x>>
    OBVIOUS
  <2> QED
    BY <2>1, <2>2, <2>3 DEF Covers
<1>b. <<>> \in Seq(AnyGap) /\ \A u : ~Covers(<<>>, u)
  BY DEF Covers
<1>1. CASE ~Touches(g, s, e)
  <2>1. cut(g, s, e) = <<g>>
    BY <1>1 DEF cut
  <2>2. g.end <= s \/ g.start >= e
    BY <1>0, <1>1 DEF Touches
  <2>3. ASSUME NEW u \in Nat
        PROVE  g.start <= u /\ u < g.end <=> g.start <= u /\ u < g.end /\ ~(s <= u /\ u < e)
    BY <1>0, <2>2
  <2> QED
    BY <1>a, <2>1, <2>3
<1>2. CASE Touches(g, s, e)
  <2>0. g.start < e /\ g.end > s
    BY <1>2 DEF Touches
  <2>1. PICK a, b : /\ a = IF g.start < s THEN <<Gap(g.start, s)>> ELSE <<>>
                    /\ b = IF g.end > e THEN <<Gap(e, g.end)>> ELSE <<>>
    OBVIOUS
  <2>2. cut(g, s, e) = a \o b
    BY <1>2, <2>1 DEF cut
  <2>3. a \in Seq(AnyGap) /\ \A u \in Nat : Covers(a, u) <=> g.start <= u /\ u < s
    <3>1. CASE g.start < s
      <4>1. PICK x : x = Gap(g.start, s)
        OBVIOUS
      <4>2. x \in AnyGap /\ x.start = g.start /\ x.end = s
        BY <1>0, <4>1 DEF Gap, AnyGap
      <4>3. a = <<x>>
        BY <2>1, <3>1, <4>1
      <4> QED
        BY <1>a, <4>2, <4>3
    <3>2. CASE ~(g.start < s)
      <4>1. \A u \in Nat : ~(g.start <= u /\ u < s)
        BY <1>0, <3>2
      <4> QED
        BY <1>b, <2>1, <3>2, <4>1
    <3> QED
      BY <3>1, <3>2
  <2>4. b \in Seq(AnyGap) /\ \A u \in Nat : Covers(b, u) <=> e <= u /\ u < g.end
    <3>1. CASE g.end > e
      <4>1. PICK x : x = Gap(e, g.end)
        OBVIOUS
      <4>2. x \in AnyGap /\ x.start = e /\ x.end = g.end
        BY <1>0, <4>1 DEF Gap, AnyGap
      <4>3. b = <<x>>
        BY <2>1, <3>1, <4>1
      <4> QED
        BY <1>a, <4>2, <4>3
    <3>2. CASE ~(g.end > e)
      <4>1. \A u \in Nat : ~(e <= u /\ u < g.end)
        BY <1>0, <3>2
      <4> QED
        BY <1>b, <2>1, <3>2, <4>1
    <3> QED
      BY <3>1, <3>2
  <2>5. \A u \in Nat : (g.start <= u /\ u < s) \/ (e <= u /\ u < g.end)
                         <=> g.start <= u /\ u < g.end /\ ~(s <= u /\ u < e)
    BY <1>0, <2>0
  <2> QED
    BY <2>2, <2>3, <2>4, <2>5, CoversJoined
<1> QED
  BY <1>1, <1>2

\* Filling [s, e) takes exactly these units out of a tidy list and leaves it tidy.
LEMMA FillDoes ==
    ASSUME NEW gs, Tidy(gs), NEW s \in Nat, NEW e \in Nat
    PROVE  /\ Tidy(fill_gap(gs, s, e))
           /\ UnitsOf(fill_gap(gs, s, e)) = UnitsOf(gs) \ {u \in Nat : s <= u /\ u < e}
<1> DEFINE n == Len(gs)
           S == Seq(AnyGap)
           step == [k \in 1 .. n |-> [out \in S |-> out \o cut(gs[k], s, e)]]
           F(f) == [k \in 0 .. n |-> IF k = 0 THEN <<>> ELSE f[k - 1] \o cut(gs[k], s, e)]
           rest == CHOOSE f : f = F(f)
<1>0. /\ n \in Nat /\ gs \in S /\ \A i \in 1 .. n : gs[i] \in AnyGap
      /\ \A i \in 1 .. n : gs[i].start \in Nat /\ gs[i].end \in Nat /\ gs[i].end <= Size
  <2>1. n \in Nat /\ gs \in S /\ \A i \in 1 .. n : gs[i] \in AnyGap
    BY DEF Tidy
  <2> QED
    BY <2>1 DEF Tidy, AnyGap
<1>1. CASE s >= e
  <2>1. fill_gap(gs, s, e) = gs
    BY <1>1 DEF fill_gap
  <2>2. \A u \in Nat : ~(s <= u /\ u < e)
    BY <1>1
  <2> QED
    BY <2>1, <2>2
<1>2. CASE s < e
  <2>1. step \in [1 .. n -> [S -> S]]
    <3>1. ASSUME NEW k \in 1 .. n, NEW out \in S PROVE out \o cut(gs[k], s, e) \in S
      BY <1>0, <1>2, CutDoes, CoversJoined
    <3> HIDE DEF S, n
    <3> QED
      BY <3>1
  <2>2. PICK g \in [0 .. n -> S] : g[0] = <<>> /\ \A k \in 1 .. n : g[k] = step[k][g[k - 1]]
    <3>1. <<>> \in S
      OBVIOUS
    <3>2. n \in Nat
      BY <1>0
    <3>3. PICK g : Rounds(n, S, <<>>, step, g)
      <4> HIDE DEF step, S, n
      <4> QED
        BY <2>1, <3>1, <3>2, LoopRuns
    <3> QED
      BY <3>3 DEF Rounds
  <2>3. ASSUME NEW k \in 0 .. n PROVE g[k] = IF k = 0 THEN <<>> ELSE g[k - 1] \o cut(gs[k], s, e)
    <3> HIDE DEF S
    <3>1. CASE k = 0
      BY <2>2, <3>1
    <3>2. CASE k # 0
      <4>1. k \in 1 .. n /\ k - 1 \in 0 .. n
        BY <1>0, <3>2
      <4>2. g[k - 1] \in S
        BY <2>2, <4>1
      <4>3. g[k] = step[k][g[k - 1]]
        BY <2>2, <4>1
      <4> QED
        BY <3>2, <4>1, <4>2, <4>3
    <3> QED
      BY <3>1, <3>2
  <2>4. g = F(g)
    <3> HIDE DEF S
    <3> QED
      BY <2>2, <2>3
  <2>5. rest = F(rest)
    BY <2>4
  <2>6. fill_gap(gs, s, e) = normalize(rest[n])
    BY <1>2 DEF fill_gap
  <2> HIDE DEF rest
  <2>7. \A k \in 0 .. n : rest[k] = IF k = 0 THEN <<>> ELSE rest[k - 1] \o cut(gs[k], s, e)
    BY <2>5
  <2> DEFINE Upto(k, u) == \E i \in 1 .. k : gs[i].start <= u /\ u < gs[i].end
             P(k) == /\ rest[k] \in S
                     /\ \A u \in Nat : Covers(rest[k], u) <=> Upto(k, u) /\ ~(s <= u /\ u < e)
  <2>8. P(0)
    <3>1. rest[0] = <<>>
      BY <1>0, <2>7
    <3> QED
      BY <3>1 DEF Covers
  <2>9. ASSUME NEW k \in 1 .. n, P(k - 1) PROVE P(k)
    <3>1. k - 1 \in 0 .. n /\ k \in 0 .. n /\ k # 0 /\ gs[k] \in AnyGap
      BY <1>0
    <3>2. PICK out, piece : out = rest[k - 1] /\ piece = cut(gs[k], s, e)
      OBVIOUS
    <3>3. rest[k] = out \o piece
      BY <2>7, <3>1, <3>2
    <3>4. out \in S /\ \A u \in Nat : Covers(out, u) <=> Upto(k - 1, u) /\ ~(s <= u /\ u < e)
      BY <2>9, <3>2
    <3>5. piece \in S /\ \A u \in Nat : Covers(piece, u) <=> gs[k].start <= u /\ u < gs[k].end /\ ~(s <= u /\ u < e)
      BY <1>2, <3>1, <3>2, CutDoes
    <3>6. ASSUME NEW u \in Nat
          PROVE  Upto(k, u) <=> Upto(k - 1, u) \/ (gs[k].start <= u /\ u < gs[k].end)
      <4>1. \A i \in 1 .. k : i \in 1 .. k - 1 \/ i = k
        OBVIOUS
      <4>2. k \in 1 .. k /\ \A i \in 1 .. k - 1 : i \in 1 .. k
        OBVIOUS
      <4> QED
        BY <4>1, <4>2
    <3> HIDE DEF Upto
    <3>7. ASSUME NEW u \in Nat PROVE Covers(rest[k], u) <=> Upto(k, u) /\ ~(s <= u /\ u < e)
      <4>1. Covers(rest[k], u) <=> Covers(out, u) \/ Covers(piece, u)
        BY <3>3, <3>4, <3>5, CoversJoined
      <4> QED
        BY <3>4, <3>5, <3>6, <4>1
    <3>8. rest[k] \in S
      BY <3>3, <3>4, <3>5, CoversJoined
    <3> QED
      BY <3>7, <3>8
  <2> HIDE DEF P
  <2>10. P(n)
    <3> DEFINE T == {k \in 0 .. n : ~P(k)}
    <3> SUFFICES ASSUME T # {} PROVE FALSE
      BY <1>0
    <3>1. PICK x \in T : \A y \in T : x <= y
      <4>1. T \in SUBSET Nat
        BY <1>0
      <4> HIDE DEF T
      <4> QED
        BY <4>1, LeastNat
    <3>2. x # 0
      BY <2>8, <3>1
    <3>3. x \in 1 .. n /\ x - 1 \in 0 .. n /\ ~(x <= x - 1)
      BY <1>0, <3>1, <3>2
    <3>4. P(x - 1)
      BY <3>1, <3>3
    <3> QED
      BY <2>9, <3>1, <3>3, <3>4
  <2>11. PICK t : t = rest[n]
    OBVIOUS
  <2>12. t \in S /\ \A u \in Nat : Covers(t, u) <=> Covers(gs, u) /\ ~(s <= u /\ u < e)
    <3>1. \A u : Upto(n, u) <=> Covers(gs, u)
      BY DEF Covers
    <3> HIDE DEF Upto
    <3> QED
      BY <2>10, <2>11, <3>1 DEF P
  <2>13. Tidy(normalize(t)) /\ UnitsOf(normalize(t)) = UnitsOf(t) \cap Units
    BY <2>12, NormalizeDoes
  <2>14. UnitsOf(t) = {u \in Nat : Covers(t, u)} /\ UnitsOf(gs) = {u \in Nat : Covers(gs, u)}
    BY <1>0, <2>12, UnitsCovered
  <2>15. ASSUME NEW u \in Nat, Covers(gs, u) PROVE u \in Units
    <3>1. PICK i \in 1 .. n : u < gs[i].end
      BY <2>15 DEF Covers
    <3> QED
      BY <1>0, <3>1, GeometryAssumption DEF Units
  <2>16. UnitsOf(t) \cap Units = UnitsOf(gs) \ {u \in Nat : s <= u /\ u < e}
    BY <2>12, <2>14, <2>15
  <2> QED
    BY <2>6, <2>11, <2>13, <2>16
<1> QED
  BY <1>0, <1>1, <1>2

\* A tidy list covers units of the file only.
LEMMA TidyInside ==
    ASSUME NEW gs, Tidy(gs)
    PROVE  /\ gs \in Seq(AnyGap) /\ UnitsOf(gs) = {u \in Nat : Covers(gs, u)}
           /\ UnitsOf(gs) \subseteq Units
<1>0. gs \in Seq(AnyGap) /\ \A i \in 1 .. Len(gs) : gs[i] \in AnyGap /\ gs[i].end <= Size
  BY DEF Tidy
<1>1. \A i \in 1 .. Len(gs) : gs[i].end \in Nat /\ gs[i].end <= Size
  BY <1>0 DEF AnyGap
<1>2. UnitsOf(gs) = {u \in Nat : Covers(gs, u)}
  BY <1>0, UnitsCovered
<1>3. ASSUME NEW u \in Nat, Covers(gs, u) PROVE u \in Units
  <2>1. PICK i \in 1 .. Len(gs) : u < gs[i].end
    BY <1>3 DEF Covers
  <2> QED
    BY <1>1, <2>1, GeometryAssumption DEF Units
<1> QED
  BY <1>0, <1>2, <1>3

\* Adding [s, e) to a tidy list and normalizing adds exactly these units.
LEMMA AddDoes ==
    ASSUME NEW gs, Tidy(gs), NEW s \in Nat, NEW e \in Nat, e <= Size
    PROVE  LET r == normalize(Append(gs, Gap(s, e))) IN
           Tidy(r) /\ UnitsOf(r) = UnitsOf(gs) \cup {u \in Nat : s <= u /\ u < e}
<1>1. gs \in Seq(AnyGap) /\ UnitsOf(gs) = {u \in Nat : Covers(gs, u)} /\ UnitsOf(gs) \subseteq Units
  BY TidyInside
<1>2. PICK g : g = Gap(s, e)
  OBVIOUS
<1>3. g \in AnyGap /\ g.start = s /\ g.end = e
  BY <1>2 DEF Gap, AnyGap
<1>4. PICK t, m : t = Append(gs, g) /\ m = Len(gs)
  OBVIOUS
<1>5. t \in Seq(AnyGap) /\ Len(t) = m + 1 /\ t[m + 1] = g /\ (\A i \in 1 .. m : t[i] = gs[i]) /\ m \in Nat
  BY <1>1, <1>3, <1>4
<1>6. m + 1 \in 1 .. m + 1 /\ \A i \in 1 .. m + 1 : i \in 1 .. m \/ i = m + 1
  BY <1>5
<1>7. ASSUME NEW u \in Nat PROVE Covers(t, u) <=> Covers(gs, u) \/ (s <= u /\ u < e)
  BY <1>3, <1>4, <1>5, <1>6 DEF Covers
<1>8. Tidy(normalize(t)) /\ UnitsOf(normalize(t)) = UnitsOf(t) \cap Units
  BY <1>5, NormalizeDoes
<1>9. UnitsOf(t) = {u \in Nat : Covers(t, u)}
  BY <1>5, UnitsCovered
<1>10. \A u \in Nat : s <= u /\ u < e => u \in Units
  BY GeometryAssumption DEF Units
<1>11. UnitsOf(t) \cap Units = UnitsOf(gs) \cup {u \in Nat : s <= u /\ u < e}
  BY <1>1, <1>7, <1>9, <1>10
<1> QED
  BY <1>2, <1>4, <1>8, <1>11

\* Re-opening [s, e) adds exactly these units, or nothing if it runs past the end.
LEMMA ReopenDoes ==
    ASSUME NEW gs, Tidy(gs), NEW s \in Nat, NEW e \in Nat
    PROVE  LET r == reopen_range(gs, s, e) IN
           /\ Tidy(r)
           /\ UnitsOf(r) = IF e <= Size THEN UnitsOf(gs) \cup {u \in Nat : s <= u /\ u < e}
                                ELSE UnitsOf(gs)
<1>0. Size \in Nat
  BY GeometryAssumption
<1>1. CASE e > Size
  <2>1. reopen_range(gs, s, e) = gs /\ ~(e <= Size)
    BY <1>0, <1>1 DEF reopen_range
  <2> QED
    BY <2>1
<1>2. CASE e <= Size /\ s >= e
  <2>1. reopen_range(gs, s, e) = gs
    BY <1>2 DEF reopen_range
  <2>2. \A u \in Nat : ~(s <= u /\ u < e)
    BY <1>2
  <2> QED
    BY <1>2, <2>1, <2>2
<1>3. CASE e <= Size /\ s < e
  <2>1. reopen_range(gs, s, e) = normalize(Append(gs, Gap(s, e)))
    BY <1>0, <1>3 DEF reopen_range
  <2> QED
    BY <1>3, <2>1, AddDoes
<1> QED
  BY <1>0, <1>1, <1>2, <1>3

\* missing() counts the units of a tidy list.
LEMMA MissingCounts ==
    ASSUME Tidy(list)
    PROVE  missing = Cardinality(UnitsOf(list)) /\ missing <= Size
<1> DEFINE n == Len(list)
           size(k) == list[k].end - list[k].start
           step == [k \in 1 .. n |-> [x \in Nat |-> x + size(k)]]
           F(f) == [k \in 0 .. n |-> IF k = 0 THEN 0 ELSE f[k - 1] + (list[k].end - list[k].start)]
           total == CHOOSE f : f = F(f)
<1>0. /\ n \in Nat /\ Size \in Nat
      /\ \A i \in 1 .. n : list[i].start \in Nat /\ list[i].end \in Nat /\ list[i].start < list[i].end
      /\ \A i \in 1 .. n - 1 : list[i].end < list[i + 1].start
  <2>1. n \in Nat /\ \A i \in 1 .. n : list[i] \in AnyGap
    BY DEF Tidy
  <2>2. \A i \in 1 .. n : list[i].start \in Nat /\ list[i].end \in Nat
    BY <2>1 DEF AnyGap
  <2> QED
    BY <2>1, <2>2, GeometryAssumption DEF Tidy
<1>1. \A k \in 1 .. n : size(k) \in Nat
  BY <1>0
<1>2. step \in [1 .. n -> [Nat -> Nat]]
  <2> HIDE DEF size
  <2> QED
    BY <1>1
<1>3. PICK g \in [0 .. n -> Nat] : g[0] = 0 /\ \A k \in 1 .. n : g[k] = step[k][g[k - 1]]
  <2>1. PICK g : Rounds(n, Nat, 0, step, g)
    <3> HIDE DEF step, n
    <3> QED
      BY <1>0, <1>2, LoopRuns
  <2> QED
    BY <2>1 DEF Rounds
<1>4. ASSUME NEW k \in 0 .. n PROVE g[k] = IF k = 0 THEN 0 ELSE g[k - 1] + (list[k].end - list[k].start)
  <2>1. CASE k = 0
    BY <1>3, <2>1
  <2>2. CASE k # 0
    <3>1. k \in 1 .. n /\ k - 1 \in 0 .. n
      BY <1>0, <2>2
    <3>2. g[k - 1] \in Nat
      BY <1>3, <3>1
    <3>3. g[k] = step[k][g[k - 1]]
      BY <1>3, <3>1
    <3> QED
      BY <2>2, <3>1, <3>2, <3>3
  <2> QED
    BY <2>1, <2>2
<1>5. g = F(g)
  BY <1>3, <1>4
<1>6. total = F(total)
  BY <1>5
<1>7. missing = total[n]
  BY DEF missing
<1> HIDE DEF total
<1>8. \A k \in 0 .. n : total[k] = IF k = 0 THEN 0 ELSE total[k - 1] + size(k)
  BY <1>6
<1> DEFINE U(k) == {u \in Nat : \E i \in 1 .. k : list[i].start <= u /\ u < list[i].end}
           P(k) == /\ IsFiniteSet(U(k)) /\ total[k] = Cardinality(U(k))
                   /\ k # 0 => \A u \in U(k) : u < list[k].end
<1>9. P(0)
  <2>1. U(0) = {}
    OBVIOUS
  <2>2. total[0] = 0
    BY <1>0, <1>8
  <2> HIDE DEF U
  <2> QED
    BY <2>1, <2>2, FS_EmptySet
<1>10. ASSUME NEW k \in 1 .. n, P(k - 1) PROVE P(k)
  <2>1. k - 1 \in 0 .. n /\ k \in 0 .. n /\ k # 0
    BY <1>0
  <2>2. PICK a, b : a = list[k].start /\ b = list[k].end
    OBVIOUS
  <2>3. a \in Nat /\ b \in Nat /\ a < b
    BY <1>0, <2>2
  <2> DEFINE J == a .. b - 1
  <2>4. U(k) = U(k - 1) \cup J
    <3>1. \A i \in 1 .. k : i \in 1 .. k - 1 \/ i = k
      OBVIOUS
    <3>2. k \in 1 .. k /\ \A i \in 1 .. k - 1 : i \in 1 .. k
      OBVIOUS
    <3>3. \A u : u \in J <=> u \in Nat /\ a <= u /\ u < b
      BY <2>3
    <3> HIDE DEF J
    <3> QED
      BY <2>2, <3>1, <3>2, <3>3
  <2>5. ASSUME NEW u \in U(k - 1) PROVE u \in Nat /\ u < a
    <3>1. u \in Nat
      OBVIOUS
    <3>2. k - 1 # 0
      BY <2>5
    <3>3. k - 1 \in 1 .. n - 1 /\ k - 1 \in 1 .. n /\ (k - 1) + 1 = k
      BY <1>0, <3>2
    <3>4. list[k - 1].end < a /\ list[k - 1].end \in Nat
      BY <1>0, <2>2, <3>3
    <3>5. u < list[k - 1].end
      BY <1>10, <3>2
    <3> QED
      BY <2>3, <3>1, <3>4, <3>5
  <2>6. U(k - 1) \cap J = {}
    BY <2>3, <2>5
  <2>7. IsFiniteSet(J) /\ Cardinality(J) = b - a
    <3>1. IsFiniteSet(a .. b - 1) /\ Cardinality(a .. b - 1) = IF a > b - 1 THEN 0 ELSE b - 1 - a + 1
      <4>1. a \in Int /\ b - 1 \in Int
        BY <2>3
      <4> QED
        BY <4>1, FS_Interval
    <3> QED
      BY <2>3, <3>1
  <2>8. \A u \in U(k) : u < b
    <3>1. \A u \in J : u < b
      BY <2>3
    <3>2. \A u \in U(k - 1) : u < b
      BY <2>3, <2>5
    <3> HIDE DEF U, J
    <3> QED
      BY <2>4, <3>1, <3>2
  <2> HIDE DEF U, J
  <2>9. PICK c : c = Cardinality(U(k - 1))
    OBVIOUS
  <2>10. IsFiniteSet(U(k - 1)) /\ c = total[k - 1] /\ c \in Nat
    BY <1>10, <2>9, FS_CardinalityType
  <2>11. IsFiniteSet(U(k)) /\ Cardinality(U(k)) = c + (b - a) - 0
    <3>1. /\ IsFiniteSet(U(k - 1) \cup J)
          /\ Cardinality(U(k - 1) \cup J) = Cardinality(U(k - 1)) + Cardinality(J) - Cardinality(U(k - 1) \cap J)
      BY <2>7, <2>10, FS_Union
    <3>2. Cardinality(U(k - 1) \cap J) = 0
      BY <2>6, FS_EmptySet
    <3> QED
      BY <2>4, <2>7, <2>9, <3>1, <3>2
  <2>12. total[k] = c + (b - a)
    BY <1>8, <2>1, <2>2, <2>10
  <2>13. total[k] = Cardinality(U(k))
    BY <2>3, <2>10, <2>11, <2>12
  <2> QED
    BY <2>2, <2>8, <2>11, <2>13
<1> HIDE DEF P
<1>11. P(n)
  <2> DEFINE T == {k \in 0 .. n : ~P(k)}
  <2> SUFFICES ASSUME T # {} PROVE FALSE
    BY <1>0
  <2>1. PICK x \in T : \A y \in T : x <= y
    <3>1. T \in SUBSET Nat
      BY <1>0
    <3> HIDE DEF T
    <3> QED
      BY <3>1, LeastNat
  <2>2. x # 0
    BY <1>9, <2>1
  <2>3. x \in 1 .. n /\ x - 1 \in 0 .. n /\ ~(x <= x - 1)
    BY <1>0, <2>1, <2>2
  <2>4. P(x - 1)
    BY <2>1, <2>3
  <2> QED
    BY <1>10, <2>1, <2>3, <2>4
<1>12. U(n) = UnitsOf(list) /\ U(n) \subseteq Units
  <2>1. UnitsOf(list) = {u \in Nat : Covers(list, u)} /\ UnitsOf(list) \subseteq Units
    BY TidyInside
  <2>2. U(n) = {u \in Nat : Covers(list, u)}
    BY DEF Covers
  <2> HIDE DEF U
  <2> QED
    BY <2>1, <2>2
<1>13. IsFiniteSet(Units) /\ Cardinality(Units) = Size
  <2>1. 0 \in Int /\ Size - 1 \in Int
    BY <1>0
  <2>2. IsFiniteSet(0 .. Size - 1) /\ Cardinality(0 .. Size - 1) = IF 0 > Size - 1 THEN 0 ELSE Size - 1 - 0 + 1
    BY <2>1, FS_Interval
  <2> QED
    BY <1>0, <2>2, GeometryAssumption DEF Units
<1>14. total[n] = Cardinality(U(n)) /\ Cardinality(U(n)) <= Size
  <2> HIDE DEF U
  <2> QED
    BY <1>11, <1>12, <1>13, FS_Subset DEF P
<1> QED
  <2> HIDE DEF U
  <2> QED
    BY <1>7, <1>12, <1>14

\* What a quotient is.
LEMMA Quotient ==
    ASSUME NEW u \in Nat, NEW d \in Nat \ {0}
    PROVE  u \div d \in Nat /\ (u \div d) * d <= u /\ u < (u \div d) * d + d
<1>1. u \div d \in Nat
  OBVIOUS
<1>2. u = d * (u \div d) + (u % d) /\ 0 <= u % d /\ u % d < d
  OBVIOUS
<1> QED
  BY <1>1, <1>2

LEMMA QuotientIs ==
    ASSUME NEW u \in Nat, NEW d \in Nat \ {0}, NEW q \in Nat
    PROVE  u \div d = q <=> q * d <= u /\ u < q * d + d
<1>1. PICK p : p = u \div d
  OBVIOUS
<1>2. p \in Nat /\ p * d <= u /\ u < p * d + d
  BY <1>1, Quotient
<1>3. ASSUME NEW a \in Nat, NEW b \in Nat, a < b PROVE a * d + d <= b * d
  <2>1. PICK c \in Nat : b = a + 1 + c
    <3>1. b - a - 1 \in Nat /\ b = a + 1 + (b - a - 1)
      BY <1>3
    <3> QED
      BY <3>1
  <2>2. b * d = a * d + d + c * d /\ c * d >= 0
    BY <2>1
  <2> QED
    BY <2>2
<1>4. ASSUME q * d <= u, u < q * d + d PROVE p = q
  <2>1. p * d \in Nat /\ q * d \in Nat
    BY <1>2
  <2>2. ~(p < q)
    BY <1>2, <1>3, <1>4, <2>1
  <2>3. ~(q < p)
    BY <1>2, <1>3, <1>4, <2>1
  <2> QED
    BY <1>2, <2>2, <2>3
<1> QED
  BY <1>1, <1>2, <1>4

\* The bytes of a data part are those between part_start and part_end.
LEMMA PartRange ==
    ASSUME NEW p \in 0 .. (data_part_count - 1)
    PROVE  /\ p \in Parts /\ part_start(p) \in Nat /\ part_end(p) \in Nat
           /\ part_end(p) <= Size
           /\ {u \in Nat : part_start(p) <= u /\ u < part_end(p)} = PartUnits(p)
<1>0. Size \in Nat \ {0} /\ PartSize \in Nat \ {0}
  BY GeometryAssumption
<1>1. PICK n : n = data_part_count
  OBVIOUS
<1>2. n \in Nat /\ n * PartSize <= Size + PartSize - 1
  <2>1. Size + PartSize - 1 \in Nat
    BY <1>0
  <2>2. n = (Size + PartSize - 1) \div PartSize
    BY <1>1 DEF data_part_count
  <2> QED
    BY <1>0, <2>1, <2>2, Quotient
<1>3. p \in Nat /\ p + 1 <= n
  BY <1>1, <1>2
<1>4. PICK a : a = p * PartSize
  OBVIOUS
<1>5. a \in Nat /\ a < Size
  <2>1. PICK c \in Nat : n = p + 1 + c
    <3>1. n - p - 1 \in Nat /\ n = p + 1 + (n - p - 1)
      BY <1>2, <1>3
    <3> QED
      BY <3>1
  <2>2. n * PartSize = p * PartSize + PartSize + c * PartSize /\ c * PartSize >= 0
    BY <1>0, <1>3, <2>1
  <2>3. a \in Nat
    BY <1>0, <1>3, <1>4
  <2> QED
    BY <1>0, <1>2, <1>4, <2>2, <2>3
<1>6. a \div PartSize = p
  BY <1>0, <1>3, <1>4, <1>5, QuotientIs
<1>7. p \in Parts
  BY <1>0, <1>5, <1>6 DEF Parts, PartOf, Units
<1>8. PICK e : e = part_end(p)
  OBVIOUS
<1>9. part_start(p) = a /\ e \in Nat /\ e <= Size /\ (e = Size \/ e = a + PartSize) /\ e <= a + PartSize
  <2>1. part_start(p) = a
    BY <1>4 DEF part_start
  <2>2. e = a + min(Size - a, PartSize)
    BY <1>8, <2>1 DEF part_end, part_size
  <2> QED
    BY <1>0, <1>5, <2>1, <2>2 DEF min
<1>10. ASSUME NEW u \in Nat PROVE a <= u /\ u < e <=> u \in PartUnits(p)
  <2>1. u \div PartSize = p <=> a <= u /\ u < a + PartSize
    BY <1>0, <1>3, <1>4, QuotientIs
  <2>2. u \in PartUnits(p) <=> u < Size /\ u \div PartSize = p
    BY <1>0 DEF PartUnits, PartOf, Units
  <2> QED
    BY <1>0, <1>5, <1>9, <2>1, <2>2
<1>11. \A u \in PartUnits(p) : u \in Nat
  BY <1>0 DEF PartUnits, Units
<1> QED
  BY <1>5, <1>7, <1>8, <1>9, <1>10, <1>11

\* What contiguous_prefix says of a tidy list.
LEMMA PrefixDoes ==
    ASSUME Tidy(list)
    PROVE  /\ \A u \in Units : u < contiguous_prefix => u \notin UnitsOf(list)
           /\ contiguous_prefix = Size \/ contiguous_prefix \in UnitsOf(list)
<1>0. Size \in Nat /\ list \in Seq(AnyGap) /\ UnitsOf(list) = {u \in Nat : Covers(list, u)}
  BY TidyInside, GeometryAssumption
<1>1. CASE list = <<>>
  <2>1. contiguous_prefix = Size
    BY <1>1 DEF contiguous_prefix
  <2>2. \A u : ~Covers(list, u)
    BY <1>1 DEF Covers
  <2> QED
    BY <1>0, <2>1, <2>2
<1>2. CASE list # <<>>
  <2> DEFINE n == Len(list)
             T == {i \in 1 .. n : ~(list[1].start <= list[i].start)}
  <2>1. n \in Nat /\ 1 \in 1 .. n /\ contiguous_prefix = list[1].start
    BY <1>0, <1>2 DEF contiguous_prefix
  <2>2. \A i \in 1 .. n : list[i].start \in Nat /\ list[i].end \in Nat /\ list[i].start < list[i].end
    <3>1. \A i \in 1 .. n : list[i] \in AnyGap
      BY <1>0
    <3> QED
      BY <3>1 DEF AnyGap, Tidy
  <2>3. \A i \in 1 .. n : list[1].start <= list[i].start
    <3> SUFFICES ASSUME T # {} PROVE FALSE
      OBVIOUS
    <3>1. PICK x \in T : \A y \in T : x <= y
      <4>1. T \in SUBSET Nat
        OBVIOUS
      <4> HIDE DEF T
      <4> QED
        BY <4>1, LeastNat
    <3>2. x # 1
      BY <2>1, <2>2, <3>1
    <3>3. x \in 1 .. n /\ x - 1 \in 1 .. n /\ x - 1 \in 1 .. n - 1 /\ (x - 1) + 1 = x /\ ~(x <= x - 1)
      BY <2>1, <3>1, <3>2
    <3>4. list[1].start <= list[x - 1].start
      BY <3>1, <3>3
    <3>5. list[x - 1].end < list[x].start
      BY <3>3 DEF Tidy
    <3>6. list[1].start <= list[x].start
      BY <2>1, <2>2, <3>3, <3>4, <3>5
    <3> QED
      BY <3>1, <3>6
  <2>4. ASSUME NEW u \in Nat, u < list[1].start PROVE ~Covers(list, u)
    BY <2>1, <2>2, <2>3, <2>4 DEF Covers
  <2>5. Covers(list, list[1].start)
    BY <2>1, <2>2 DEF Covers
  <2>6. \A u \in Units : u \in Nat
    BY <1>0 DEF Units
  <2> QED
    BY <1>0, <2>1, <2>2, <2>4, <2>5, <2>6
<1> QED
  BY <1>1, <1>2

(***************************************************************************)
(* The invariant: the list is tidy and only parts of the file are marked.  *)
(***************************************************************************)
ListInv == Tidy(list) /\ marks \subseteq Parts

LEMMA SameLattice ==
    /\ \A s, e : Promise!Range(s, e) = {u \in Units : s <= u /\ u < e}
    /\ Promise!Units = Units /\ Promise!Parts = Parts
    /\ \A p : Promise!PartUnits(p) = PartUnits(p)
  BY DEF Parts, Units, PartOf, Promise!Range, Promise!Units, Promise!Parts,
         Promise!PartUnits, PartUnits, Promise!PartOf

LEMMA WholeFileIsTidy ==
    Tidy(whole_file) /\ UnitsOf(whole_file) = Units
<1>0. Size \in Nat \ {0}
  BY GeometryAssumption
<1>1. PICK g, w : g = [start |-> 0, end |-> Size] /\ w = <<g>>
  OBVIOUS
<1>2. whole_file = w
  BY <1>1 DEF whole_file, Gap
<1>3. g \in AnyGap /\ g.start = 0 /\ g.end = Size
  BY <1>0, <1>1 DEF AnyGap
<1>4. w \in Seq(AnyGap) /\ Len(w) = 1 /\ w[1] = g
  BY <1>1, <1>3
<1>5. Tidy(w)
  BY <1>0, <1>3, <1>4 DEF Tidy
<1>6. \A u \in Nat : Covers(w, u) <=> u < Size
  BY <1>0, <1>3, <1>4 DEF Covers
<1>7. UnitsOf(w) = {u \in Nat : Covers(w, u)}
  BY <1>4, UnitsCovered
<1>8. \A u : u \in Units <=> u \in Nat /\ u < Size
  BY <1>0 DEF Units
<1> QED
  BY <1>2, <1>5, <1>6, <1>7, <1>8

LEMMA ListStarts == ListInit => ListInv
<1> SUFFICES ASSUME ListInit PROVE ListInv
  OBVIOUS
<1>1. CASE list = whole_file /\ marks = {}
  BY <1>1, WholeFileIsTidy DEF ListInv
<1>2. CASE \E gs \in MetGaps, c \in SUBSET Parts : list = normalize(gs) /\ marks = c
  BY <1>2, NormalizeDoes, PartFileAssumption DEF ListInv
<1> QED
  BY <1>1, <1>2 DEF ListInit

LEMMA NextList ==
    ASSUME NEW r, Tidy(r), list' = r
    PROVE  Tidy(list)' /\ UnitsOf(list)' = UnitsOf(r)
<1>1. Tidy(list)'
  BY DEF Tidy
<1>2. UnitsOf(list)' = UnitsOf(r)
  BY DEF UnitsOf
<1> QED
  BY <1>1, <1>2

\* Every operation keeps the invariant and does to the set the list stands for what
\* GapSet says.
LEMMA ListStep ==
    ASSUME ListInv, [ListNext]_listVars
    PROVE  ListInv' /\ [Promise!Next]_(Promise!vars)
<1> DEFINE U == UnitsOf(list)
<1>0. /\ Tidy(list) /\ marks \subseteq Parts /\ U \subseteq Units /\ Size \in Nat
      /\ \A u \in Units : u \in Nat /\ u < Size
  BY TidyInside, GeometryAssumption DEF ListInv, Units
<1>1. ASSUME NEW s \in 0 .. (Size + 1), NEW e \in 0 .. (Size + 1), FillGap(s, e)
      PROVE  ListInv' /\ Promise!Next
  <2>1. s \in Nat /\ e \in Nat /\ list' = fill_gap(list, s, e) /\ marks' = marks
    BY <1>0, <1>1 DEF FillGap
  <2>2. PICK r : r = fill_gap(list, s, e)
    OBVIOUS
  <2>3. Tidy(r) /\ UnitsOf(r) = U \ {u \in Nat : s <= u /\ u < e}
    BY <1>0, <2>1, <2>2, FillDoes
  <2>4. Tidy(list)' /\ UnitsOf(list)' = UnitsOf(r)
    BY <2>1, <2>2, <2>3, NextList
  <2>5. UnitsOf(list)' = U \ Promise!Range(s, e)
    BY <1>0, <2>3, <2>4, SameLattice
  <2>6. Promise!Fill(s, e)
    BY <2>1, <2>5 DEF Promise!Fill
  <2> QED
    BY <1>0, <2>1, <2>4, <2>6 DEF ListInv, Promise!Next
<1>2. ASSUME NEW s \in 0 .. (Size + 1), NEW e \in 0 .. (Size + 1), ReopenRange(s, e)
      PROVE  ListInv' /\ Promise!Next
  <2>1. s \in Nat /\ e \in Nat /\ list' = reopen_range(list, s, e) /\ marks' = marks
    BY <1>0, <1>2 DEF ReopenRange
  <2>2. PICK r : r = reopen_range(list, s, e)
    OBVIOUS
  <2>3. Tidy(r) /\ UnitsOf(r) = IF e <= Size THEN U \cup {u \in Nat : s <= u /\ u < e} ELSE U
    BY <1>0, <2>1, <2>2, ReopenDoes
  <2>4. Tidy(list)' /\ UnitsOf(list)' = UnitsOf(r)
    BY <2>1, <2>2, <2>3, NextList
  <2>5. e <= Size => {u \in Nat : s <= u /\ u < e} = Promise!Range(s, e)
    BY <1>0, <2>1, SameLattice, GeometryAssumption DEF Units
  <2>6. UnitsOf(list)' = IF e <= Size THEN U \cup Promise!Range(s, e) ELSE U
    BY <2>3, <2>4, <2>5
  <2>7. Promise!Reopen(s, e)
    BY <2>1, <2>6 DEF Promise!Reopen
  <2> QED
    BY <1>0, <2>1, <2>4, <2>7 DEF ListInv, Promise!Next
<1>3. ASSUME NEW p \in 0 .. (data_part_count - 1), MarkCorrupt(p)
      PROVE  ListInv' /\ Promise!Next
  <2>1. PICK a, b, r : /\ a = part_start(p) /\ b = part_end(p)
                       /\ r = normalize(Append(list, Gap(a, b)))
    OBVIOUS
  <2>2. list' = r /\ marks' = marks \cup {p}
    BY <1>3, <2>1 DEF MarkCorrupt
  <2>3. p \in Parts /\ a \in Nat /\ b \in Nat /\ b <= Size /\ {u \in Nat : a <= u /\ u < b} = PartUnits(p)
    BY <2>1, PartRange
  <2>4. Tidy(r) /\ UnitsOf(r) = U \cup {u \in Nat : a <= u /\ u < b}
    <3>1. /\ Tidy(normalize(Append(list, Gap(a, b))))
          /\ UnitsOf(normalize(Append(list, Gap(a, b))))
               = U \cup {u \in Nat : a <= u /\ u < b}
      BY <1>0, <2>3, AddDoes
    <3> QED
      BY <2>1, <3>1
  <2>5. Tidy(list)' /\ UnitsOf(list)' = UnitsOf(r)
    BY <2>2, <2>4, NextList
  <2>6. UnitsOf(list)' = U \cup Promise!PartUnits(p) /\ p \in Promise!Parts
    BY <2>3, <2>4, <2>5, SameLattice
  <2>7. Promise!Corrupt(p)
    BY <2>2, <2>6 DEF Promise!Corrupt
  <2> QED
    BY <1>0, <2>2, <2>3, <2>5, <2>6, <2>7 DEF ListInv, Promise!Next
<1>4. ASSUME NEW p \in 0 .. (data_part_count - 1), ClearCorrupt(p)
      PROVE  ListInv' /\ Promise!Next
  <2>1. list' = list /\ marks' = marks \ {p}
    BY <1>4 DEF ClearCorrupt
  <2>2. p \in Promise!Parts
    BY PartRange, SameLattice
  <2>3. Tidy(list)' /\ UnitsOf(list)' = U
    BY <1>0, <2>1, NextList
  <2>4. Promise!Accept(p)
    BY <2>1, <2>3 DEF Promise!Accept
  <2> QED
    BY <1>0, <2>1, <2>2, <2>3, <2>4 DEF ListInv, Promise!Next
<1>5. ASSUME ResetList PROVE ListInv' /\ Promise!Next
  <2>1. list' = whole_file /\ marks' = {}
    BY <1>5 DEF ResetList
  <2>2. Tidy(list)' /\ UnitsOf(list)' = Promise!Units
    BY <2>1, NextList, WholeFileIsTidy, SameLattice
  <2>3. Promise!Reset
    BY <2>1, <2>2 DEF Promise!Reset
  <2> QED
    BY <2>1, <2>2, <2>3 DEF ListInv, Promise!Next
<1>6. ASSUME UNCHANGED listVars PROVE ListInv' /\ UNCHANGED Promise!vars
  <2>1. list' = list /\ marks' = marks
    BY <1>6 DEF listVars
  <2>2. Tidy(list)' /\ UnitsOf(list)' = U
    BY <1>0, <2>1, NextList
  <2> QED
    BY <1>0, <2>1, <2>2 DEF ListInv, Promise!vars
<1> QED
  BY <1>1, <1>2, <1>3, <1>4, <1>5, <1>6 DEF ListNext

LEMMA ListAlways == ListSpec => []ListInv
<1>1. ListInv /\ [ListNext]_listVars => ListInv'
  BY ListStep
<1> QED
  BY <1>1, ListStarts, PTL DEF ListSpec

\* A tidy list is a sound one.
LEMMA TidyIsSound == ListInv => ListIsSound
<1> SUFFICES ASSUME ListInv PROVE ListIsSound
  OBVIOUS
<1>0. /\ Tidy(list) /\ list \in Seq(AnyGap) /\ marks \subseteq Parts /\ UnitsOf(list) \subseteq Units
      /\ Size \in Nat /\ \A u \in Units : u \in Nat /\ u < Size
  BY TidyInside, GeometryAssumption DEF ListInv, Units
<1>1. /\ \A i \in 1 .. Len(list) : list[i] \in AnyGap /\ list[i].start < list[i].end /\ list[i].end <= Size
      /\ \A i \in 1 .. Len(list) - 1 : list[i].end < list[i + 1].start
  BY <1>0 DEF Tidy
<1>2. ListTypeOK
  <2> DEFINE G == [start : 0 .. Size, end : 0 .. Size]
  <2>1. ASSUME NEW i \in 1 .. Len(list) PROVE list[i] \in G
    <3>1. list[i] \in AnyGap /\ list[i].start < list[i].end /\ list[i].end <= Size
      BY <1>1
    <3>2. list[i].start \in 0 .. Size /\ list[i].end \in 0 .. Size
      BY <1>0, <3>1 DEF AnyGap
    <3> QED
      BY <3>1, <3>2 DEF AnyGap
  <2>2. list \in Seq(G)
    <3> HIDE DEF G
    <3> QED
      BY <1>0, <2>1
  <2> QED
    BY <1>0, <2>2, SameLattice DEF ListTypeOK
<1>3. ListIsTidy
  <2>1. DOMAIN list = 1 .. Len(list)
    BY <1>0
  <2>2. missing = Cardinality(UnitsOf(list)) /\ missing <= Size
    BY <1>0, MissingCounts
  <2> QED
    BY <1>0, <1>1, <2>1, <2>2, PrefixDoes DEF ListIsTidy
<1>4. OperationsAreExact
  <2> SUFFICES ASSUME NEW s \in 0 .. (Size + 1), NEW e \in 0 .. (Size + 1)
               PROVE  /\ UnitsOf(fill_gap(list, s, e)) = UnitsOf(list) \ Promise!Range(s, e)
                      /\ UnitsOf(reopen_range(list, s, e)) =
                           IF e <= Size THEN UnitsOf(list) \cup Promise!Range(s, e)
                           ELSE UnitsOf(list)
    BY DEF OperationsAreExact
  <2>1. s \in Nat /\ e \in Nat
    BY <1>0
  <2>2. UnitsOf(fill_gap(list, s, e)) = UnitsOf(list) \ {u \in Nat : s <= u /\ u < e}
    BY <1>0, <2>1, FillDoes
  <2>3. UnitsOf(reopen_range(list, s, e)) =
          IF e <= Size THEN UnitsOf(list) \cup {u \in Nat : s <= u /\ u < e} ELSE UnitsOf(list)
    BY <1>0, <2>1, ReopenDoes
  <2>4. e <= Size => {u \in Nat : s <= u /\ u < e} = Promise!Range(s, e)
    BY <1>0, <2>1, SameLattice, GeometryAssumption DEF Units
  <2>5. UnitsOf(list) \ {u \in Nat : s <= u /\ u < e} = UnitsOf(list) \ Promise!Range(s, e)
    BY <1>0, SameLattice
  <2> QED
    BY <2>2, <2>3, <2>4, <2>5
<1> QED
  BY <1>2, <1>3, <1>4 DEF ListIsSound

\* The gap list is tidy, counts what is missing, and each operation changes exactly
\* the bytes it was called for, whatever list the met on disk held and whatever was
\* filled, re-opened, marked or reset since (normalize, fill_gap, reopen_range).
THEOREM ListStaysSound == ListSpec => []ListIsSound
  BY ListAlways, TidyIsSound, PTL

\* The list implements the set of missing units: a corrupt part is re-opened with
\* its mark, and no operation changes a byte outside its range (fill_gap,
\* reopen_range, mark_corrupt, clear_corrupt, reset_all_gaps).
THEOREM ListImplementsSet == ListSpec => ImplementsGapSet
<1>1. ListInit => Promise!Init
  <2> SUFFICES ASSUME ListInit PROVE Promise!Init
    OBVIOUS
  <2>1. Tidy(list) /\ marks \subseteq Parts
    BY ListStarts DEF ListInv
  <2>2. UnitsOf(list) \subseteq Units
    BY <2>1, TidyInside
  <2> QED
    BY <2>1, <2>2, SameLattice DEF Promise!Init
<1>2. ListInv /\ [ListNext]_listVars => [Promise!Next]_(Promise!vars)
  BY ListStep
<1> QED
  BY <1>1, <1>2, ListAlways, PTL DEF ListSpec, ImplementsGapSet, Promise!Spec

-----------------------------------------------------------------------------
(* The block allocator.                                                      *)

\* In a tidy list an earlier gap ends before a later one starts.
LEMMA TidyOrder ==
    ASSUME NEW gs, Tidy(gs)
    PROVE  \A i, j \in 1 .. Len(gs) : i < j => gs[i].end < gs[j].start
<1> DEFINE n == Len(gs)
<1>0. /\ n \in Nat
      /\ \A i \in 1 .. n : gs[i].start \in Nat /\ gs[i].end \in Nat /\ gs[i].start < gs[i].end
      /\ \A i \in 1 .. n - 1 : gs[i].end < gs[i + 1].start
  <2>1. n \in Nat /\ \A i \in 1 .. n : gs[i] \in AnyGap
    BY DEF Tidy
  <2>2. \A i \in 1 .. n : gs[i].start \in Nat /\ gs[i].end \in Nat
    BY <2>1 DEF AnyGap
  <2> QED
    BY <2>1, <2>2 DEF Tidy
<1> SUFFICES ASSUME NEW i \in 1 .. n PROVE \A j \in 1 .. n : i < j => gs[i].end < gs[j].start
  OBVIOUS
<1> DEFINE T == {j \in 1 .. n : i < j /\ ~(gs[i].end < gs[j].start)}
<1> SUFFICES ASSUME T # {} PROVE FALSE
  OBVIOUS
<1>1. PICK x \in T : \A y \in T : x <= y
  <2>1. T \in SUBSET Nat
    OBVIOUS
  <2> HIDE DEF T
  <2> QED
    BY <2>1, LeastNat
<1>2. x \in 1 .. n /\ i < x /\ ~(gs[i].end < gs[x].start)
  BY <1>1
<1>3. PICK y : y = x - 1
  OBVIOUS
<1>4. y \in 1 .. n /\ y \in 1 .. n - 1 /\ y + 1 = x /\ ~(x <= y) /\ (y = i \/ i < y)
  BY <1>0, <1>2, <1>3
<1>5. gs[y].end < gs[x].start
  BY <1>0, <1>4
<1>6. y # i
  BY <1>2, <1>5
<1>7. gs[i].end < gs[y].start
  BY <1>1, <1>4, <1>6
<1> QED
  BY <1>0, <1>2, <1>4, <1>5, <1>7

\* Parts are never empty and no longer than PARTSIZE.
LEMMA PartSpan ==
    ASSUME NEW p \in 0 .. (data_part_count - 1)
    PROVE  /\ part_start(p) < part_end(p)
           /\ part_end(p) <= part_start(p) + PartSize
           /\ part_start(p) = p * PartSize /\ p \in Nat
<1>0. Size \in Nat \ {0} /\ PartSize \in Nat \ {0}
  BY GeometryAssumption
<1>1. PICK a, b : a = part_start(p) /\ b = part_end(p)
  OBVIOUS
<1>2. p \in Parts /\ a \in Nat /\ b \in Nat /\ b <= Size /\ {u \in Nat : a <= u /\ u < b} = PartUnits(p)
  BY <1>1, PartRange
<1>3. PICK u \in Units : PartOf(u) = p
  BY <1>2 DEF Parts
<1>4. u \in PartUnits(p)
  BY <1>3 DEF PartUnits
<1>5. u \in Nat /\ a <= u /\ u < b
  BY <1>2, <1>4
<1>6. a < b
  BY <1>2, <1>5
<1>7. b = a + min(Size - a, PartSize)
  BY <1>1 DEF part_end, part_size
<1>8. b <= a + PartSize
  BY <1>0, <1>2, <1>7 DEF min
<1>9. a = p * PartSize /\ p \in Nat
  <2>1. p \in Nat
    OBVIOUS
  <2> QED
    BY <1>1, <2>1 DEF part_start
<1> QED
  BY <1>1, <1>6, <1>8, <1>9

\* Every part with a unit has a number below data_part_count.
LEMMA PartsNumbered ==
    ASSUME NEW p \in Parts
    PROVE  p \in 0 .. (data_part_count - 1)
<1>0. Size \in Nat \ {0} /\ PartSize \in Nat \ {0}
  BY GeometryAssumption
<1>1. PICK u \in Units : p = u \div PartSize
  BY DEF Parts, PartOf
<1>2. u \in Nat /\ u < Size /\ Size + PartSize - 1 \in Nat
  BY <1>0, <1>1 DEF Units
<1>3. p \in Nat /\ p * PartSize <= u
  BY <1>0, <1>1, <1>2, Quotient
<1>4. PICK n : n = (Size + PartSize - 1) \div PartSize
  OBVIOUS
<1>5. n \in Nat /\ Size + PartSize - 1 < n * PartSize + PartSize
  BY <1>0, <1>2, <1>4, Quotient
<1>6. ~(n <= p)
  <2> SUFFICES ASSUME n <= p PROVE FALSE
    OBVIOUS
  <2>1. PICK c \in Nat : p = n + c
    <3>1. p - n \in Nat /\ p = n + (p - n)
      BY <1>3, <1>5
    <3> QED
      BY <3>1
  <2>2. p * PartSize = n * PartSize + c * PartSize /\ c * PartSize >= 0
    BY <1>0, <1>5, <2>1
  <2>3. n * PartSize \in Nat /\ p * PartSize \in Nat
    BY <1>0, <1>3, <1>5
  <2> QED
    BY <1>0, <1>2, <1>3, <1>5, <2>2, <2>3
<1>7. n = data_part_count
  BY <1>4 DEF data_part_count
<1> QED
  BY <1>3, <1>5, <1>6, <1>7

\* The cell of a unit, counted from the start of its part.
LEMMA CellInPart ==
    ASSUME NEW p \in 0 .. (data_part_count - 1), NEW u \in PartUnits(p), NEW q \in Nat
    PROVE  CellOf(u) = <<p, q>> <=> /\ q * BlockSize <= u - part_start(p)
                                    /\ u - part_start(p) < q * BlockSize + BlockSize
<1>0. Size \in Nat \ {0} /\ PartSize \in Nat \ {0} /\ BlockSize \in Nat \ {0}
  BY GeometryAssumption
<1>1. PICK a : a = part_start(p)
  OBVIOUS
<1>2. u \in Nat /\ u \in Units /\ PartOf(u) = p
  BY <1>0 DEF PartUnits, Units
<1>3. p \in Nat /\ a = p * PartSize /\ a \in Nat
  BY <1>1, PartSpan, PartRange
<1>4. u \div PartSize = p
  BY <1>2 DEF PartOf
<1>5. u % PartSize = u - a
  <2>1. u = PartSize * (u \div PartSize) + (u % PartSize) /\ u % PartSize \in Nat
    BY <1>0, <1>2
  <2>2. u = PartSize * p + (u % PartSize)
    BY <1>4, <2>1
  <2>3. PartSize * p = a
    BY <1>0, <1>3
  <2> QED
    BY <1>2, <1>3, <2>1, <2>2, <2>3
<1>6. u - a \in Nat
  BY <1>0, <1>2, <1>5
<1>7. CellOf(u) = <<p, (u - a) \div BlockSize>>
  BY <1>2, <1>5 DEF CellOf
<1>8. (u - a) \div BlockSize = q <=> q * BlockSize <= u - a /\ u - a < q * BlockSize + BlockSize
  BY <1>0, <1>6, QuotientIs
<1> QED
  BY <1>1, <1>7, <1>8

LEMMA SameCellSamePart ==
    ASSUME NEW u, NEW v, CellOf(u) = CellOf(v) PROVE PartOf(u) = PartOf(v)
  BY DEF CellOf

\* [s, e) is a run of units of m in one cell that cannot be made longer.
Run(m, s, e) ==
    /\ s \in Nat /\ e \in Nat /\ s < e
    /\ \A u \in Nat : s <= u /\ u < e => u \in m /\ CellOf(u) = CellOf(s)
    /\ ~(s - 1 \in m /\ CellOf(s - 1) = CellOf(s))
    /\ ~(e \in m /\ CellOf(e) = CellOf(s))

\* What block_at finds from a cursor in the part on: no missing unit, or the first
\* one, and with it all that follow it in its cell without a break.
LEMMA BlockAtDoes ==
    ASSUME Tidy(list), NEW p \in 0 .. (data_part_count - 1),
           NEW c \in Nat, part_start(p) <= c
    PROVE  \/ /\ block_at(p, c) = NoBlock
              /\ \A u \in UnitsOf(list) : ~(c <= u /\ u < part_end(p))
           \/ \E s, e \in Nat :
                 /\ block_at(p, c) = <<s, e>> /\ c <= s /\ s < e /\ e <= part_end(p)
                 /\ \A u \in UnitsOf(list) : c <= u /\ u < part_end(p) => s <= u
                 /\ \A u \in Nat : s <= u /\ u < e => u \in UnitsOf(list) /\ CellOf(u) = CellOf(s)
                 /\ ~(e \in UnitsOf(list) /\ CellOf(e) = CellOf(s))
<1> DEFINE M == UnitsOf(list)
           n == Len(list)
<1>0. /\ n \in Nat /\ Size \in Nat /\ BlockSize \in Nat \ {0} /\ DOMAIN list = 1 .. n
      /\ \A i \in 1 .. n : list[i].start \in Nat /\ list[i].end \in Nat /\ list[i].start < list[i].end
      /\ M = {u \in Nat : Covers(list, u)} /\ M \subseteq Units
  <2>1. list \in Seq(AnyGap) /\ M = {u \in Nat : Covers(list, u)} /\ M \subseteq Units
    BY TidyInside
  <2>2. DOMAIN list = 1 .. n /\ n \in Nat /\ \A i \in 1 .. n : list[i] \in AnyGap
    BY <2>1
  <2>3. \A i \in 1 .. n : list[i].start \in Nat /\ list[i].end \in Nat /\ list[i].start < list[i].end
    BY <2>2 DEF Tidy, AnyGap
  <2> HIDE DEF M
  <2> QED
    BY <2>1, <2>2, <2>3, GeometryAssumption
<1>1. PICK a, b : a = part_start(p) /\ b = part_end(p)
  OBVIOUS
<1>2. /\ a \in Nat /\ b \in Nat /\ a < b /\ b <= Size
      /\ \A u \in Nat : u \in PartUnits(p) <=> a <= u /\ u < b
  BY <1>1, PartRange, PartSpan
<1> DEFINE hits == {i \in DOMAIN list : Touches(list[i], c, b)}
<1>3. \A i \in 1 .. n : i \in hits <=> list[i].start < b /\ list[i].end > c
  BY <1>0 DEF Touches
<1>4. ASSUME NEW u \in M, c <= u, u < b
      PROVE  \E i \in hits : i \in 1 .. n /\ list[i].start <= u /\ u < list[i].end
  <2>1. u \in Nat /\ Covers(list, u)
    BY <1>0
  <2>2. PICK i \in 1 .. n : list[i].start <= u /\ u < list[i].end
    BY <2>1 DEF Covers
  <2>3. list[i].start < b /\ list[i].end > c
    BY <1>0, <1>2, <1>4, <2>1, <2>2
  <2> QED
    BY <1>3, <2>2, <2>3
<1>5. CASE c >= b \/ hits = {}
  <2>1. block_at(p, c) = NoBlock
    <3>1. c >= part_end(p) \/ {i \in DOMAIN list : Touches(list[i], c, part_end(p))} = {}
      BY <1>1, <1>5
    <3> QED
      BY <3>1 DEF block_at
  <2>2. \A u \in M : ~(c <= u /\ u < b)
    <3> SUFFICES ASSUME NEW u \in M, c <= u, u < b PROVE FALSE
      OBVIOUS
    <3>1. hits # {}
      BY <1>4
    <3>2. u \in Nat
      BY <1>0
    <3> QED
      BY <1>2, <1>5, <3>1, <3>2
  <2> QED
    BY <1>1, <2>1, <2>2
<1>6. CASE c < b /\ hits # {}
  <2> DEFINE first == CHOOSE i \in hits : \A j \in hits : i <= j
  <2>1. first \in hits /\ \A j \in hits : first <= j
    <3>1. hits \in SUBSET Nat
      BY <1>0
    <3> HIDE DEF hits
    <3> QED
      BY <1>6, <3>1, LeastNat
  <2>2. PICK k : k = first
    OBVIOUS
  <2>3. k \in hits /\ k \in 1 .. n /\ \A j \in hits : k <= j
    BY <1>0, <2>1, <2>2
  <2>4. PICK x, y : x = list[k].start /\ y = list[k].end
    OBVIOUS
  <2>5. x \in Nat /\ y \in Nat /\ x < y /\ x < b /\ y > c
    BY <1>0, <1>3, <2>3, <2>4
  <2>6. PICK s : s = max(c, x)
    OBVIOUS
  <2>7. s \in Nat /\ c <= s /\ x <= s /\ s < b /\ s < y /\ (s = c \/ s = x) /\ a <= s
    BY <1>1, <1>2, <1>6, <2>5, <2>6 DEF max
  <2>8. PICK q : q = (s - a) \div BlockSize
    OBVIOUS
  <2>9. PICK d : d = a + BlockSize * (q + 1)
    OBVIOUS
  <2>10. /\ q \in Nat /\ q * BlockSize \in Nat /\ q * BlockSize <= s - a
         /\ d \in Nat /\ d = a + q * BlockSize + BlockSize /\ s < d
    <3>1. s - a \in Nat
      BY <1>2, <2>7
    <3>2. q \in Nat /\ q * BlockSize <= s - a /\ s - a < q * BlockSize + BlockSize
      BY <1>0, <2>8, <3>1, Quotient
    <3>3. q * BlockSize \in Nat /\ BlockSize * (q + 1) = q * BlockSize + BlockSize
      BY <1>0, <3>2
    <3> QED
      BY <1>0, <1>2, <2>7, <2>9, <3>1, <3>2, <3>3
  <2>11. PICK e : e = min(min(y, d), b)
    OBVIOUS
  <2>12. e \in Nat /\ e <= y /\ e <= d /\ e <= b /\ (e = y \/ e = d \/ e = b) /\ s < e
    BY <1>2, <2>5, <2>7, <2>10, <2>11 DEF min
  <2>13. block_at(p, c) = <<s, e>>
    <3>1. ~(c >= b \/ hits = {} \/ s >= e)
      BY <1>2, <1>6, <2>7, <2>12
    <3> QED
      BY <1>1, <2>2, <2>4, <2>6, <2>8, <2>9, <2>11, <3>1 DEF block_at
  <2>14. ASSUME NEW u \in M, c <= u, u < b PROVE s <= u
    <3>1. PICK j \in hits : j \in 1 .. n /\ list[j].start <= u /\ u < list[j].end
      BY <1>4, <2>14
    <3>2. k <= j /\ (k = j \/ k < j)
      BY <2>3, <3>1
    <3>3. x <= list[j].start
      <4>1. CASE k = j
        BY <2>4, <2>5, <4>1
      <4>2. CASE k < j
        <5>1. y < list[j].start
          BY <2>3, <2>4, <3>1, <4>2, TidyOrder
        <5> QED
          BY <1>0, <2>5, <3>1, <5>1
      <4> QED
        BY <3>2, <4>1, <4>2
    <3>4. u \in Nat /\ list[j].start \in Nat
      BY <1>0, <3>1
    <3> QED
      BY <2>5, <2>7, <2>14, <3>1, <3>3, <3>4
  <2>15. ASSUME NEW u \in Nat, s <= u, u < e PROVE u \in M /\ CellOf(u) = <<p, q>>
    <3>1. x <= u /\ u < y /\ a <= u /\ u < b /\ u < d
      BY <1>2, <2>5, <2>7, <2>10, <2>12, <2>15
    <3>2. u \in M
      BY <1>0, <2>3, <2>4, <3>1 DEF Covers
    <3>3. u \in PartUnits(p)
      BY <1>2, <3>1
    <3>4. q * BlockSize <= u - a /\ u - a < q * BlockSize + BlockSize
      BY <1>0, <1>2, <2>7, <2>10, <2>15, <3>1
    <3> QED
      BY <1>1, <2>10, <3>2, <3>3, <3>4, CellInPart
  <2>16. CellOf(s) = <<p, q>>
    BY <2>7, <2>12, <2>15
  <2>17. ASSUME e \in M, CellOf(e) = <<p, q>> PROVE FALSE
    <3>1. e \in Nat /\ Covers(list, e)
      BY <1>0, <2>17
    <3>2. e < b
      <4>1. PartOf(e) = p
        BY <2>17 DEF CellOf
      <4>2. e \in PartUnits(p)
        BY <1>0, <2>17, <4>1 DEF PartUnits
      <4> QED
        BY <1>2, <2>12, <4>2
    <3>3. e # d
      <4>1. e \in PartUnits(p)
        BY <1>2, <2>7, <2>12, <3>2
      <4>2. e - a < q * BlockSize + BlockSize
        BY <1>1, <2>10, <2>17, <4>1, CellInPart
      <4> QED
        BY <1>0, <1>2, <2>10, <2>12, <4>2
    <3>4. e = y
      BY <1>2, <2>12, <3>2, <3>3
    <3>5. PICK j \in 1 .. n : list[j].start <= e /\ e < list[j].end
      BY <3>1 DEF Covers
    <3>6. list[j].start \in Nat /\ list[j].end \in Nat
      BY <1>0, <3>5
    <3>7. k = j \/ k < j \/ j < k
      BY <1>0, <2>3, <3>5
    <3>8. k # j
      BY <2>4, <2>5, <3>4, <3>5
    <3>9. ~(k < j)
      <4> SUFFICES ASSUME k < j PROVE FALSE
        OBVIOUS
      <4>1. y < list[j].start
        BY <2>3, <2>4, <3>5, TidyOrder
      <4> QED
        BY <2>5, <3>4, <3>5, <3>6, <4>1
    <3>10. ~(j < k)
      <4> SUFFICES ASSUME j < k PROVE FALSE
        OBVIOUS
      <4>1. list[j].end < x
        BY <2>3, <2>4, <3>5, TidyOrder
      <4> QED
        BY <2>5, <3>4, <3>5, <3>6, <4>1
    <3> QED
      BY <3>7, <3>8, <3>9, <3>10
  <2> HIDE DEF M, hits, first
  <2>18. /\ block_at(p, c) = <<s, e>> /\ c <= s /\ s < e /\ e <= b
         /\ \A u \in M : c <= u /\ u < b => s <= u
         /\ \A u \in Nat : s <= u /\ u < e => u \in M /\ CellOf(u) = CellOf(s)
         /\ ~(e \in M /\ CellOf(e) = CellOf(s))
    BY <2>7, <2>12, <2>13, <2>14, <2>15, <2>16, <2>17
  <2> QED
    BY <1>1, <2>7, <2>12, <2>18 DEF M
<1> QED
  BY <1>2, <1>5, <1>6

\* The open blocks of a set of units are its longest runs within a cell.
LEMMA OpenBlocksAreRuns ==
    ASSUME NEW m \in SUBSET Units
    PROVE  /\ \A x \in OpenBlocks(m) : \E s, e \in Nat : Run(m, s, e) /\ x = s .. e - 1
           /\ \A s, e \in Nat : Run(m, s, e) => s .. e - 1 \in OpenBlocks(m)
<1>0. Size \in Nat /\ \A u \in m : u \in Nat
  BY GeometryAssumption DEF Units
<1>1. ASSUME NEW x \in OpenBlocks(m) PROVE \E s, e \in Nat : Run(m, s, e) /\ x = s .. e - 1
  <2>1. PICK ab \in m \X m : IsOpenBlock(ab[1], ab[2], m) /\ x = ab[1] .. ab[2]
    BY DEF OpenBlocks
  <2>2. PICK s, b : s = ab[1] /\ b = ab[2]
    OBVIOUS
  <2>3. s \in Nat /\ b \in Nat /\ IsOpenBlock(s, b, m) /\ x = s .. b
    BY <1>0, <2>1, <2>2
  <2>4. PICK e : e = b + 1
    OBVIOUS
  <2>5. e \in Nat /\ e - 1 = b /\ s < e
    BY <2>3, <2>4 DEF IsOpenBlock
  <2>6. ASSUME NEW u \in Nat, s <= u, u < e PROVE u \in m /\ CellOf(u) = CellOf(s)
    <3>1. u \in s .. b
      BY <2>3, <2>5, <2>6
    <3> QED
      BY <2>3, <3>1 DEF IsOpenBlock
  <2>7. Run(m, s, e)
    BY <2>3, <2>4, <2>5, <2>6 DEF Run, IsOpenBlock
  <2> QED
    BY <2>3, <2>5, <2>7
<1>2. ASSUME NEW s \in Nat, NEW e \in Nat, Run(m, s, e) PROVE s .. e - 1 \in OpenBlocks(m)
  <2>1. PICK b : b = e - 1
    OBVIOUS
  <2>2. b \in Nat /\ b + 1 = e /\ s <= b
    BY <1>2, <2>1 DEF Run
  <2>3. \A u \in s .. b : u \in m /\ CellOf(u) = CellOf(s)
    <3> TAKE u \in s .. b
    <3>1. u \in Nat /\ s <= u /\ u < e
      BY <2>2
    <3> QED
      BY <1>2, <3>1 DEF Run
  <2>4. IsOpenBlock(s, b, m)
    BY <1>2, <2>2, <2>3 DEF Run, IsOpenBlock
  <2>5. s \in m /\ b \in m
    BY <2>2, <2>3
  <2>6. <<s, b>> \in m \X m /\ <<s, b>>[1] = s /\ <<s, b>>[2] = b
    BY <2>5
  <2>7. s .. b \in OpenBlocks(m)
    BY <2>4, <2>6 DEF OpenBlocks
  <2> QED
    BY <2>1, <2>7
<1> QED
  BY <1>1, <1>2

\* Two of them that share a unit are one.
LEMMA RunsApart ==
    ASSUME NEW m, NEW s \in Nat, NEW e \in Nat, NEW t \in Nat, NEW f \in Nat,
           Run(m, s, e), Run(m, t, f), NEW u \in Nat, s <= u, u < e, t <= u, u < f
    PROVE  s = t /\ e = f
<1>1. /\ \A v \in Nat : s <= v /\ v < e => v \in m /\ CellOf(v) = CellOf(s)
      /\ \A v \in Nat : t <= v /\ v < f => v \in m /\ CellOf(v) = CellOf(t)
      /\ ~(s - 1 \in m /\ CellOf(s - 1) = CellOf(s)) /\ ~(t - 1 \in m /\ CellOf(t - 1) = CellOf(t))
      /\ ~(e \in m /\ CellOf(e) = CellOf(s)) /\ ~(f \in m /\ CellOf(f) = CellOf(t))
  BY DEF Run
<1>2. CellOf(s) = CellOf(t)
  BY <1>1
<1>3. ~(s < t)
  <2> SUFFICES ASSUME s < t PROVE FALSE
    OBVIOUS
  <2>1. t - 1 \in Nat /\ s <= t - 1 /\ t - 1 < e
    OBVIOUS
  <2> QED
    BY <1>1, <1>2, <2>1
<1>4. ~(t < s)
  <2> SUFFICES ASSUME t < s PROVE FALSE
    OBVIOUS
  <2>1. s - 1 \in Nat /\ t <= s - 1 /\ s - 1 < f
    OBVIOUS
  <2> QED
    BY <1>1, <1>2, <2>1
<1>5. ~(e < f)
  <2> SUFFICES ASSUME e < f PROVE FALSE
    OBVIOUS
  <2>1. t <= e
    OBVIOUS
  <2> QED
    BY <1>1, <1>2, <2>1
<1>6. ~(f < e)
  <2> SUFFICES ASSUME f < e PROVE FALSE
    OBVIOUS
  <2>1. s <= f
    OBVIOUS
  <2> QED
    BY <1>1, <1>2, <2>1
<1> QED
  BY <1>3, <1>4, <1>5, <1>6

LEMMA OpenBlocksApart ==
    ASSUME NEW m \in SUBSET Units, NEW x \in OpenBlocks(m), NEW y \in OpenBlocks(m)
    PROVE  /\ x # {} /\ x \subseteq m
           /\ x \cap y # {} => x = y
<1>1. PICK s, e \in Nat : Run(m, s, e) /\ x = s .. e - 1
  BY OpenBlocksAreRuns
<1>2. PICK t, f \in Nat : Run(m, t, f) /\ y = t .. f - 1
  BY OpenBlocksAreRuns
<1>3. \A u : u \in x <=> u \in Nat /\ s <= u /\ u < e
  BY <1>1
<1>4. \A u : u \in y <=> u \in Nat /\ t <= u /\ u < f
  BY <1>2
<1>5. s \in x
  BY <1>1, <1>3 DEF Run
<1>6. ASSUME NEW u \in x \cap y PROVE x = y
  <2>1. s = t /\ e = f
    BY <1>1, <1>2, <1>3, <1>4, RunsApart
  <2> QED
    BY <1>1, <1>2, <2>1
<1>7. \A u \in x : u \in m
  BY <1>1, <1>3 DEF Run
<1> QED
  BY <1>5, <1>6, <1>7

\* The part of an open block is that of each of its units.
LEMMA BlockPartIs ==
    ASSUME NEW m \in SUBSET Units, NEW x \in OpenBlocks(m)
    PROVE  BlockPart(x) \in Parts /\ \A u \in x : u \in Units /\ PartOf(u) = BlockPart(x)
<1>1. PICK s, e \in Nat : Run(m, s, e) /\ x = s .. e - 1
  BY OpenBlocksAreRuns
<1>2. \A u : u \in x <=> u \in Nat /\ s <= u /\ u < e
  BY <1>1
<1>3. s \in x /\ \A u \in x : u \in m /\ PartOf(u) = PartOf(s)
  <2>1. s \in x
    BY <1>1, <1>2 DEF Run
  <2>2. \A u \in x : u \in m /\ CellOf(u) = CellOf(s)
    BY <1>1, <1>2 DEF Run
  <2> QED
    BY <2>1, <2>2, SameCellSamePart
<1>4. PartOf(s) \in Parts /\ \E u \in x : PartOf(u) = PartOf(s)
  BY <1>3 DEF Parts
<1>5. BlockPart(x) \in Parts /\ \E u \in x : PartOf(u) = BlockPart(x)
  BY <1>4 DEF BlockPart
<1> QED
  BY <1>3, <1>5

\* A block is spoken for exactly if it overlaps a reservation.
LEMMA SpokenForIs ==
    ASSUME NEW R \in SUBSET AnyRange, NEW s \in Nat, NEW e \in Nat, s < e
    PROVE  /\ <<s, e>> # NoBlock
           /\ spoken_for(<<s, e>>, R) <=> Overlaps(s .. e - 1, AsUnits(R))
<1>1. <<s, e>> # NoBlock /\ <<s, e>>[1] = s /\ <<s, e>>[2] = e
  BY DEF NoBlock
<1>2. ASSUME NEW r \in R
      PROVE  r[1] < e /\ r[2] > s <=> (r[1] .. r[2] - 1) \cap (s .. e - 1) # {}
  <2>1. PICK t, f : t = r[1] /\ f = r[2]
    OBVIOUS
  <2>2. t \in Nat /\ f \in Nat /\ t < f
    BY <2>1 DEF AnyRange
  <2>3. ASSUME t < e, f > s PROVE (t .. f - 1) \cap (s .. e - 1) # {}
    <3>1. CASE s <= t
      <4>1. t \in t .. f - 1 /\ t \in s .. e - 1
        BY <2>2, <2>3, <3>1
      <4> QED
        BY <4>1
    <3>2. CASE t < s
      <4>1. s \in t .. f - 1 /\ s \in s .. e - 1
        BY <2>2, <2>3, <3>2
      <4> QED
        BY <4>1
    <3> QED
      BY <2>2, <3>1, <3>2
  <2>4. ASSUME NEW u, u \in t .. f - 1, u \in s .. e - 1 PROVE t < e /\ f > s
    BY <2>2, <2>4
  <2> QED
    BY <2>1, <2>3, <2>4
<1>3. spoken_for(<<s, e>>, R) <=> \E r \in R : r[1] < e /\ r[2] > s
  BY <1>1 DEF spoken_for
<1>4. Overlaps(s .. e - 1, AsUnits(R)) <=> \E r \in R : (r[1] .. r[2] - 1) \cap (s .. e - 1) # {}
  BY DEF Overlaps, AsUnits
<1> QED
  BY <1>1, <1>2, <1>3, <1>4

\* The blocks of part p that m leaves to ask for.
OpenIn(m, p, taken) == {x \in OpenBlocks(m) : BlockPart(x) = p /\ ~Overlaps(x, taken)}

\* next_block_in_part returns the first of them, or nothing if there is none.
LEMMA NextBlockDoes ==
    ASSUME Tidy(list), NEW p \in 0 .. (data_part_count - 1), NEW R \in SUBSET AnyRange
    PROVE  LET free == OpenIn(UnitsOf(list), p, AsUnits(R))
               blk == next_block_in_part(p, R)
           IN \/ blk = NoBlock /\ free = {}
              \/ \E s, e \in Nat : /\ blk = <<s, e>> /\ s < e /\ s .. e - 1 \in free
                                   /\ \A x \in free : \A u \in x : s <= u
<1> DEFINE M == UnitsOf(list)
           taken == AsUnits(R)
<1>1. PICK a, b : a = part_start(p) /\ b = part_end(p)
  OBVIOUS
<1>2. /\ a \in Nat /\ b \in Nat /\ a < b /\ b <= a + PartSize /\ PartSize \in Nat
      /\ \A u \in Nat : u \in PartUnits(p) <=> a <= u /\ u < b
  BY <1>1, PartRange, PartSpan, GeometryAssumption
<1>3. M \in SUBSET Units /\ \A u \in M : u \in Nat
  BY TidyInside, GeometryAssumption DEF Units
<1> DEFINE S == {c \in Nat : a <= c}
           Pass(c) == IF spoken_for(block_at(p, c), R) THEN block_at(p, c)[2] ELSE c
           Finds(c, s, e) ==
              /\ block_at(p, c) = <<s, e>> /\ c <= s /\ s < e /\ e <= b
              /\ \A u \in M : c <= u /\ u < b => s <= u
              /\ \A u \in Nat : s <= u /\ u < e => u \in M /\ CellOf(u) = CellOf(s)
              /\ ~(e \in M /\ CellOf(e) = CellOf(s))
<1>4. ASSUME NEW c \in S
      PROVE  \/ block_at(p, c) = NoBlock /\ \A u \in M : ~(c <= u /\ u < b)
             \/ \E s, e \in Nat : Finds(c, s, e)
  <2>1. c \in Nat /\ part_start(p) <= c
    BY <1>1
  <2> QED
    BY <1>1, <2>1, BlockAtDoes
<1> HIDE DEF Finds
<1>5. ASSUME NEW c \in S, NEW s \in Nat, NEW e \in Nat, Finds(c, s, e)
      PROVE  /\ block_at(p, c) = <<s, e>> /\ c <= s /\ s < e /\ e <= b
             /\ <<s, e>> # NoBlock /\ e \in S /\ c < e
             /\ spoken_for(<<s, e>>, R) <=> Overlaps(s .. e - 1, taken)
  <2>1. block_at(p, c) = <<s, e>> /\ c <= s /\ s < e /\ e <= b
    BY <1>5 DEF Finds
  <2>2. e \in S /\ c < e
    BY <1>2, <2>1
  <2> QED
    BY <2>1, <2>2, SpokenForIs
<1>6. ASSUME NEW c \in S PROVE Pass(c) \in S
  <2>1. CASE spoken_for(block_at(p, c), R)
    <3>1. block_at(p, c) # NoBlock
      BY <2>1 DEF spoken_for
    <3>2. PICK s, e \in Nat : Finds(c, s, e)
      BY <1>4, <3>1
    <3>3. block_at(p, c) = <<s, e>> /\ e \in S
      BY <1>5, <3>2
    <3>4. Pass(c) = e
      BY <2>1, <3>3
    <3> QED
      BY <3>3, <3>4
  <2>2. CASE ~spoken_for(block_at(p, c), R)
    BY <2>2
  <2> QED
    BY <2>1, <2>2
<1> DEFINE step == [k \in 1 .. PartSize |-> [c \in S |-> Pass(c)]]
           F(f) == [n \in 0 .. PartSize |->
                      IF n = 0 THEN part_start(p)
                      ELSE IF spoken_for(block_at(p, f[n - 1]), R)
                           THEN block_at(p, f[n - 1])[2] ELSE f[n - 1]]
           cursor == CHOOSE f : f = F(f)
<1>7. PICK g \in [0 .. PartSize -> S] : g[0] = a /\ \A k \in 1 .. PartSize : g[k] = step[k][g[k - 1]]
  <2>1. step \in [1 .. PartSize -> [S -> S]]
    <3> HIDE DEF Pass, S
    <3> QED
      BY <1>6
  <2>2. a \in S
    BY <1>2
  <2>3. PICK g : Rounds(PartSize, S, a, step, g)
    <3> HIDE DEF step, S
    <3> QED
      BY <1>2, <2>1, <2>2, LoopRuns
  <2> QED
    BY <2>3 DEF Rounds
<1>8. g = F(g)
  <2> HIDE DEF S
  <2>1. ASSUME NEW k \in 0 .. PartSize PROVE g[k] = F(g)[k]
    <3>1. CASE k = 0
      BY <1>1, <1>7, <3>1
    <3>2. CASE k # 0
      <4>1. k \in 1 .. PartSize /\ k - 1 \in 0 .. PartSize
        BY <1>2, <3>2
      <4>2. g[k - 1] \in S
        BY <1>7, <4>1
      <4>3. g[k] = step[k][g[k - 1]]
        BY <1>7, <4>1
      <4> QED
        BY <3>2, <4>1, <4>2, <4>3
    <3> QED
      BY <3>1, <3>2
  <2>2. F(g) = [k \in 0 .. PartSize |-> F(g)[k]]
    OBVIOUS
  <2> HIDE DEF F
  <2> QED
    BY <1>7, <2>1, <2>2
<1>9. cursor = F(cursor)
  BY <1>8
<1>10. next_block_in_part(p, R) = block_at(p, cursor[PartSize])
  BY DEF next_block_in_part, next_block_in_part_from
<1> HIDE DEF cursor
<1>11. \A k \in 0 .. PartSize : cursor[k] = IF k = 0 THEN a ELSE Pass(cursor[k - 1])
  BY <1>1, <1>9
<1> DEFINE Open == {x \in OpenBlocks(M) : BlockPart(x) = p}
           Edge(c) == ~(c \in M /\ c - 1 \in M /\ CellOf(c - 1) = CellOf(c))
           Passed(c) == \A x \in Open : (\A u \in x : c <= u) \/ Overlaps(x, taken)
           P(k) == /\ cursor[k] \in S /\ cursor[k] <= b /\ Edge(cursor[k]) /\ Passed(cursor[k])
                   /\ \/ cursor[k] >= a + k
                      \/ ~spoken_for(block_at(p, cursor[k]), R)
\* What a block found from a cursor at an edge is.
<1>12. ASSUME NEW c \in S, c <= b, Edge(c), Passed(c), NEW s \in Nat, NEW e \in Nat, Finds(c, s, e)
       PROVE  /\ s .. e - 1 \in Open /\ Edge(e)
              /\ \A x \in Open : x = s .. e - 1 \/ Overlaps(x, taken) \/ \A u \in x : e <= u
              /\ \A x \in Open : Overlaps(x, taken) \/ \A u \in x : s <= u
  <2>0. c \in Nat /\ a <= c
    OBVIOUS
  <2>1. /\ c <= s /\ s < e /\ e <= b
        /\ \A u \in M : c <= u /\ u < b => s <= u
        /\ \A u \in Nat : s <= u /\ u < e => u \in M /\ CellOf(u) = CellOf(s)
        /\ ~(e \in M /\ CellOf(e) = CellOf(s))
    BY <1>12 DEF Finds
  <2>2. s \in M /\ s <= s
    BY <2>1
  <2>3. ~(s - 1 \in M /\ CellOf(s - 1) = CellOf(s))
    <3> SUFFICES ASSUME s - 1 \in M, CellOf(s - 1) = CellOf(s) PROVE FALSE
      OBVIOUS
    <3>1. CASE s = c
      BY <1>12, <2>2, <3>1
    <3>2. CASE s # c
      <4>1. c <= s - 1 /\ s - 1 < b /\ ~(s <= s - 1)
        BY <1>2, <2>0, <2>1, <3>2
      <4> QED
        BY <2>1, <4>1
    <3> QED
      BY <3>1, <3>2
  <2>4. Run(M, s, e)
    BY <2>1, <2>3 DEF Run
  <2>5. s .. e - 1 \in OpenBlocks(M)
    BY <1>3, <2>4, OpenBlocksAreRuns
  <2>6. BlockPart(s .. e - 1) = p
    <3>1. s \in s .. e - 1
      BY <2>1
    <3>2. PartOf(s) = BlockPart(s .. e - 1)
      BY <1>3, <2>5, <3>1, BlockPartIs
    <3>3. s \in PartUnits(p)
      BY <1>2, <2>0, <2>1
    <3> QED
      BY <3>2, <3>3 DEF PartUnits
  <2>7. Edge(e)
    <3>1. e - 1 \in Nat /\ s <= e - 1 /\ e - 1 < e
      BY <2>1
    <3>2. CellOf(e - 1) = CellOf(s)
      BY <2>1, <3>1
    <3> QED
      BY <2>1, <3>2
  <2>8. ASSUME NEW x \in Open, ~Overlaps(x, taken)
        PROVE  (\A u \in x : s <= u) /\ (x = s .. e - 1 \/ \A u \in x : e <= u)
    <3>1. x \in OpenBlocks(M) /\ BlockPart(x) = p /\ \A u \in x : c <= u
      BY <1>12, <2>8
    <3>2. ASSUME NEW u \in x PROVE u \in M /\ u \in Nat /\ u < b
      <4>1. u \in Units /\ PartOf(u) = p /\ u \in M
        BY <1>3, <3>1, BlockPartIs, OpenBlocksApart
      <4>2. u \in PartUnits(p) /\ u \in Nat
        BY <1>3, <4>1 DEF PartUnits
      <4> QED
        BY <1>2, <4>1, <4>2
    <3>3. \A u \in x : s <= u
      BY <2>1, <3>1, <3>2
    <3>4. ASSUME NEW u \in x, ~(e <= u) PROVE x = s .. e - 1
      <4>1. u \in s .. e - 1
        BY <3>2, <3>3, <3>4
      <4> QED
        BY <1>3, <2>5, <3>1, <4>1, OpenBlocksApart
    <3> QED
      BY <3>3, <3>4
  <2> HIDE DEF Edge
  <2> QED
    BY <2>5, <2>6, <2>7, <2>8
<1>13. P(0)
  <2>1. cursor[0] = a
    BY <1>2, <1>11
  <2>2. Edge(a)
    <3> SUFFICES ASSUME a \in M, a - 1 \in M, CellOf(a - 1) = CellOf(a) PROVE FALSE
      OBVIOUS
    <3>1. a \in PartUnits(p)
      BY <1>2
    <3>2. PartOf(a - 1) = p
      BY <3>1, SameCellSamePart DEF PartUnits
    <3>3. a - 1 \in Nat /\ a - 1 \in PartUnits(p)
      BY <1>3, <3>2 DEF PartUnits
    <3> QED
      BY <1>2, <3>3
  <2>3. Passed(a)
    <3> SUFFICES ASSUME NEW x \in Open, NEW u \in x PROVE a <= u
      OBVIOUS
    <3>1. u \in Units /\ PartOf(u) = p
      BY <1>3, BlockPartIs
    <3>2. u \in PartUnits(p) /\ u \in Nat
      BY <3>1, GeometryAssumption DEF PartUnits, Units
    <3> QED
      BY <1>2, <3>2
  <2>4. a \in S /\ a <= b /\ a >= a + 0
    BY <1>2
  <2> HIDE DEF Edge, Passed, S
  <2> QED
    BY <2>1, <2>2, <2>3, <2>4
<1>14. ASSUME NEW k \in 1 .. PartSize, P(k - 1) PROVE P(k)
  <2>1. PICK c : c = cursor[k - 1]
    OBVIOUS
  <2>2. /\ c \in S /\ c \in Nat /\ c <= b /\ Edge(c) /\ Passed(c)
        /\ c >= a + (k - 1) \/ ~spoken_for(block_at(p, c), R)
    BY <1>14, <2>1
  <2>3. k \in 0 .. PartSize /\ k # 0 /\ k \in Nat
    BY <1>2
  <2>4. cursor[k] = Pass(c)
    BY <1>11, <2>1, <2>3
  <2>5. CASE ~spoken_for(block_at(p, c), R)
    <3>1. cursor[k] = c
      BY <2>4, <2>5
    <3> HIDE DEF Edge, Passed, S
    <3> QED
      BY <2>2, <2>5, <3>1
  <2>6. CASE spoken_for(block_at(p, c), R)
    <3>1. block_at(p, c) # NoBlock
      BY <2>6 DEF spoken_for
    <3>2. PICK s, e \in Nat : Finds(c, s, e)
      BY <1>4, <2>2, <3>1
    <3>3. /\ block_at(p, c) = <<s, e>> /\ e <= b /\ e \in S /\ c < e
          /\ spoken_for(<<s, e>>, R) <=> Overlaps(s .. e - 1, taken)
      BY <1>5, <2>2, <3>2
    <3>4. cursor[k] = e
      BY <2>4, <2>6, <3>3
    <3>5. Overlaps(s .. e - 1, taken)
      BY <2>6, <3>3
    <3>6. /\ Edge(e)
          /\ \A x \in Open : x = s .. e - 1 \/ Overlaps(x, taken) \/ \A u \in x : e <= u
      <4> HIDE DEF Edge, Passed, S, Open
      <4> QED
        BY <1>12, <2>2, <3>2
    <3>7. Passed(e)
      <4> HIDE DEF Open
      <4> QED
        BY <3>5, <3>6
    <3>8. e >= a + k
      BY <1>2, <2>2, <2>3, <2>6, <3>3
    <3> HIDE DEF Edge, Passed, S
    <3> QED
      BY <3>3, <3>4, <3>6, <3>7, <3>8
  <2> QED
    BY <2>5, <2>6
<1> HIDE DEF P
<1>15. P(PartSize)
  <2> DEFINE T == {k \in 0 .. PartSize : ~P(k)}
  <2> SUFFICES ASSUME T # {} PROVE FALSE
    BY <1>2
  <2>1. PICK x \in T : \A y \in T : x <= y
    <3>1. T \in SUBSET Nat
      BY <1>2
    <3> HIDE DEF T
    <3> QED
      BY <3>1, LeastNat
  <2>2. x # 0
    BY <1>13, <2>1
  <2>3. x \in 1 .. PartSize /\ x - 1 \in 0 .. PartSize /\ ~(x <= x - 1)
    BY <1>2, <2>1, <2>2
  <2>4. P(x - 1)
    BY <2>1, <2>3
  <2> QED
    BY <1>14, <2>1, <2>3, <2>4
<1>16. PICK c : c = cursor[PartSize]
  OBVIOUS
<1>17. /\ c \in S /\ c \in Nat /\ c <= b /\ Edge(c) /\ Passed(c)
       /\ c >= a + PartSize \/ ~spoken_for(block_at(p, c), R)
  BY <1>15, <1>16 DEF P
<1>18. next_block_in_part(p, R) = block_at(p, c)
  BY <1>10, <1>16
<1> DEFINE free == OpenIn(M, p, taken)
<1>19. \A x : x \in free <=> x \in Open /\ ~Overlaps(x, taken)
  BY DEF OpenIn
<1>20. CASE block_at(p, c) = NoBlock /\ \A u \in M : ~(c <= u /\ u < b)
  <2>1. ASSUME NEW x \in free PROVE FALSE
    <3>1. x \in OpenBlocks(M) /\ BlockPart(x) = p /\ ~Overlaps(x, taken)
      BY <1>19
    <3>2. \A u \in x : c <= u
      BY <1>17, <3>1
    <3>3. PICK u \in x : u \in M
      BY <1>3, <3>1, OpenBlocksApart
    <3>4. u \in PartUnits(p) /\ u \in Nat
      BY <1>3, <3>1, <3>3, BlockPartIs DEF PartUnits
    <3>5. u < b
      BY <1>2, <3>4
    <3> QED
      BY <1>20, <3>2, <3>3, <3>5
  <2> HIDE DEF free
  <2> QED
    BY <1>18, <1>20, <2>1 DEF free
<1>21. CASE \E s, e \in Nat : Finds(c, s, e)
  <2>1. PICK s, e \in Nat : Finds(c, s, e)
    BY <1>21
  <2>2. /\ block_at(p, c) = <<s, e>> /\ c < e /\ e <= b /\ s < e
        /\ spoken_for(<<s, e>>, R) <=> Overlaps(s .. e - 1, taken)
    BY <1>5, <1>17, <2>1
  <2>3. ~spoken_for(block_at(p, c), R)
    BY <1>2, <1>17, <2>2
  <2>4. /\ s .. e - 1 \in Open
        /\ \A x \in Open : Overlaps(x, taken) \/ \A u \in x : s <= u
    <3> HIDE DEF Edge, Passed, S, Open
    <3> QED
      BY <1>12, <1>17, <2>1
  <2>5. s .. e - 1 \in free /\ \A x \in free : \A u \in x : s <= u
    <3> HIDE DEF Open, free
    <3> QED
      BY <1>19, <2>2, <2>3, <2>4
  <2> HIDE DEF free
  <2> QED
    BY <1>18, <2>2, <2>5 DEF free
<1> QED
  BY <1>4, <1>17, <1>20, <1>21

\* The blocks a source that holds A may be asked for while R is reserved.
Free(R, A) == Requestable(UnitsOf(list), AsUnits(R), A)

\* What the allocator has collected at any moment: blocks that are free, counted
\* right, not too many, and none of a part before its earlier ones.
Got(O, free, most) ==
    /\ O \in SUBSET AnyRange /\ IsFiniteSet(O) /\ Cardinality(O) <= most
    /\ IsFiniteSet(AsUnits(O)) /\ Cardinality(AsUnits(O)) = Cardinality(O)
    /\ AsUnits(O) \subseteq free
    /\ \A x \in AsUnits(O), y \in free :
          BlockPart(x) = BlockPart(y) /\ Precedes(y, x) => y \in AsUnits(O)

\* What is left of a part is what is free and was not collected.
LEMMA LeftInPart ==
    ASSUME Tidy(list), NEW R \in SUBSET AnyRange, NEW A \in SUBSET Parts, NEW p \in A,
           NEW O, AsUnits(O) \subseteq Free(R, A)
    PROVE  OpenIn(UnitsOf(list), p, AsUnits(R \cup O))
             = {x \in Free(R, A) : BlockPart(x) = p /\ x \notin AsUnits(O)}
<1> DEFINE M == UnitsOf(list)
<1>1. M \in SUBSET Units
  BY TidyInside
<1>2. AsUnits(R \cup O) = AsUnits(R) \cup AsUnits(O)
  BY DEF AsUnits
<1>3. \A x : Overlaps(x, AsUnits(R \cup O)) <=> Overlaps(x, AsUnits(R)) \/ Overlaps(x, AsUnits(O))
  BY <1>2 DEF Overlaps
<1>4. ASSUME NEW x \in OpenBlocks(M) PROVE Overlaps(x, AsUnits(O)) <=> x \in AsUnits(O)
  <2>1. \A y \in AsUnits(O) : y \in OpenBlocks(M)
    BY DEF Free, Requestable
  <2>2. \A y \in OpenBlocks(M) : y \cap x # {} => y = x
    BY <1>1, OpenBlocksApart
  <2>3. x \cap x # {}
    BY <1>1, OpenBlocksApart
  <2> HIDE DEF M
  <2> QED
    BY <2>1, <2>2, <2>3 DEF Overlaps
<1>5. \A x : x \in Free(R, A) <=> x \in OpenBlocks(M) /\ BlockPart(x) \in A /\ ~Overlaps(x, AsUnits(R))
  BY DEF Free, Requestable
<1>6. \A x : x \in OpenIn(M, p, AsUnits(R \cup O))
                <=> x \in OpenBlocks(M) /\ BlockPart(x) = p /\ ~Overlaps(x, AsUnits(R \cup O))
  BY DEF OpenIn
<1> HIDE DEF M
<1>7. \A x : x \in OpenIn(M, p, AsUnits(R \cup O))
                <=> x \in Free(R, A) /\ BlockPart(x) = p /\ x \notin AsUnits(O)
  BY <1>3, <1>4, <1>5, <1>6
<1> QED
  BY <1>7 DEF M

\* What next_block_in_part adds to what was collected: nothing is left of the part,
\* or the first block that is.
Adds(O, p, free, most, blk) ==
    /\ blk \in AnyRange /\ blk # NoBlock /\ Got(O \cup {blk}, free, most)
    /\ Cardinality(O \cup {blk}) = Cardinality(O) + 1
    /\ \E x \in free : /\ BlockPart(x) = p /\ x \notin AsUnits(O)
                       /\ AsUnits(O \cup {blk}) = AsUnits(O) \cup {x}

LEMMA RoundDoes ==
    ASSUME Tidy(list), NEW R \in SUBSET AnyRange, NEW A \in SUBSET Parts, NEW p \in A,
           NEW most \in Nat, NEW O, Got(O, Free(R, A), most), Cardinality(O) < most
    PROVE  LET blk == next_block_in_part(p, R \cup O) IN
           \/ /\ blk = NoBlock
              /\ \A x \in Free(R, A) : BlockPart(x) = p => x \in AsUnits(O)
           \/ Adds(O, p, Free(R, A), most, blk)
<1> DEFINE M == UnitsOf(list)
           blk == next_block_in_part(p, R \cup O)
           left == OpenIn(M, p, AsUnits(R \cup O))
<1>1. /\ O \in SUBSET AnyRange /\ IsFiniteSet(O) /\ Cardinality(O) <= most
      /\ IsFiniteSet(AsUnits(O)) /\ Cardinality(AsUnits(O)) = Cardinality(O)
      /\ AsUnits(O) \subseteq Free(R, A)
      /\ \A x \in AsUnits(O), y \in Free(R, A) :
            BlockPart(x) = BlockPart(y) /\ Precedes(y, x) => y \in AsUnits(O)
  BY DEF Got
<1>2. p \in 0 .. (data_part_count - 1) /\ R \cup O \in SUBSET AnyRange
  BY <1>1, PartsNumbered
<1>3. \/ blk = NoBlock /\ left = {}
      \/ \E s, e \in Nat : /\ blk = <<s, e>> /\ s < e /\ s .. e - 1 \in left
                           /\ \A x \in left : \A u \in x : s <= u
  <2> DEFINE Q == R \cup O
  <2>1. Q \in SUBSET AnyRange
    BY <1>2
  <2> HIDE DEF Q
  <2>2. \/ next_block_in_part(p, Q) = NoBlock /\ OpenIn(M, p, AsUnits(Q)) = {}
        \/ \E s, e \in Nat : /\ next_block_in_part(p, Q) = <<s, e>> /\ s < e
                             /\ s .. e - 1 \in OpenIn(M, p, AsUnits(Q))
                             /\ \A x \in OpenIn(M, p, AsUnits(Q)) : \A u \in x : s <= u
    BY <1>2, <2>1, NextBlockDoes
  <2> QED
    BY <2>2 DEF Q
<1>4. \A x : x \in left <=> x \in Free(R, A) /\ BlockPart(x) = p /\ x \notin AsUnits(O)
  BY <1>1, LeftInPart
<1> HIDE DEF left, blk
<1>5. CASE blk = NoBlock /\ left = {}
  BY <1>4, <1>5 DEF blk
<1>6. CASE \E s, e \in Nat : /\ blk = <<s, e>> /\ s < e /\ s .. e - 1 \in left
                             /\ \A x \in left : \A u \in x : s <= u
  <2>1. PICK s, e \in Nat : /\ blk = <<s, e>> /\ s < e /\ s .. e - 1 \in left
                            /\ \A x \in left : \A u \in x : s <= u
    BY <1>6
  <2>2. PICK x : x = s .. e - 1
    OBVIOUS
  <2>3. x \in Free(R, A) /\ BlockPart(x) = p /\ x \notin AsUnits(O) /\ s \in x
    BY <1>4, <2>1, <2>2
  <2>4. blk \in AnyRange /\ blk # NoBlock /\ blk[1] .. (blk[2] - 1) = x
    <3>1. blk[1] = s /\ blk[2] = e
      BY <2>1
    <3>2. blk \in AnyRange
      BY <2>1, <3>1 DEF AnyRange
    <3>3. blk # NoBlock
      BY <2>1 DEF NoBlock
    <3> QED
      BY <2>2, <3>1, <3>2, <3>3
  <2> DEFINE N == O \cup {blk}
  <2>5. AsUnits(N) = AsUnits(O) \cup {x}
    BY <2>4 DEF AsUnits
  <2>6. blk \notin O
    BY <2>3, <2>4 DEF AsUnits
  <2>7. Cardinality(O) \in Nat /\ IsFiniteSet(N) /\ Cardinality(N) = Cardinality(O) + 1
    BY <1>1, <2>6, FS_AddElement, FS_CardinalityType
  <2>8. IsFiniteSet(AsUnits(N)) /\ Cardinality(AsUnits(N)) = Cardinality(AsUnits(O)) + 1
    <3>1. PICK U : U = AsUnits(O)
      OBVIOUS
    <3>2. IsFiniteSet(U) /\ x \notin U
      BY <1>1, <2>3, <3>1
    <3>3. IsFiniteSet(U \cup {x}) /\ Cardinality(U \cup {x}) = Cardinality(U) + 1
      BY <3>2, FS_AddElement
    <3>4. AsUnits(N) = U \cup {x}
      BY <2>5, <3>1
    <3> HIDE DEF N
    <3> QED
      BY <3>1, <3>3, <3>4
  <2>9. N \in SUBSET AnyRange
    BY <1>1, <2>4
  <2>10. Cardinality(N) <= most /\ Cardinality(AsUnits(N)) = Cardinality(N)
    BY <1>1, <2>7, <2>8
  <2>11. AsUnits(N) \subseteq Free(R, A)
    BY <1>1, <2>3, <2>5
  <2>12. ASSUME NEW z \in AsUnits(N), NEW y \in Free(R, A), BlockPart(z) = BlockPart(y), Precedes(y, z)
         PROVE  y \in AsUnits(N)
    <3>1. CASE z \in AsUnits(O)
      BY <1>1, <2>5, <2>12, <3>1
    <3>2. CASE z = x
      <4> SUFFICES ASSUME y \notin AsUnits(O) PROVE FALSE
        BY <2>5
      <4>1. y \in left
        BY <1>4, <2>3, <2>12, <3>2
      <4>2. PICK u \in y : u \in Nat
        <5>1. M \in SUBSET Units /\ \A u \in Units : u \in Nat
          BY TidyInside, GeometryAssumption DEF Units
        <5>2. y \in OpenBlocks(M)
          BY DEF Free, Requestable
        <5> HIDE DEF M
        <5>3. y # {} /\ y \subseteq M
          BY <5>1, <5>2, OpenBlocksApart
        <5> QED
          BY <5>1, <5>3
      <4>3. s <= u /\ u < s
        BY <2>1, <2>3, <2>12, <3>2, <4>1 DEF Precedes
      <4> QED
        BY <4>2, <4>3
    <3> QED
      BY <2>5, <3>1, <3>2
  <2> HIDE DEF N
  <2>13. Got(N, Free(R, A), most)
    BY <2>7, <2>8, <2>9, <2>10, <2>11, <2>12 DEF Got
  <2>14. Adds(O, p, Free(R, A), most, blk)
    BY <2>3, <2>4, <2>5, <2>7, <2>13 DEF N, Adds
  <2> QED
    BY <2>14 DEF blk
<1> QED
  BY <1>3, <1>5, <1>6

\* What draining a part does to what was collected before.
Drained(O, T, p, free, most) ==
    /\ Got(T, free, most) /\ AsUnits(O) \subseteq AsUnits(T)
    /\ \A x \in AsUnits(T) : x \in AsUnits(O) \/ BlockPart(x) = p
    /\ Cardinality(O) < most \/ T = O
    /\ Cardinality(T) >= most \/ \A x \in free : BlockPart(x) = p => x \in AsUnits(T)

\* drain_part collects blocks of the part until there are enough or none is left.
LEMMA DrainDoes ==
    ASSUME Tidy(list), NEW R \in SUBSET AnyRange, NEW A \in SUBSET Parts, NEW p \in A,
           NEW most \in Nat, NEW O, Got(O, Free(R, A), most)
    PROVE  Drained(O, drain_part(p, O, R, most), p, Free(R, A), most)
<1> DEFINE free == Free(R, A)
           blk(B) == next_block_in_part(p, R \cup B)
           Grow(B) == IF Cardinality(B) >= most \/ blk(B) = NoBlock THEN B ELSE B \cup {blk(B)}
           S == {B \in SUBSET AnyRange : Got(B, free, most)}
           step == [k \in 1 .. most |-> [B \in S |-> Grow(B)]]
           F(f) == [n \in 0 .. most |->
                      IF n = 0 THEN O
                      ELSE IF Cardinality(f[n - 1]) >= most
                                \/ next_block_in_part(p, R \cup f[n - 1]) = NoBlock
                           THEN f[n - 1]
                           ELSE f[n - 1] \cup {next_block_in_part(p, R \cup f[n - 1])}]
           out == CHOOSE f : f = F(f)
<1>1. O \in S /\ \A B \in S : Got(B, free, most) /\ Cardinality(B) \in Nat /\ Cardinality(B) <= most
  BY FS_CardinalityType DEF Got
\* One round.
<1>2. ASSUME NEW B \in S, Cardinality(B) < most
      PROVE  \/ /\ blk(B) = NoBlock
                /\ \A x \in free : BlockPart(x) = p => x \in AsUnits(B)
             \/ Adds(B, p, free, most, blk(B))
  <2>1. Got(B, Free(R, A), most)
    BY <1>1
  <2> QED
    BY <1>2, <2>1, RoundDoes
<1> HIDE DEF blk, free
<1>3. ASSUME NEW B \in S PROVE Grow(B) \in S
  <2>1. CASE Cardinality(B) >= most \/ blk(B) = NoBlock
    BY <2>1
  <2>2. CASE ~(Cardinality(B) >= most) /\ blk(B) # NoBlock
    <3>1. Cardinality(B) < most
      BY <1>1, <2>2
    <3>2. Adds(B, p, free, most, blk(B))
      BY <1>2, <2>2, <3>1
    <3>3. Got(B \cup {blk(B)}, free, most) /\ Grow(B) = B \cup {blk(B)}
      BY <2>2, <3>2 DEF Adds
    <3> QED
      BY <3>3 DEF Got
  <2> QED
    BY <2>1, <2>2
<1>4. PICK g \in [0 .. most -> S] : g[0] = O /\ \A k \in 1 .. most : g[k] = step[k][g[k - 1]]
  <2>1. step \in [1 .. most -> [S -> S]]
    <3> HIDE DEF Grow, S
    <3> QED
      BY <1>3
  <2>2. PICK g : Rounds(most, S, O, step, g)
    <3> HIDE DEF step, S
    <3> QED
      BY <1>1, <2>1, LoopRuns
  <2> QED
    BY <2>2 DEF Rounds
<1>5. \A k \in 1 .. most : g[k] = Grow(g[k - 1]) /\ g[k - 1] \in S /\ g[k] \in S
  <2> SUFFICES ASSUME NEW k \in 1 .. most PROVE g[k] = Grow(g[k - 1]) /\ g[k - 1] \in S /\ g[k] \in S
    OBVIOUS
  <2>1. k - 1 \in 0 .. most /\ k \in 0 .. most
    OBVIOUS
  <2> HIDE DEF S, Grow
  <2>2. g[k - 1] \in S /\ g[k] \in S
    BY <1>4, <2>1
  <2>3. step[k][g[k - 1]] = Grow(g[k - 1])
    BY <2>2
  <2> QED
    BY <1>4, <2>2, <2>3
<1>6. g = F(g)
  <2>1. ASSUME NEW k \in 0 .. most PROVE g[k] = F(g)[k]
    <3>1. CASE k = 0
      BY <1>4, <3>1
    <3>2. CASE k # 0
      <4>1. k \in 1 .. most
        BY <3>2
      <4>2. g[k] = Grow(g[k - 1])
        BY <1>5, <4>1
      <4> QED
        BY <3>2, <4>2 DEF blk
    <3> QED
      BY <3>1, <3>2
  <2>2. F(g) = [k \in 0 .. most |-> F(g)[k]]
    OBVIOUS
  <2> HIDE DEF F, S
  <2> QED
    BY <1>4, <2>1, <2>2
<1>7. out = F(out)
  BY <1>6
<1>8. drain_part(p, O, R, most) = out[most]
  BY DEF drain_part
<1> HIDE DEF out
<1>9. out[0] = O /\ \A k \in 1 .. most : out[k] = Grow(out[k - 1])
  <2>1. out[0] = O
    BY <1>7
  <2>2. ASSUME NEW k \in 1 .. most PROVE out[k] = Grow(out[k - 1])
    <3>1. k \in 0 .. most /\ k # 0
      OBVIOUS
    <3> QED
      BY <1>7, <3>1 DEF blk
  <2> QED
    BY <2>1, <2>2
<1> DEFINE AllIn(B) == \A x \in free : BlockPart(x) = p => x \in AsUnits(B)
           Q(k) == /\ out[k] \in S /\ AsUnits(O) \subseteq AsUnits(out[k])
                   /\ \A x \in AsUnits(out[k]) : x \in AsUnits(O) \/ BlockPart(x) = p
                   /\ Cardinality(O) < most \/ out[k] = O
                   /\ Cardinality(out[k]) >= most \/ AllIn(out[k]) \/ Cardinality(out[k]) >= k
<1>10. Q(0)
  <2>1. Cardinality(O) \in Nat /\ Cardinality(O) <= most
    BY <1>1
  <2> HIDE DEF S, AllIn
  <2> QED
    BY <1>1, <1>9, <2>1
<1>11. ASSUME NEW k \in 1 .. most, Q(k - 1) PROVE Q(k)
  <2>1. PICK B : B = out[k - 1]
    OBVIOUS
  <2>2. /\ B \in S /\ AsUnits(O) \subseteq AsUnits(B)
        /\ \A x \in AsUnits(B) : x \in AsUnits(O) \/ BlockPart(x) = p
        /\ Cardinality(O) < most \/ B = O
        /\ Cardinality(B) >= most \/ AllIn(B) \/ Cardinality(B) >= k - 1
    <3> HIDE DEF S, AllIn
    <3> QED
      BY <1>11, <2>1
  <2>3. out[k] = Grow(B) /\ Cardinality(B) \in Nat /\ k \in Nat
    <3>1. Cardinality(B) \in Nat /\ k \in Nat
      BY <1>1, <2>2
    <3> HIDE DEF S, Grow, AllIn
    <3> QED
      BY <1>9, <2>1, <3>1
  <2>4. CASE Cardinality(B) >= most
    <3>1. out[k] = B
      BY <2>3, <2>4
    <3> HIDE DEF S, AllIn
    <3> QED
      BY <2>2, <2>4, <3>1
  <2>5. CASE Cardinality(B) < most /\ blk(B) = NoBlock
    <3>1. out[k] = B
      BY <2>3, <2>5
    <3>2. AllIn(B)
      BY <1>2, <2>2, <2>5 DEF Adds
    <3> HIDE DEF S, AllIn
    <3> QED
      BY <2>2, <3>1, <3>2
  <2>6. CASE Cardinality(B) < most /\ blk(B) # NoBlock
    <3>1. Adds(B, p, free, most, blk(B))
      BY <1>2, <2>2, <2>6
    <3>2. PICK C : C = B \cup {blk(B)}
      OBVIOUS
    <3>3. out[k] = C
      BY <2>3, <2>6, <3>2
    <3>4. PICK x \in free : BlockPart(x) = p /\ x \notin AsUnits(B) /\ AsUnits(C) = AsUnits(B) \cup {x}
      BY <3>1, <3>2 DEF Adds
    <3>5. C \in S /\ Cardinality(C) = Cardinality(B) + 1
      BY <3>1, <3>2 DEF Adds, Got
    <3>6. ~AllIn(B)
      BY <3>4
    <3>7. Cardinality(C) >= k
      <4> HIDE DEF AllIn
      <4> QED
        BY <2>2, <2>3, <2>6, <3>5, <3>6
    <3>8. Cardinality(O) < most
      BY <2>2, <2>6
    <3>9. AsUnits(O) \subseteq AsUnits(C)
      BY <2>2, <3>4
    <3>10. \A y \in AsUnits(C) : y \in AsUnits(O) \/ BlockPart(y) = p
      BY <2>2, <3>4
    <3> HIDE DEF S, AllIn
    <3> QED
      BY <3>3, <3>5, <3>7, <3>8, <3>9, <3>10
  <2> HIDE DEF Q
  <2> QED
    BY <2>3, <2>4, <2>5, <2>6
<1> HIDE DEF Q
<1>12. Q(most)
  <2> DEFINE T == {k \in 0 .. most : ~Q(k)}
  <2> SUFFICES ASSUME T # {} PROVE FALSE
    OBVIOUS
  <2>1. PICK x \in T : \A y \in T : x <= y
    <3>1. T \in SUBSET Nat
      OBVIOUS
    <3> HIDE DEF T
    <3> QED
      BY <3>1, LeastNat
  <2>2. x # 0
    BY <1>10, <2>1
  <2>3. x \in 1 .. most /\ x - 1 \in 0 .. most /\ ~(x <= x - 1)
    BY <2>1, <2>2
  <2>4. Q(x - 1)
    BY <2>1, <2>3
  <2> QED
    BY <1>11, <2>1, <2>3, <2>4
<1>13. Drained(O, out[most], p, free, most)
  <2>1. PICK B : B = out[most]
    OBVIOUS
  <2>2. /\ B \in S /\ AsUnits(O) \subseteq AsUnits(B)
        /\ \A x \in AsUnits(B) : x \in AsUnits(O) \/ BlockPart(x) = p
        /\ Cardinality(O) < most \/ B = O
        /\ Cardinality(B) >= most \/ AllIn(B)
    <3> HIDE DEF S, AllIn
    <3> QED
      BY <1>12, <2>1 DEF Q
  <2>3. Got(B, free, most)
    BY <1>1, <2>2
  <2> QED
    BY <2>1, <2>2, <2>3 DEF Drained
<1> QED
  BY <1>8, <1>13 DEF free

\* How much a part lacks is a number.
LEMMA PartMissingTyped ==
    ASSUME Tidy(list), NEW p \in 0 .. (data_part_count - 1)
    PROVE  part_missing(p) \in Int
<1>1. PICK a, b : a = part_start(p) /\ b = part_end(p)
  OBVIOUS
<1>2. a \in Nat /\ b \in Nat
  BY <1>1, PartRange
<1> DEFINE n == Len(list)
           inside(g) == IF Touches(g, a, b) THEN min(g.end, b) - max(g.start, a) ELSE 0
           step == [k \in 1 .. n |-> [x \in Int |-> x + inside(list[k])]]
           F(f) == [k \in 0 .. n |->
                      IF k = 0 THEN 0
                      ELSE f[k - 1] + (IF Touches(list[k], part_start(p), part_end(p))
                                       THEN min(list[k].end, part_end(p))
                                              - max(list[k].start, part_start(p))
                                       ELSE 0)]
           total == CHOOSE f : f = F(f)
<1>3. n \in Nat /\ \A k \in 1 .. n : list[k].start \in Nat /\ list[k].end \in Nat
  <2>1. n \in Nat /\ \A i \in 1 .. n : list[i] \in AnyGap
    BY DEF Tidy
  <2> QED
    BY <2>1 DEF AnyGap
<1>4. \A k \in 1 .. n : inside(list[k]) \in Int
  BY <1>2, <1>3 DEF min, max
<1>5. step \in [1 .. n -> [Int -> Int]]
  <2> HIDE DEF inside
  <2> QED
    BY <1>4
<1>a. 0 \in Int
  OBVIOUS
<1>6. PICK g \in [0 .. n -> Int] : g[0] = 0 /\ \A k \in 1 .. n : g[k] = step[k][g[k - 1]]
  <2>1. PICK g : Rounds(n, Int, 0, step, g)
    <3> HIDE DEF step, n
    <3> QED
      BY <1>3, <1>5, <1>a, LoopRuns
  <2> QED
    BY <2>1 DEF Rounds
<1>7. ASSUME NEW k \in 0 .. n PROVE g[k] = IF k = 0 THEN 0 ELSE g[k - 1] + inside(list[k])
  <2> HIDE DEF inside
  <2>1. CASE k = 0
    BY <1>6, <2>1
  <2>2. CASE k # 0
    <3>1. k \in 1 .. n /\ k - 1 \in 0 .. n
      BY <1>3, <2>2
    <3>2. g[k - 1] \in Int /\ g[k] = step[k][g[k - 1]]
      BY <1>6, <3>1
    <3> QED
      BY <2>2, <3>1, <3>2
  <2> QED
    BY <2>1, <2>2
<1>8. g = F(g)
  <2>1. F(g) = [k \in 0 .. n |-> IF k = 0 THEN 0 ELSE g[k - 1] + inside(list[k])]
    BY <1>1
  <2> HIDE DEF F, inside
  <2> QED
    BY <1>6, <1>7, <2>1
<1>9. total = F(total)
  BY <1>8
<1>10. part_missing(p) = total[n]
  BY DEF part_missing
<1> HIDE DEF total
<1>11. \A k \in 0 .. n : total[k] = IF k = 0 THEN 0 ELSE total[k - 1] + inside(list[k])
  BY <1>1, <1>9
<1> HIDE DEF inside
<1> DEFINE T == {k \in 0 .. n : total[k] \notin Int}
<1>12. T = {}
  <2> SUFFICES ASSUME T # {} PROVE FALSE
    OBVIOUS
  <2>1. PICK x \in T : \A y \in T : x <= y
    <3>1. T \in SUBSET Nat
      BY <1>3
    <3> HIDE DEF T
    <3> QED
      BY <3>1, LeastNat
  <2>2. total[0] = 0
    BY <1>3, <1>11
  <2>3. x # 0
    BY <2>1, <2>2
  <2>4. x \in 1 .. n /\ x - 1 \in 0 .. n /\ ~(x <= x - 1)
    BY <1>3, <2>1, <2>3
  <2>5. total[x - 1] \in Int
    BY <2>1, <2>4
  <2>6. total[x] = total[x - 1] + inside(list[x]) /\ inside(list[x]) \in Int
    BY <1>4, <1>11, <2>1, <2>3, <2>4
  <2>7. total[x] \in Int
    BY <2>5, <2>6
  <2> QED
    BY <2>1, <2>7
<1> QED
  BY <1>3, <1>10, <1>12

\* Ordering by a key, then by what is lacking, then by number orders the parts.
LEMMA ByKeyOrders ==
    ASSUME NEW W \in SUBSET Int, NEW key \in [W -> Int], NEW lacks \in [W -> Int]
    PROVE  Orders(W, {x \in W \X W :
                        \/ key[x[1]] < key[x[2]]
                        \/ /\ key[x[1]] = key[x[2]]
                           /\ \/ lacks[x[1]] < lacks[x[2]]
                              \/ lacks[x[1]] = lacks[x[2]] /\ x[1] < x[2]})
<1> DEFINE Sooner(p, q) == \/ key[p] < key[q]
                           \/ /\ key[p] = key[q]
                              /\ \/ lacks[p] < lacks[q]
                                 \/ lacks[p] = lacks[q] /\ p < q
           sooner == {x \in W \X W :
                        \/ key[x[1]] < key[x[2]]
                        \/ /\ key[x[1]] = key[x[2]]
                           /\ \/ lacks[x[1]] < lacks[x[2]]
                              \/ lacks[x[1]] = lacks[x[2]] /\ x[1] < x[2]}
<1>1. \A p, q \in W : <<p, q>> \in sooner <=> Sooner(p, q)
  OBVIOUS
<1>2. \A p \in W : p \in Int /\ key[p] \in Int /\ lacks[p] \in Int
  OBVIOUS
<1>3. /\ \A p \in W : ~Sooner(p, p)
      /\ \A p, q \in W : p = q \/ Sooner(p, q) \/ Sooner(q, p)
      /\ \A p, q, r \in W : Sooner(p, q) /\ Sooner(q, r) => Sooner(p, r)
  BY <1>2
<1> HIDE DEF sooner, Sooner
<1>4. Orders(W, sooner)
  BY <1>1, <1>3 DEF Orders
<1> QED
  BY <1>4 DEF sooner

\* Whatever decides the order, part_order lists every part that lacks something.
LEMMA PartOrderDoes ==
    ASSUME Tidy(list), NEW rarity \in [Parts -> Nat], NEW preview \in BOOLEAN
    PROVE  LET W == wanted_parts_list
               order == part_order(rarity, preview)
           IN /\ Cardinality(W) \in Nat /\ W \subseteq Parts /\ order \in [1 .. Cardinality(W) -> W]
              /\ \A p \in W : \E n \in 1 .. Cardinality(W) : order[n] = p
<1> DEFINE W == wanted_parts_list
           k(p) == IF preview THEN p ELSE rarity[p]
           key == [p \in W |-> k(p)]
           lacks == [p \in W |-> part_missing(p)]
           sooner == {x \in W \X W :
                        \/ key[x[1]] < key[x[2]]
                        \/ /\ key[x[1]] = key[x[2]]
                           /\ \/ lacks[x[1]] < lacks[x[2]]
                              \/ lacks[x[1]] = lacks[x[2]] /\ x[1] < x[2]}
           meant == {x \in W \X W :
                        \/ k(x[1]) < k(x[2])
                        \/ /\ k(x[1]) = k(x[2])
                           /\ \/ part_missing(x[1]) < part_missing(x[2])
                              \/ part_missing(x[1]) = part_missing(x[2]) /\ x[1] < x[2]}
<1>1. W \in SUBSET (0 .. (data_part_count - 1)) /\ data_part_count \in Int
  BY GeometryAssumption DEF wanted_parts_list, data_part_count
<1>2. IsFiniteSet(W)
  <2>1. IsFiniteSet(0 .. (data_part_count - 1))
    BY <1>1, FS_Interval
  <2> QED
    BY <1>1, <2>1, FS_Subset
<1>3. \A p \in W : p \in Parts /\ p \in Int /\ part_missing(p) \in Int
  BY <1>1, PartRange, PartMissingTyped
<1>4. \A p \in W : k(p) \in Int
  BY <1>3
<1>5. part_order(rarity, preview) = InOrder(W, meant)
  BY DEF part_order
<1>6. meant = sooner
  <2>1. \A x \in W \X W : x[1] \in W /\ x[2] \in W
    OBVIOUS
  <2>2. \A p \in W : key[p] = k(p) /\ lacks[p] = part_missing(p)
    OBVIOUS
  <2> HIDE DEF W, k, key, lacks
  <2> QED
    BY <2>1, <2>2
<1>7. Orders(W, sooner)
  <2>1. W \in SUBSET Int /\ key \in [W -> Int] /\ lacks \in [W -> Int]
    <3> HIDE DEF W, k
    <3> QED
      BY <1>3, <1>4
  <2> HIDE DEF W, key, lacks
  <2> QED
    BY <2>1, ByKeyOrders
<1> HIDE DEF W, sooner, meant
<1>8. /\ Cardinality(W) \in Nat /\ InOrder(W, sooner) \in [1 .. Cardinality(W) -> W]
      /\ \A p \in W : \E n \in 1 .. Cardinality(W) : InOrder(W, sooner)[n] = p
  BY <1>2, <1>7, InOrderDoes
<1> QED
  BY <1>3, <1>5, <1>6, <1>8 DEF W

\* A block that may be asked for lies in a part that lacks something.
LEMMA FreeIsWanted ==
    ASSUME Tidy(list), NEW R, NEW A, NEW x \in Free(R, A)
    PROVE  BlockPart(x) \in wanted_parts_list /\ BlockPart(x) \in A
<1> DEFINE M == UnitsOf(list)
           p == BlockPart(x)
<1>1. M \in SUBSET Units /\ M = {u \in Nat : Covers(list, u)} /\ DOMAIN list = 1 .. Len(list)
  BY TidyInside DEF Tidy
<1>2. x \in OpenBlocks(M) /\ p \in A
  BY DEF Free, Requestable
<1>3. PICK u \in x : u \in M
  BY <1>1, <1>2, OpenBlocksApart
<1>4. p \in Parts /\ u \in Units /\ PartOf(u) = p
  BY <1>1, <1>2, BlockPartIs
<1> HIDE DEF M, p
<1>5. p \in 0 .. (data_part_count - 1)
  BY <1>4, PartsNumbered
<1>6. PICK a, b : a = part_start(p) /\ b = part_end(p)
  OBVIOUS
<1>7. a \in Nat /\ b \in Nat /\ {v \in Nat : a <= v /\ v < b} = PartUnits(p)
  BY <1>5, <1>6, PartRange
<1>8. u \in Nat /\ a <= u /\ u < b
  BY <1>1, <1>3, <1>4, <1>7 DEF PartUnits
<1>9. PICK i \in 1 .. Len(list) : list[i].start <= u /\ u < list[i].end
  BY <1>1, <1>3 DEF Covers
<1>10. list[i].start \in Nat /\ list[i].end \in Nat
  <2>1. list[i] \in AnyGap
    BY DEF Tidy
  <2> QED
    BY <2>1 DEF AnyGap
<1>11. Touches(list[i], a, b)
  BY <1>7, <1>8, <1>9, <1>10 DEF Touches
<1>12. ~is_part_complete_list(p)
  BY <1>1, <1>6, <1>11 DEF is_part_complete_list
<1> QED
  BY <1>2, <1>5, <1>12 DEF p, wanted_parts_list

\* What was collected once the parts of P have had their turn: only blocks of these,
\* all of them if more was wanted, and at most one part is left half done.
Collected(O, P, free, most) ==
    /\ Got(O, free, most)
    /\ \A x \in AsUnits(O) : BlockPart(x) \in P
    /\ Cardinality(O) >= most \/ \A x \in free : BlockPart(x) \in P => x \in AsUnits(O)
    /\ \A x, y \in free \ AsUnits(O) :
          ((\E z \in AsUnits(O) : BlockPart(z) = BlockPart(x))
             /\ (\E z \in AsUnits(O) : BlockPart(z) = BlockPart(y)))
          => BlockPart(x) = BlockPart(y)

LEMMA NothingCollected ==
    ASSUME NEW free, NEW most \in Nat
    PROVE  Collected({}, {}, free, most)
<1>1. AsUnits({}) = {}
  BY DEF AsUnits
<1>2. IsFiniteSet({}) /\ Cardinality({}) = 0
  BY FS_EmptySet
<1>3. Got({}, free, most)
  BY <1>1, <1>2 DEF Got
<1> QED
  BY <1>1, <1>3 DEF Collected

\* Passing over a part without a free block, or when there is enough, changes nothing.
LEMMA PassedOver ==
    ASSUME NEW O, NEW P, NEW free, NEW most, NEW p, Collected(O, P, free, most),
           Cardinality(O) >= most \/ \A x \in free : BlockPart(x) # p
    PROVE  Collected(O, P \cup {p}, free, most)
  BY DEF Collected

\* Draining the next part keeps it so.
LEMMA DrainedNext ==
    ASSUME NEW O, NEW T, NEW P, NEW free, NEW most \in Nat, NEW p, Cardinality(O) \in Nat,
           Collected(O, P, free, most), Drained(O, T, p, free, most)
    PROVE  Collected(T, P \cup {p}, free, most)
<1>1. CASE Cardinality(O) >= most
  <2>1. T = O
    BY <1>1 DEF Drained
  <2> QED
    BY <1>1, <2>1, PassedOver
<1>2. CASE Cardinality(O) < most
  <2>1. /\ Got(T, free, most) /\ AsUnits(O) \subseteq AsUnits(T)
        /\ \A x \in AsUnits(T) : x \in AsUnits(O) \/ BlockPart(x) = p
        /\ Cardinality(T) >= most \/ \A x \in free : BlockPart(x) = p => x \in AsUnits(T)
    BY DEF Drained
  <2>2. \A x \in free : BlockPart(x) \in P => x \in AsUnits(O)
    BY <1>2 DEF Collected
  <2>3. \A x \in AsUnits(O) : BlockPart(x) \in P
    BY DEF Collected
  <2>4. \A x \in AsUnits(T) : BlockPart(x) \in P \cup {p}
    BY <2>1, <2>3
  <2>5. Cardinality(T) >= most \/ \A x \in free : BlockPart(x) \in P \cup {p} => x \in AsUnits(T)
    BY <2>1, <2>2
  <2>6. \A x \in free \ AsUnits(T) :
           (\E z \in AsUnits(T) : BlockPart(z) = BlockPart(x)) => BlockPart(x) = p
    BY <2>1, <2>2, <2>4
  <2> QED
    BY <2>1, <2>4, <2>5, <2>6 DEF Collected
<1> QED
  BY <1>1, <1>2

\* next_blocks makes a pick that the contract allows.
LEMMA NextBlocksDoes ==
    ASSUME Tidy(list), NEW A \in SUBSET Parts, NEW R \in SUBSET AnyRange, NEW most \in Nat,
           NEW rarity \in [Parts -> Nat], NEW endgame \in BOOLEAN, NEW preview \in BOOLEAN
    PROVE  IsPick(AsUnits(next_blocks(A, R, most, rarity, endgame, preview)),
                  Free(IF endgame THEN {} ELSE R, A), most)
<1> DEFINE W == wanted_parts_list
           N == Cardinality(W)
           order == part_order(rarity, preview)
           Q == IF endgame THEN {} ELSE R
           free == Free(Q, A)
           P(n) == {order[i] : i \in 1 .. n}
           Take(p, O) == IF p \notin A THEN O ELSE drain_part(p, O, Q, most)
           S == {O \in SUBSET AnyRange : Got(O, free, most)}
           step == [k \in 1 .. N |-> [O \in S |-> Take(order[k], O)]]
           F(f) == [n \in 0 .. N |->
                      IF n = 0 THEN {}
                      ELSE IF order[n] \notin A THEN f[n - 1]
                           ELSE drain_part(order[n], f[n - 1], IF endgame THEN {} ELSE R, most)]
           out == CHOOSE f : f = F(f)
<1>1. /\ N \in Nat /\ W \subseteq Parts /\ order \in [1 .. N -> W]
      /\ \A p \in W : \E n \in 1 .. N : order[n] = p
  BY PartOrderDoes
<1>2. Q \in SUBSET AnyRange
  OBVIOUS
<1> HIDE DEF Q
<1>3. \A x \in free : BlockPart(x) \in W /\ BlockPart(x) \in A
  BY FreeIsWanted
<1>4. {} \in S /\ \A O \in S : Got(O, free, most) /\ Cardinality(O) \in Nat
  BY NothingCollected, FS_CardinalityType DEF Collected, Got
<1>5. ASSUME NEW p \in A, NEW O \in S PROVE Drained(O, drain_part(p, O, Q, most), p, free, most)
  <2>1. Got(O, Free(Q, A), most)
    BY <1>4
  <2> QED
    BY <1>2, <2>1, DrainDoes
<1> HIDE DEF W, N, order, free
<1>6. ASSUME NEW p, NEW O \in S PROVE Take(p, O) \in S
  <2>1. CASE p \notin A
    BY <2>1
  <2>2. CASE p \in A
    <3>1. Got(Take(p, O), free, most)
      BY <1>5, <2>2 DEF Drained
    <3> QED
      BY <3>1 DEF Got
  <2> QED
    BY <2>1, <2>2
<1>7. PICK g \in [0 .. N -> S] : g[0] = {} /\ \A k \in 1 .. N : g[k] = step[k][g[k - 1]]
  <2>1. step \in [1 .. N -> [S -> S]]
    <3> HIDE DEF Take, S
    <3> QED
      BY <1>6
  <2>2. PICK g : Rounds(N, S, {}, step, g)
    <3> HIDE DEF step, S
    <3> QED
      BY <1>1, <1>4, <2>1, LoopRuns
  <2> QED
    BY <2>2 DEF Rounds
<1>8. \A k \in 1 .. N : g[k] = Take(order[k], g[k - 1])
  <2> SUFFICES ASSUME NEW k \in 1 .. N PROVE g[k] = Take(order[k], g[k - 1])
    OBVIOUS
  <2>1. k - 1 \in 0 .. N
    BY <1>1
  <2> HIDE DEF S, Take
  <2>2. g[k - 1] \in S
    BY <1>7, <2>1
  <2>3. step[k][g[k - 1]] = Take(order[k], g[k - 1])
    BY <2>2
  <2> QED
    BY <1>7, <2>3
<1>9. g = F(g)
  <2>1. ASSUME NEW k \in 0 .. N PROVE g[k] = F(g)[k]
    <3>1. CASE k = 0
      BY <1>7, <3>1
    <3>2. CASE k # 0
      <4>1. k \in 1 .. N
        BY <1>1, <3>2
      <4>2. g[k] = Take(order[k], g[k - 1])
        BY <1>8, <4>1
      <4> QED
        BY <3>2, <4>2 DEF Q
    <3> QED
      BY <3>1, <3>2
  <2>2. F(g) = [k \in 0 .. N |-> F(g)[k]]
    OBVIOUS
  <2> HIDE DEF F, S
  <2> QED
    BY <1>7, <2>1, <2>2
<1>10. out = F(out)
  BY <1>9
<1>11. next_blocks(A, R, most, rarity, endgame, preview) = out[N]
  BY DEF next_blocks, N, W, order
<1> HIDE DEF out
<1>12. out[0] = {} /\ \A k \in 1 .. N : out[k] = Take(order[k], out[k - 1])
  <2>1. out[0] = {}
    BY <1>1, <1>10
  <2>2. ASSUME NEW k \in 1 .. N PROVE out[k] = Take(order[k], out[k - 1])
    <3>1. k \in 0 .. N /\ k # 0
      BY <1>1
    <3> QED
      BY <1>10, <3>1 DEF Q
  <2> QED
    BY <2>1, <2>2
<1> DEFINE V(k) == out[k] \in S /\ Collected(out[k], P(k), free, most)
<1>13. V(0)
  <2>1. P(0) = {}
    OBVIOUS
  <2> HIDE DEF S, P
  <2> QED
    BY <1>4, <1>12, <2>1, NothingCollected
<1>14. ASSUME NEW k \in 1 .. N, V(k - 1) PROVE V(k)
  <2>1. PICK O, p : O = out[k - 1] /\ p = order[k]
    OBVIOUS
  <2>2. O \in S /\ Cardinality(O) \in Nat /\ Collected(O, P(k - 1), free, most)
    BY <1>4, <1>14, <2>1
  <2>3. P(k) = P(k - 1) \cup {p}
    <3>1. \A i : i \in 1 .. k <=> i \in 1 .. k - 1 \/ i = k
      BY <1>1
    <3> QED
      BY <2>1, <3>1
  <2>4. out[k] = Take(p, O)
    BY <1>12, <2>1
  <2> HIDE DEF P
  <2>5. out[k] \in S
    BY <1>6, <2>2, <2>4
  <2>6. CASE p \notin A
    <3>1. \A x \in free : BlockPart(x) # p
      BY <1>3, <2>6
    <3>2. out[k] = O
      BY <2>4, <2>6
    <3>3. Collected(O, P(k), free, most)
      <4>1. PICK B : B = P(k - 1)
        OBVIOUS
      <4>2. Collected(O, B, free, most)
        BY <2>2, <4>1
      <4>3. Collected(O, B \cup {p}, free, most)
        BY <3>1, <4>2, PassedOver
      <4> QED
        BY <2>3, <4>1, <4>3
    <3> QED
      BY <2>5, <3>2, <3>3
  <2>7. CASE p \in A
    <3>1. Drained(O, out[k], p, free, most)
      BY <1>5, <2>2, <2>4, <2>7
    <3>2. Collected(out[k], P(k), free, most)
      BY <2>2, <2>3, <3>1, DrainedNext
    <3> QED
      BY <2>5, <3>2
  <2> QED
    BY <2>6, <2>7
<1> HIDE DEF V
<1>15. V(N)
  <2> DEFINE T == {k \in 0 .. N : ~V(k)}
  <2> SUFFICES ASSUME T # {} PROVE FALSE
    BY <1>1
  <2>1. PICK x \in T : \A y \in T : x <= y
    <3>1. T \in SUBSET Nat
      BY <1>1
    <3> HIDE DEF T
    <3> QED
      BY <3>1, LeastNat
  <2>2. x # 0
    BY <1>13, <2>1
  <2>3. x \in 1 .. N /\ x - 1 \in 0 .. N /\ ~(x <= x - 1)
    BY <1>1, <2>1, <2>2
  <2>4. V(x - 1)
    BY <2>1, <2>3
  <2> QED
    BY <1>14, <2>1, <2>3, <2>4
<1>16. PICK T : T = out[N]
  OBVIOUS
<1>17. Got(T, free, most) /\ Collected(T, P(N), free, most) /\ Cardinality(T) \in Nat
  BY <1>4, <1>15, <1>16 DEF V
<1>18. \A x \in free : BlockPart(x) \in P(N)
  BY <1>1, <1>3
<1> HIDE DEF P
<1>19. /\ AsUnits(T) \subseteq free /\ Cardinality(AsUnits(T)) = Cardinality(T)
       /\ Cardinality(T) <= most
       /\ \A x \in AsUnits(T), y \in free :
             BlockPart(x) = BlockPart(y) /\ Precedes(y, x) => y \in AsUnits(T)
  BY <1>17 DEF Got
<1>20. Cardinality(T) < most => AsUnits(T) = free
  <2> SUFFICES ASSUME Cardinality(T) < most PROVE AsUnits(T) = free
    OBVIOUS
  <2>1. ~(Cardinality(T) >= most)
    BY <1>17
  <2>2. \A x \in free : BlockPart(x) \in P(N) => x \in AsUnits(T)
    BY <1>17, <2>1 DEF Collected
  <2> QED
    BY <1>18, <1>19, <2>2
<1>21. \A x, y \in free \ AsUnits(T) :
          ((\E z \in AsUnits(T) : BlockPart(z) = BlockPart(x))
             /\ (\E z \in AsUnits(T) : BlockPart(z) = BlockPart(y)))
          => BlockPart(x) = BlockPart(y)
  BY <1>17 DEF Collected
<1>22. IsPick(AsUnits(T), free, most)
  BY <1>19, <1>20, <1>21 DEF IsPick
<1> QED
  BY <1>11, <1>16, <1>22 DEF free, Q

\* A tidy list makes the allocator keep its contract.
LEMMA TidyAllocates == ListInv => AllocatorMeetsContract
<1> SUFFICES ASSUME ListInv, NEW A \in SUBSET Parts, NEW R \in Reservations, NEW most \in Limits,
                    NEW rarity \in [Parts -> Rarities], NEW endgame \in BOOLEAN, NEW preview \in BOOLEAN
             PROVE  IsPick(AsUnits(next_blocks(A, R, most, rarity, endgame, preview)),
                           Requestable(UnitsOf(list), IF endgame THEN {} ELSE AsUnits(R), A), most)
  BY DEF AllocatorMeetsContract
<1>0. R \in SUBSET AnyRange /\ most \in Nat /\ rarity \in [Parts -> Nat]
  BY PartFileAssumption
<1>1. IsPick(AsUnits(next_blocks(A, R, most, rarity, endgame, preview)),
             Free(IF endgame THEN {} ELSE R, A), most)
  BY <1>0, NextBlocksDoes DEF ListInv
<1>2. AsUnits(IF endgame THEN {} ELSE R) = IF endgame THEN {} ELSE AsUnits(R)
  BY DEF AsUnits
<1>3. Free(IF endgame THEN {} ELSE R, A)
        = Requestable(UnitsOf(list), IF endgame THEN {} ELSE AsUnits(R), A)
  BY <1>2 DEF Free
<1> QED
  BY <1>1, <1>3

\* next_blocks makes a pick that the contract allows, from every list the download
\* can reach: only missing blocks of parts the source holds, none reserved unless in
\* endgame, within one cell, first blocks first, part after part, and never fewer
\* than there are (next_blocks, next_block_in_part).
THEOREM AllocatorKeepsContract == ListSpec => []AllocatorMeetsContract
  BY ListAlways, TidyAllocates, PTL
=============================================================================
