-------------------------- MODULE PartStore_proofs --------------------------
(* Proofs about module PartStore, for any downloads, indices and kills. *)
EXTENDS PartStore, WellFoundedInduction, TLAPS

\* A non-empty set of naturals has a least element: the induction the lemmas
\* about Max rest on.
LEMMA LeastNat ==
    ASSUME NEW T \in SUBSET Nat, T # {}
    PROVE  \E x \in T : \A y \in T : x <= y
<1>1. PICK x \in T : \A y \in T : ~(<<y, x>> \in OpToRel(<, Nat))
  BY NatLessThanWellFounded, WFMin
<1>2. \A y \in T : ~(y < x)
  BY <1>1 DEF OpToRel
<1> QED
  BY <1>2

\* The greatest index that resume_downloads keeps is one of those it found.
LEMMA MaxIsMember ==
    ASSUME NEW S \in SUBSET Indices, S # {}
    PROVE  Max(S) \in S
<1> DEFINE T == {k \in Nat : MaxIndex - k \in S}
<1>0. MaxIndex \in Nat
  BY StoreAssumption
<1>1. T # {}
  <2>1. PICK x \in S : TRUE
    OBVIOUS
  <2>2. MaxIndex - x \in Nat /\ MaxIndex - (MaxIndex - x) = x
    BY <1>0, <2>1 DEF Indices
  <2> QED
    BY <2>1, <2>2
<1>2. PICK t \in T : \A u \in T : t <= u
  BY <1>1, LeastNat
<1>3. \A y \in S : MaxIndex - t >= y
  <2> SUFFICES ASSUME NEW y \in S PROVE MaxIndex - t >= y
    OBVIOUS
  <2>1. y \in Nat /\ MaxIndex - y \in Nat /\ MaxIndex - (MaxIndex - y) = y
    BY <1>0 DEF Indices
  <2>2. t <= MaxIndex - y
    BY <1>2, <2>1
  <2> QED
    BY <1>0, <2>1, <2>2
<1>4. MaxIndex - t \in S
  BY <1>2
<1> QED
  BY <1>3, <1>4 DEF Max

-----------------------------------------------------------------------------
(* The inductive invariant *)

\* A download has an index from its creation on, and only then makes calls.
SlotsAssigned ==
    \A d \in Downloads :
        /\ state[d] = "new" <=> slot[d] = 0
        /\ state[d] = "new" => saved[d] = NeverSaved
        /\ step[d] \in {"tmp", "bak", "install"} => state[d] \in {"active", "moved", "cancelled"}
        /\ step[d] = "unlink" => state[d] \in {"moved", "cancelled"}

\* The files of an index were written by downloads that have that index.
FilesAtHome ==
    \A i \in Indices :
        /\ live[i] # None => slot[live[i].of] = i
        /\ bak[i] # None => slot[bak[i].of] = i
        /\ tmp[i] # None => slot[tmp[i].of] = i

\* A save under way works on what the download has in memory, which is never
\* behind the last finished save.
SaveIsCurrent ==
    \A d \in Downloads : sole(d) =>
        /\ step[d] \in {"bak", "install"} => tmp[slot[d]] = [of |-> d, n |-> n[d]]
        /\ state[d] = "active" /\ saved[d] # NeverSaved => n[d] >= saved[d]

\* The .part is removed first, so a met that stays behind has none beside it.
GoneHasNoPart ==
    \A d \in Downloads :
        sole(d) /\ state[d] \in {"moved", "cancelled"} => part[slot[d]] = Nobody

ProgressKept ==
    \A d \in Downloads :
        state[d] \in {"active", "lost"} /\ saved[d] # NeverSaved /\ sole(d) =>
            met_at(slot[d]).of = d /\ met_at(slot[d]).n >= saved[d]

StoreInv == TypeOK /\ SlotsAssigned /\ FilesAtHome /\ SaveIsCurrent /\ GoneHasNoPart /\ ProgressKept

\* None is no met and Nobody no download.
LEMMA NoneIsNoMet == None \notin Mets /\ Nobody \notin Downloads
BY StoreAssumption DEF None, Mets, Nobody

\* Under its own lock a download works on its own index; while that is the only
\* download that has the index, the calls of others are made elsewhere.
LEMMA OthersElsewhere ==
    ASSUME NEW d \in Downloads, NEW e \in Downloads, sole(d), e # d
    PROVE  slot[e] # slot[d]
BY DEF sole

\* A download makes calls only once it has an index.
LEMMA CallsHaveIndex ==
    ASSUME StoreInv, NEW d \in Downloads, state[d] # "new"
    PROVE  slot[d] \in Indices
<1>1. slot[d] \in 0 .. MaxIndex /\ slot[d] # 0 /\ MaxIndex \in Nat
  BY StoreAssumption DEF StoreInv, TypeOK, SlotsAssigned
<1> QED
  BY <1>1 DEF Indices

\* A block is received (commit).
LEMMA CommitKeeps ==
    ASSUME StoreInv, NEW d \in Downloads, Commit(d)
    PROVE  StoreInv'
<1> USE DEF StoreInv
<1>0. slot[d] \in Indices /\ state[d] # "new"
  BY CallsHaveIndex DEF SlotsAssigned, Commit
<1>1. TypeOK'
  BY <1>0, StoreAssumption DEF TypeOK, Commit
<1>2. SlotsAssigned'
  BY <1>0 DEF TypeOK, SlotsAssigned, Commit
<1>3. FilesAtHome'
  BY <1>0 DEF TypeOK, FilesAtHome, Commit
<1>4. SaveIsCurrent'
  BY <1>0, OthersElsewhere DEF TypeOK, SaveIsCurrent, sole, Commit
<1>5. GoneHasNoPart'
  BY <1>0, OthersElsewhere DEF TypeOK, GoneHasNoPart, sole, Commit
<1>6. ProgressKept'
  BY <1>0, OthersElsewhere DEF TypeOK, ProgressKept, SaveIsCurrent, FilesAtHome, SlotsAssigned, sole, met_at, Commit
<1> QED
  BY <1>1, <1>2, <1>3, <1>4, <1>5, <1>6

\* A save begins (set_paused, the checkpoint, a late holder).
LEMMA SaveKeeps ==
    ASSUME StoreInv, NEW d \in Downloads, Save(d)
    PROVE  StoreInv'
<1> USE DEF StoreInv
<1>0. slot[d] \in Indices /\ state[d] # "new"
  BY CallsHaveIndex DEF SlotsAssigned, Save
<1>1. TypeOK'
  BY <1>0, NoneIsNoMet DEF TypeOK, Mets, Save
<1>2. SlotsAssigned'
  BY <1>0 DEF TypeOK, SlotsAssigned, Save
<1>3. FilesAtHome'
  BY <1>0 DEF TypeOK, FilesAtHome, Save
<1>4. SaveIsCurrent'
  BY <1>0, OthersElsewhere DEF TypeOK, SaveIsCurrent, sole, Save
<1>5. GoneHasNoPart'
  BY <1>0, OthersElsewhere DEF TypeOK, GoneHasNoPart, sole, Save
<1>6. ProgressKept'
  BY <1>0, OthersElsewhere DEF TypeOK, ProgressKept, SaveIsCurrent, FilesAtHome, SlotsAssigned, sole, met_at, Save
<1> QED
  BY <1>1, <1>2, <1>3, <1>4, <1>5, <1>6

\* save_met's first call.
LEMMA WriteTmpKeeps ==
    ASSUME StoreInv, NEW d \in Downloads, WriteTmp(d)
    PROVE  StoreInv'
<1> USE DEF StoreInv
<1>0. slot[d] \in Indices /\ state[d] # "new"
  BY CallsHaveIndex DEF SlotsAssigned, WriteTmp
<1>1. TypeOK'
  BY <1>0, NoneIsNoMet DEF TypeOK, Mets, WriteTmp
<1>2. SlotsAssigned'
  BY <1>0 DEF TypeOK, SlotsAssigned, WriteTmp
<1>3. FilesAtHome'
  BY <1>0 DEF TypeOK, FilesAtHome, WriteTmp
<1>4. SaveIsCurrent'
  BY <1>0, OthersElsewhere DEF TypeOK, SaveIsCurrent, sole, WriteTmp
<1>5. GoneHasNoPart'
  BY <1>0, OthersElsewhere DEF TypeOK, GoneHasNoPart, sole, WriteTmp
<1>6. ProgressKept'
  BY <1>0, OthersElsewhere DEF TypeOK, ProgressKept, SaveIsCurrent, FilesAtHome, SlotsAssigned, sole, met_at, WriteTmp
<1> QED
  BY <1>1, <1>2, <1>3, <1>4, <1>5, <1>6

\* Its second call: the live met moves to .bak, where open still finds it.
LEMMA RenameToBakKeeps ==
    ASSUME StoreInv, NEW d \in Downloads, RenameToBak(d)
    PROVE  StoreInv'
<1> USE DEF StoreInv
<1>0. slot[d] \in Indices /\ state[d] # "new"
  BY CallsHaveIndex DEF SlotsAssigned, RenameToBak
<1>1. TypeOK'
  BY <1>0, NoneIsNoMet DEF TypeOK, Mets, RenameToBak
<1>2. SlotsAssigned'
  BY <1>0 DEF TypeOK, SlotsAssigned, RenameToBak
<1>3. FilesAtHome'
  BY <1>0 DEF TypeOK, FilesAtHome, RenameToBak
<1>4. SaveIsCurrent'
  BY <1>0, OthersElsewhere DEF TypeOK, SaveIsCurrent, sole, RenameToBak
<1>5. GoneHasNoPart'
  BY <1>0, OthersElsewhere DEF TypeOK, GoneHasNoPart, sole, RenameToBak
<1>6. ProgressKept'
  <2> SUFFICES ASSUME NEW e \in Downloads, sole(e)', state'[e] \in {"active", "lost"},
                      saved'[e] # NeverSaved
               PROVE  met_at(slot[e])'.of = e /\ met_at(slot[e])'.n >= saved'[e]
    BY DEF ProgressKept, RenameToBak
  <2>1. sole(e) /\ slot[e] \in Indices /\ saved[e] # NeverSaved
    BY CallsHaveIndex DEF sole, RenameToBak
  <2>2. met_at(slot[e]).of = e /\ met_at(slot[e]).n >= saved[e]
    BY <2>1 DEF ProgressKept, RenameToBak
  <2>3. met_at(slot[e])' = met_at(slot[e])
    BY <1>0, <2>1, OthersElsewhere DEF TypeOK, met_at, RenameToBak
  <2> QED
    BY <2>2, <2>3 DEF RenameToBak
<1> QED
  BY <1>1, <1>2, <1>3, <1>4, <1>5, <1>6

\* Its third call.
LEMMA InstallKeeps ==
    ASSUME StoreInv, NEW d \in Downloads, Install(d)
    PROVE  StoreInv'
<1> USE DEF StoreInv
<1>0. slot[d] \in Indices /\ state[d] # "new"
  BY CallsHaveIndex DEF SlotsAssigned, Install
<1>1. TypeOK'
  <2>1. tmp[slot[d]] # None => tmp[slot[d]].n \in 0 .. NeverSaved
    BY <1>0, StoreAssumption DEF TypeOK, Mets, NeverSaved
  <2> QED
    BY <1>0, <2>1 DEF TypeOK, Install
<1>2. SlotsAssigned'
  BY <1>0 DEF TypeOK, SlotsAssigned, Install
<1>3. FilesAtHome'
  BY <1>0 DEF TypeOK, FilesAtHome, Install
<1>4. SaveIsCurrent'
  BY <1>0, OthersElsewhere DEF TypeOK, SaveIsCurrent, sole, Install
<1>5. GoneHasNoPart'
  BY <1>0, OthersElsewhere DEF TypeOK, GoneHasNoPart, sole, Install
<1>6. ProgressKept'
  <2> SUFFICES ASSUME NEW e \in Downloads, sole(e)', state'[e] \in {"active", "lost"},
                      saved'[e] # NeverSaved
               PROVE  met_at(slot[e])'.of = e /\ met_at(slot[e])'.n >= saved'[e]
    BY DEF ProgressKept, Install
  <2>1. sole(e) /\ slot[e] \in Indices
    BY CallsHaveIndex DEF sole, Install
  <2>2. CASE e = d
    <3>1. tmp[slot[d]] = [of |-> d, n |-> n[d]] /\ tmp[slot[d]] # None
      BY <1>0, <2>1, <2>2, StoreAssumption DEF SaveIsCurrent, Install, None
    <3>2. live'[slot[d]] = tmp[slot[d]] /\ saved'[d] = n[d] /\ slot' = slot
      BY <1>0, <3>1 DEF TypeOK, Install
    <3> QED
      BY <2>2, <3>1, <3>2 DEF TypeOK, met_at
  <2>3. CASE e # d
    <3>1. saved'[e] = saved[e] /\ state'[e] = state[e] /\ met_at(slot[e])' = met_at(slot[e])
      BY <1>0, <2>1, <2>3, OthersElsewhere DEF TypeOK, met_at, Install
    <3> QED
      BY <2>1, <3>1 DEF ProgressKept
  <2> QED
    BY <2>2, <2>3
<1> QED
  BY <1>1, <1>2, <1>3, <1>4, <1>5, <1>6

\* A download is created: its index may be another one's, which is then not its own.
LEMMA CreateKeeps ==
    ASSUME StoreInv, NEW d \in Downloads, Create(d)
    PROVE  StoreInv'
<1> USE DEF StoreInv
<1> DEFINE i == next_part_index
<1>0. /\ i \in Indices /\ 0 \notin Indices /\ slot[d] = 0
      /\ slot' = [slot EXCEPT ![d] = i]
  BY DEF SlotsAssigned, Create, Indices
<1>a. Indices \subseteq 0 .. MaxIndex
  BY DEF Indices
<1>b. ASSUME NEW e \in Downloads, e # d, sole(e)'
      PROVE  \/ slot[e] # i /\ slot'[e] = slot[e] /\ sole(e)
             \/ slot[e] = 0
  BY <1>0, <1>b DEF TypeOK, sole
<1> HIDE DEF i
<1>1. TypeOK'
  BY <1>0, <1>a DEF TypeOK, Create, i
<1>2. SlotsAssigned'
  BY <1>0 DEF TypeOK, SlotsAssigned, Create
<1>3. FilesAtHome'
  <2>1. \A j \in Indices : /\ live[j] # None => live[j].of \in Downloads \ {d}
                           /\ bak[j] # None => bak[j].of \in Downloads \ {d}
                           /\ tmp[j] # None => tmp[j].of \in Downloads \ {d}
    BY <1>0 DEF TypeOK, Mets, FilesAtHome
  <2> QED
    BY <1>0, <2>1 DEF TypeOK, FilesAtHome, Create
<1>4. SaveIsCurrent'
  BY <1>0, <1>b DEF TypeOK, SaveIsCurrent, SlotsAssigned, Create
<1>5. GoneHasNoPart'
  BY <1>0, <1>b DEF TypeOK, GoneHasNoPart, SlotsAssigned, Create, i
<1>6. ProgressKept'
  BY <1>0, <1>b DEF TypeOK, ProgressKept, SlotsAssigned, met_at, Create
<1> QED
  BY <1>1, <1>2, <1>3, <1>4, <1>5, <1>6

\* The .part goes (finish_in_place, remove_backing_files).
LEMMA DropPartKeeps ==
    ASSUME StoreInv, NEW d \in Downloads, NEW how \in {"moved", "cancelled"}, DropPart(d, how)
    PROVE  StoreInv'
<1> USE DEF StoreInv
<1>0. slot[d] \in Indices /\ state[d] # "new"
  BY CallsHaveIndex DEF DropPart
<1>1. TypeOK'
  BY <1>0 DEF TypeOK, DropPart
<1>2. SlotsAssigned'
  BY <1>0 DEF TypeOK, SlotsAssigned, DropPart
<1>3. FilesAtHome'
  BY <1>0 DEF TypeOK, FilesAtHome, DropPart
<1>4. SaveIsCurrent'
  BY <1>0 DEF TypeOK, SaveIsCurrent, sole, DropPart
<1>5. GoneHasNoPart'
  BY <1>0, OthersElsewhere DEF TypeOK, GoneHasNoPart, sole, DropPart
<1>6. ProgressKept'
  BY <1>0 DEF TypeOK, ProgressKept, sole, met_at, DropPart
<1> QED
  BY <1>1, <1>2, <1>3, <1>4, <1>5, <1>6

\* The met goes; only a download that is finished or cancelled removes it.
LEMMA RemoveMetKeeps ==
    ASSUME StoreInv, NEW d \in Downloads, RemoveMet(d)
    PROVE  StoreInv'
<1> USE DEF StoreInv
<1>0. slot[d] \in Indices /\ state[d] \in {"moved", "cancelled"}
  BY CallsHaveIndex DEF SlotsAssigned, RemoveMet
<1>1. TypeOK'
  BY <1>0 DEF TypeOK, RemoveMet
<1>2. SlotsAssigned'
  BY <1>0 DEF TypeOK, SlotsAssigned, RemoveMet
<1>3. FilesAtHome'
  BY <1>0 DEF TypeOK, FilesAtHome, RemoveMet
<1>4. SaveIsCurrent'
  BY <1>0 DEF TypeOK, SaveIsCurrent, sole, RemoveMet
<1>5. GoneHasNoPart'
  BY <1>0 DEF TypeOK, GoneHasNoPart, sole, RemoveMet
<1>6. ProgressKept'
  <2> SUFFICES ASSUME NEW e \in Downloads, sole(e)', state'[e] \in {"active", "lost"},
                      saved'[e] # NeverSaved
               PROVE  met_at(slot[e])'.of = e /\ met_at(slot[e])'.n >= saved'[e]
    BY DEF ProgressKept, RemoveMet
  <2>1. sole(e) /\ e # d /\ slot[e] \in Indices
    BY <1>0, CallsHaveIndex DEF sole, RemoveMet
  <2>2. met_at(slot[e])' = met_at(slot[e]) /\ saved' = saved /\ state' = state
    BY <1>0, <2>1, OthersElsewhere DEF TypeOK, met_at, RemoveMet
  <2> QED
    BY <2>1, <2>2 DEF ProgressKept
<1> QED
  BY <1>1, <1>2, <1>3, <1>4, <1>5, <1>6

-----------------------------------------------------------------------------
(* The next start *)

\* What a start resumes of d is at d's own index: a restart moves nobody, and
\* continues from what the live met records.
LEMMA RestartStaysHome ==
    ASSUME StoreInv, KillAndRestart, NEW d \in Downloads
    PROVE  /\ slot'[d] = slot[d]
           /\ \/ /\ state'[d] = "active" /\ step'[d] = "idle"
                 /\ slot[d] \in Indices
                 /\ live[slot[d]] # None /\ live[slot[d]].of = d
                 /\ part[slot[d]] # Nobody
                 /\ n'[d] = live[slot[d]].n
              \/ /\ state'[d] = IF state[d] = "active" THEN "lost" ELSE state[d]
                 /\ step'[d] = "dead" /\ n'[d] = n[d]
<1> USE DEF StoreInv
<1> DEFINE back == {i \in Indices : resumable(i) /\ met_at(i).of = d}
<1>1. CASE back = {}
  BY <1>1 DEF TypeOK, KillAndRestart
<1>2. CASE back # {}
  <2>1. Max(back) \in back
    BY <1>2, MaxIsMember
  <2>2. /\ Max(back) \in Indices /\ live[Max(back)] # None
        /\ part[Max(back)] # Nobody
        /\ met_at(Max(back)) = live[Max(back)] /\ live[Max(back)].of = d
    BY <2>1 DEF resumable, met_at
  <2>3. Max(back) = slot[d]
    BY <2>2 DEF FilesAtHome
  <2>4. state'[d] = "active" /\ slot'[d] = Max(back) /\ n'[d] = met_at(Max(back)).n
    BY <1>2 DEF KillAndRestart
  <2>5. step'[d] = "idle"
    BY <2>4 DEF KillAndRestart
  <2> QED
    BY <2>2, <2>3, <2>4, <2>5
<1> QED
  BY <1>1, <1>2

\* A kill between any two calls and the next start.
LEMMA KillKeeps ==
    ASSUME StoreInv, KillAndRestart
    PROVE  StoreInv'
<1> USE DEF StoreInv
<1>0. /\ UNCHANGED <<live, bak, tmp, part, saved>> /\ kills' \in 0 .. MaxKills
      /\ slot' = slot
  <2>1. slot' = [d \in Downloads |-> slot'[d]]
    BY DEF KillAndRestart
  <2>2. slot' = slot
    BY <2>1, RestartStaysHome DEF TypeOK
  <2> QED
    BY <2>2, StoreAssumption DEF KillAndRestart, TypeOK
<1>1. TypeOK'
  <2>1. \A d \in Downloads :
          /\ state'[d] \in {"new", "active", "moved", "cancelled", "lost"}
          /\ step'[d] \in {"idle", "tmp", "bak", "install", "unlink", "dead"}
          /\ n'[d] \in 0 .. MaxProgress
    BY RestartStaysHome DEF TypeOK, Mets
  <2>2. state' \in [Downloads -> {"new", "active", "moved", "cancelled", "lost"}]
    BY <2>1 DEF KillAndRestart
  <2>3. n' \in [Downloads -> 0 .. MaxProgress]
    BY <2>1 DEF KillAndRestart
  <2>4. step' \in [Downloads -> {"idle", "tmp", "bak", "install", "unlink", "dead"}]
    BY <2>1 DEF KillAndRestart
  <2> QED
    BY <1>0, <2>2, <2>3, <2>4 DEF TypeOK
<1>2. SlotsAssigned'
  <2> SUFFICES ASSUME NEW d \in Downloads
               PROVE  /\ state'[d] = "new" <=> slot'[d] = 0
                      /\ state'[d] = "new" => saved'[d] = NeverSaved
                      /\ step'[d] \in {"idle", "dead"}
    BY DEF SlotsAssigned
  <2> QED
    BY <1>0, RestartStaysHome DEF SlotsAssigned, TypeOK, Indices
<1>3. FilesAtHome'
  BY <1>0 DEF FilesAtHome
<1>4. SaveIsCurrent'
  <2> SUFFICES ASSUME NEW d \in Downloads, sole(d)'
               PROVE  /\ step'[d] \in {"idle", "dead"}
                      /\ state'[d] = "active" /\ saved'[d] # NeverSaved => n'[d] >= saved'[d]
    BY DEF SaveIsCurrent
  <2>1. sole(d)
    BY <1>0 DEF sole
  <2>2. CASE state'[d] = "active"
    <3>1. /\ slot[d] \in Indices /\ live[slot[d]] # None /\ part[slot[d]] # Nobody
          /\ n'[d] = live[slot[d]].n /\ step'[d] = "idle"
      BY <2>2, RestartStaysHome
    <3>2. state[d] \in {"active", "lost"}
      BY <2>1, <3>1 DEF TypeOK, SlotsAssigned, GoneHasNoPart, Indices
    <3>3. saved[d] # NeverSaved => live[slot[d]].n >= saved[d]
      BY <2>1, <3>1, <3>2 DEF ProgressKept, met_at
    <3> QED
      BY <1>0, <3>1, <3>3
  <2>3. CASE state'[d] # "active"
    BY <2>3, RestartStaysHome
  <2> QED
    BY <2>2, <2>3
<1>5. GoneHasNoPart'
  <2> SUFFICES ASSUME NEW d \in Downloads, sole(d)', state'[d] \in {"moved", "cancelled"}
               PROVE  part'[slot'[d]] = Nobody
    BY DEF GoneHasNoPart
  <2>1. sole(d) /\ state[d] = state'[d]
    BY <1>0, RestartStaysHome DEF sole
  <2> QED
    BY <1>0, <2>1 DEF GoneHasNoPart
<1>6. ProgressKept'
  <2> SUFFICES ASSUME NEW d \in Downloads, sole(d)', state'[d] \in {"active", "lost"},
                      saved'[d] # NeverSaved
               PROVE  met_at(slot[d]).of = d /\ met_at(slot[d]).n >= saved[d]
    BY <1>0 DEF ProgressKept, met_at
  <2>1. sole(d)
    BY <1>0 DEF sole
  <2>2. state[d] \in {"active", "lost"}
    <3>1. CASE state'[d] = "active"
      <4>1. slot[d] \in Indices /\ part[slot[d]] # Nobody
        BY <3>1, RestartStaysHome
      <4> QED
        BY <2>1, <4>1 DEF TypeOK, SlotsAssigned, GoneHasNoPart, Indices
    <3>2. CASE state'[d] = "lost"
      BY <3>2, RestartStaysHome
    <3> QED
      BY <3>1, <3>2
  <2> QED
    BY <1>0, <2>1, <2>2 DEF ProgressKept
<1> QED
  BY <1>1, <1>2, <1>3, <1>4, <1>5, <1>6

-----------------------------------------------------------------------------
\* An empty directory.
LEMMA StoreInit == Init => StoreInv
<1> SUFFICES ASSUME Init PROVE StoreInv
  OBVIOUS
<1>1. TypeOK
  BY StoreAssumption DEF Init, TypeOK, NeverSaved
<1>2. SlotsAssigned /\ SaveIsCurrent /\ GoneHasNoPart /\ ProgressKept
  BY DEF Init, SlotsAssigned, SaveIsCurrent, GoneHasNoPart, ProgressKept
<1>3. FilesAtHome
  BY DEF Init, FilesAtHome
<1> QED
  BY <1>1, <1>2, <1>3 DEF StoreInv

\* One case per call, command and restart.
LEMMA StoreStep == StoreInv /\ [Next]_vars => StoreInv'
<1> SUFFICES ASSUME StoreInv, [Next]_vars PROVE StoreInv'
  OBVIOUS
<1>1. CASE UNCHANGED vars
  BY <1>1 DEF vars, StoreInv, TypeOK, SlotsAssigned, FilesAtHome, SaveIsCurrent,
              GoneHasNoPart, ProgressKept, sole, met_at
<1>2. ASSUME NEW d \in Downloads, FinishInPlace(d) \/ RemoveBackingFiles(d)
      PROVE  StoreInv'
  BY <1>2, DropPartKeeps DEF FinishInPlace, RemoveBackingFiles
<1> QED
  BY <1>1, <1>2, CreateKeeps, CommitKeeps, SaveKeeps, WriteTmpKeeps, RenameToBakKeeps,
     InstallKeeps, RemoveMetKeeps, KillKeeps DEF Next

\* Hence the invariant holds throughout.
LEMMA StoreAlways == Spec => []StoreInv
BY StoreInit, StoreStep, PTL DEF Spec

\* For any number of downloads, indices and kills, at every moment, between the
\* two renames too, the directory holds a met with at least the progress of the
\* last finished save of a download that has its index to itself (save_met, open).
THEOREM FinishedSavesAreKept == Spec => []SavedProgressIsKept
<1>1. StoreInv => SavedProgressIsKept
  BY DEF StoreInv, ProgressKept, SavedProgressIsKept
<1> QED
  BY <1>1, StoreAlways, PTL

\* No restart brings back what was finished or cancelled: the .part is dropped
\* before the met, so a met that a late save or a kill leaves behind is not
\* resumed (finish_in_place, remove_backing_files, resume_downloads).
THEOREM GoneIsForGood == Spec => GoneStaysGone
<1>1. StoreInv /\ [Next]_vars =>
        [\A d \in Downloads :
           state[d] \in {"moved", "cancelled"} /\ sole(d) => state'[d] = state[d]]_vars
  <2> SUFFICES ASSUME StoreInv, [Next]_vars, NEW d \in Downloads,
                      state[d] \in {"moved", "cancelled"}, sole(d)
               PROVE  state'[d] = state[d]
    OBVIOUS
  <2>1. CASE KillAndRestart
    BY <2>1, RestartStaysHome DEF StoreInv, GoneHasNoPart
  <2>2. ASSUME NEW e \in Downloads,
               Create(e) \/ FinishInPlace(e) \/ RemoveBackingFiles(e)
        PROVE  state'[d] = state[d]
    BY <2>2 DEF Create, FinishInPlace, RemoveBackingFiles, DropPart, StoreInv, TypeOK
  <2>3. ASSUME NEW e \in Downloads,
               \/ Commit(e) \/ Save(e) \/ WriteTmp(e)
               \/ RenameToBak(e) \/ Install(e) \/ RemoveMet(e)
        PROVE  state'[d] = state[d]
    BY <2>3 DEF Commit, Save, WriteTmp, RenameToBak, Install, RemoveMet
  <2> QED
    BY <2>1, <2>2, <2>3 DEF Next, vars
<1> QED
  BY <1>1, StoreAlways, PTL DEF Spec, GoneStaysGone
=============================================================================
