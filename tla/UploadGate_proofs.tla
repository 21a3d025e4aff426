-------------------------- MODULE UploadGate_proofs --------------------------
(* Proofs about module UploadGate, for any connections, slots and queue. *)
EXTENDS UploadGate, FiniteSetTheorems, TLAPS

Holders == {c \in Conns : pc[c] \in Holding}

SlotInv ==
    /\ slots_free \in Nat
    /\ pc \in [Conns -> PCs]
    /\ SlotsConserved

\* The holders' count follows one connection that gets or gives up its permit.
LEMMA HoldersFinite == IsFiniteSet(Holders) /\ Cardinality(Holders) \in Nat
<1>1. Holders \subseteq Conns
  BY DEF Holders
<1>2. IsFiniteSet(Conns)
  BY GateAssumption
<1> QED
  BY <1>1, <1>2, FS_Subset, FS_CardinalityType

\* A connection that enters Holding takes the count up by one (try_grant and
\* QueueWaiter::granted).
LEMMA HolderGained ==
    ASSUME NEW c \in Conns, pc \in [Conns -> PCs], pc[c] \notin Holding,
           NEW w \in Holding, goto(c, w)
    PROVE  Cardinality(Holders') = Cardinality(Holders) + 1
<1>1. Holders' = Holders \cup {c} /\ c \notin Holders
  BY DEF Holders, goto
<1> QED
  BY <1>1, HoldersFinite, FS_AddElement

\* One that leaves Holding takes it down by one (SlotGuard::drop).
LEMMA HolderLost ==
    ASSUME NEW c \in Conns, pc \in [Conns -> PCs], pc[c] \in Holding,
           NEW w \in PCs \ Holding, goto(c, w)
    PROVE  Cardinality(Holders') = Cardinality(Holders) - 1
<1>1. Holders' = Holders \ {c} /\ c \in Holders
  BY DEF Holders, goto
<1> QED
  BY <1>1, HoldersFinite, FS_RemoveElement

\* And one that moves within Holding, or outside it, leaves the count alone.
LEMMA HolderSame ==
    ASSUME NEW c \in Conns, pc \in [Conns -> PCs],
           NEW w \in PCs, pc[c] \in Holding <=> w \in Holding, goto(c, w)
    PROVE  Cardinality(Holders') = Cardinality(Holders)
<1>1. Holders' = Holders
  BY DEF Holders, goto
<1> QED
  BY <1>1

\* No step of any connection leaks a slot or frees it twice.
LEMMA SlotStep == SlotInv /\ [Next]_vars => SlotInv'
<1> SUFFICES ASSUME SlotInv, [Next]_vars PROVE SlotInv'
  OBVIOUS
<1> DEFINE H == Cardinality(Holders)
<1>0. /\ slots_free \in Nat /\ pc \in [Conns -> PCs] /\ slots_free + H = Slots
      /\ H \in Nat
  BY HoldersFinite DEF SlotInv, SlotsConserved, Holders
<1>a. SUFFICES /\ slots_free' \in Nat /\ pc' \in [Conns -> PCs]
               /\ slots_free' + H' = Slots
  BY DEF SlotInv, SlotsConserved, Holders
<1>1. CASE UNCHANGED vars
  BY <1>0, <1>1 DEF vars, gateVars, Holders
<1>2. ASSUME NEW c \in Conns, Accept(c)
      PROVE  /\ slots_free' \in Nat /\ pc' \in [Conns -> PCs] /\ slots_free' + H' = Slots
  <2>1. H' = H
    BY <1>0, <1>2, HolderSame DEF Accept, PCs, Holding
  <2> QED
    BY <1>0, <1>2, <2>1 DEF Accept, gateVars, goto, PCs
<1>3. ASSUME NEW c \in Conns, NEW f \in Files, NameFile(c, f)
      PROVE  /\ slots_free' \in Nat /\ pc' \in [Conns -> PCs] /\ slots_free' + H' = Slots
  BY <1>0, <1>3 DEF NameFile, gateVars, Holders
<1>4. ASSUME NEW c \in Conns, StartUploadReq(c)
      PROVE  /\ slots_free' \in Nat /\ pc' \in [Conns -> PCs] /\ slots_free' + H' = Slots
  <2>1. CASE try_grant /\ slots_free' = slots_free - 1 /\ goto(c, "slot")
    <3>1. H' = H + 1
      BY <1>0, <1>4, <2>1, HolderGained DEF StartUploadReq, Holding
    <3> QED
      BY <1>0, <2>1, <3>1 DEF try_grant, goto, PCs
  <2>2. CASE goto(c, "enqueue") /\ UNCHANGED slots_free
    <3>1. H' = H
      BY <1>0, <1>4, <2>2, HolderSame DEF StartUploadReq, PCs, Holding
    <3> QED
      BY <1>0, <2>2, <3>1 DEF goto, PCs
  <2> QED
    BY <1>4, <2>1, <2>2 DEF StartUploadReq
<1>5. ASSUME NEW c \in Conns, Enqueue(c)
      PROVE  /\ slots_free' \in Nat /\ pc' \in [Conns -> PCs] /\ slots_free' + H' = Slots
  <2>1. PICK w \in {"leave", "ranked"} : goto(c, w)
    BY <1>5 DEF Enqueue
  <2>2. H' = H
    BY <1>0, <1>5, <2>1, HolderSame DEF Enqueue, PCs, Holding
  <2> QED
    BY <1>0, <1>5, <2>1, <2>2 DEF Enqueue, goto, PCs
<1>6. ASSUME NEW c \in Conns, Arm(c)
      PROVE  /\ slots_free' \in Nat /\ pc' \in [Conns -> PCs] /\ slots_free' + H' = Slots
  <2>1. H' = H
    BY <1>0, <1>6, HolderSame DEF Arm, PCs, Holding
  <2> QED
    BY <1>0, <1>6, <2>1 DEF Arm, gateVars, goto, PCs
<1>7. ASSUME NEW c \in Conns, Check(c)
      PROVE  /\ slots_free' \in Nat /\ pc' \in [Conns -> PCs] /\ slots_free' + H' = Slots
  <2>1. CASE slots_free > 0 /\ slots_free' = slots_free - 1 /\ goto(c, "slot")
    <3>1. H' = H + 1
      BY <1>0, <1>7, <2>1, HolderGained DEF Check, Holding
    <3> QED
      BY <1>0, <2>1, <3>1 DEF goto, PCs
  <2>2. CASE goto(c, "parked") /\ UNCHANGED slots_free
    <3>1. H' = H
      BY <1>0, <1>7, <2>2, HolderSame DEF Check, PCs, Holding
    <3> QED
      BY <1>0, <2>2, <3>1 DEF goto, PCs
  <2> QED
    BY <1>7, <2>1, <2>2 DEF Check
<1>8. ASSUME NEW c \in Conns, Kick(c)
      PROVE  /\ slots_free' \in Nat /\ pc' \in [Conns -> PCs] /\ slots_free' + H' = Slots
  <2>1. H' = H
    BY <1>0, <1>8, HolderSame DEF Kick, PCs, Holding
  <2> QED
    BY <1>0, <1>8, <2>1 DEF Kick, gateVars, goto, PCs
<1>9. ASSUME NEW c \in Conns, Rotate(c)
      PROVE  /\ slots_free' \in Nat /\ pc' \in [Conns -> PCs] /\ slots_free' + H' = Slots
  <2>1. H' = H - 1
    BY <1>0, <1>9, HolderLost DEF Rotate, PCs, Holding
  <2> QED
    BY <1>0, <1>9, <2>1 DEF Rotate, goto, PCs
<1>10. ASSUME NEW c \in Conns, NotifyRotate(c)
       PROVE  /\ slots_free' \in Nat /\ pc' \in [Conns -> PCs] /\ slots_free' + H' = Slots
  <2>1. H' = H
    BY <1>0, <1>10, HolderSame DEF NotifyRotate, PCs, Holding
  <2> QED
    BY <1>0, <1>10, <2>1 DEF NotifyRotate, gateVars, goto, PCs
<1>11. ASSUME NEW c \in Conns, Close(c)
       PROVE  /\ slots_free' \in Nat /\ pc' \in [Conns -> PCs] /\ slots_free' + H' = Slots
  <2>1. PICK w \in {"leave", "bye"} : goto(c, w)
    BY <1>11 DEF Close
  <2>2. CASE pc[c] \in Holding
    <3>1. H' = H - 1
      BY <1>0, <2>1, <2>2, HolderLost DEF PCs, Holding
    <3> QED
      BY <1>0, <1>11, <2>1, <2>2, <3>1 DEF Close, goto, PCs
  <2>3. CASE pc[c] \notin Holding
    <3>1. H' = H
      BY <1>0, <2>1, <2>3, HolderSame DEF PCs, Holding
    <3> QED
      BY <1>0, <1>11, <2>1, <2>3, <3>1 DEF Close, goto, PCs
  <2> QED
    BY <2>2, <2>3
<1>12. ASSUME NEW c \in Conns, Bye(c)
       PROVE  /\ slots_free' \in Nat /\ pc' \in [Conns -> PCs] /\ slots_free' + H' = Slots
  <2>1. H' = H
    BY <1>0, <1>12, HolderSame DEF Bye, PCs, Holding
  <2> QED
    BY <1>0, <1>12, <2>1 DEF Bye, gateVars, goto, PCs
<1> QED
  BY <1>1, <1>2, <1>3, <1>4, <1>5, <1>6, <1>7, <1>8, <1>9, <1>10, <1>11, <1>12 DEF Next

\* Slots are conserved in every reachable state.
LEMMA SlotAlways == Spec => []SlotInv
<1>1. Init => SlotInv
  <2> SUFFICES ASSUME Init PROVE SlotInv
    OBVIOUS
  <2>1. Holders = {}
    BY DEF Init, Holders, Holding
  <2>2. Cardinality(Holders) = 0
    BY <2>1, FS_EmptySet
  <2> QED
    BY <2>2, GateAssumption DEF Init, SlotInv, SlotsConserved, Holders, PCs
<1> QED
  BY <1>1, SlotStep, PTL DEF Spec

\* For any number of slots and connections, every slot is free or held by one
\* live connection (UploadGate, SlotGuard).
THEOREM SlotsNeverLeak == Spec => []SlotsConserved
<1>1. SlotInv => SlotsConserved
  BY DEF SlotInv
<1> QED
  BY <1>1, SlotAlways, PTL
-----------------------------------------------------------------------------
QueueInv ==
    /\ pc \in [Conns -> PCs]
    /\ key \in [Conns -> Keys \cup {NoKey}]
    /\ next_seq \in Nat \ {0}
    /\ KeysAreFresh
    /\ QueueIsExact

\* No key of a waiter is the empty key of a connection that does not wait.
LEMMA NoKeyIsNoWaiter == NoKey \notin Keys
BY DEF NoKey, Keys

\* A step that leaves the queue, the keys and who is queued alone is harmless.
LEMMA QueueUntouched ==
    ASSUME QueueInv, NEW c \in Conns, NEW w \in PCs, goto(c, w),
           pc[c] \in Queued <=> w \in Queued,
           UNCHANGED <<waiters, next_seq, key>>
    PROVE  QueueInv'
<1>1. /\ pc' \in [Conns -> PCs]
      /\ \A d \in Conns : pc'[d] \in Queued <=> pc[d] \in Queued
  BY DEF QueueInv, goto
<1>2. KeysAreFresh'
  BY <1>1 DEF QueueInv, KeysAreFresh
<1>3. {key'[d] : d \in {e \in Conns : pc'[e] \in Queued}}
        = {key[d] : d \in {e \in Conns : pc[e] \in Queued}}
  BY <1>1
<1>4. QueueIsExact'
  BY <1>1, <1>3 DEF QueueInv, QueueIsExact
<1> QED
  BY <1>1, <1>2, <1>4 DEF QueueInv

\* A connection that leaves the queue takes its key, and nobody else's, along
\* (QueueWaiter::granted and QueueWaiter::drop).
LEMMA QueueLeft ==
    ASSUME QueueInv, NEW c \in Conns, NEW w \in PCs \ Queued, goto(c, w),
           waiters' = waiters \ {key[c]},
           key' = [key EXCEPT ![c] = NoKey], UNCHANGED next_seq
    PROVE  QueueInv'
<1>1. /\ pc' \in [Conns -> PCs] /\ pc'[c] \notin Queued
      /\ \A d \in Conns \ {c} : pc'[d] = pc[d]
  BY DEF QueueInv, goto
<1>2. /\ key' \in [Conns -> Keys \cup {NoKey}] /\ key'[c] = NoKey
      /\ \A d \in Conns \ {c} : key'[d] = key[d]
  BY DEF QueueInv
<1>3. KeysAreFresh'
  BY <1>1, <1>2 DEF QueueInv, KeysAreFresh
<1>4. \A d \in Conns \ {c} : pc[d] \in Queued => key[d] # key[c]
  <2> SUFFICES ASSUME NEW d \in Conns \ {c}, pc[d] \in Queued PROVE key[d] # key[c]
    OBVIOUS
  <2>1. CASE pc[c] \in Queued
    BY <2>1 DEF QueueInv, QueueIsExact
  <2>2. CASE pc[c] \notin Queued
    BY <2>2, NoKeyIsNoWaiter DEF QueueInv, KeysAreFresh
  <2> QED
    BY <2>1, <2>2
<1>5. waiters = {key[d] : d \in {e \in Conns : pc[e] \in Queued}}
  BY DEF QueueInv, QueueIsExact
<1>6. waiters' = {key'[d] : d \in {e \in Conns : pc'[e] \in Queued}}
  <2>1. ASSUME NEW k \in waiters'
        PROVE  \E d \in {e \in Conns : pc'[e] \in Queued} : k = key'[d]
    <3>1. k \in waiters /\ k # key[c]
      BY <2>1
    <3>2. PICK d \in Conns : pc[d] \in Queued /\ k = key[d]
      BY <3>1, <1>5
    <3> QED
      BY <3>1, <3>2, <1>1, <1>2
  <2>2. ASSUME NEW d \in Conns, pc'[d] \in Queued
        PROVE  key'[d] \in waiters'
    <3>1. d # c /\ pc[d] \in Queued /\ key'[d] = key[d]
      BY <2>2, <1>1, <1>2
    <3> QED
      BY <3>1, <1>4, <1>5
  <2> QED
    BY <2>1, <2>2
<1>7. QueueIsExact'
  BY <1>1, <1>2, <1>6 DEF QueueInv, QueueIsExact
<1> QED
  BY <1>1, <1>2, <1>3, <1>7 DEF QueueInv

\* Each step keeps the queue exact.
LEMMA QueueStep == QueueInv /\ [Next]_vars => QueueInv'
<1> SUFFICES ASSUME QueueInv, [Next]_vars PROVE QueueInv'
  OBVIOUS
<1>1. CASE UNCHANGED vars
  BY <1>1 DEF QueueInv, vars, gateVars, KeysAreFresh, QueueIsExact
<1>2. ASSUME NEW c \in Conns, Accept(c) PROVE QueueInv'
  BY <1>2, QueueUntouched DEF Accept, gateVars, PCs, Queued
<1>3. ASSUME NEW c \in Conns, NEW f \in Files, NameFile(c, f) PROVE QueueInv'
  BY <1>3 DEF NameFile, QueueInv, gateVars, KeysAreFresh, QueueIsExact
<1>4. ASSUME NEW c \in Conns, StartUploadReq(c) PROVE QueueInv'
  <2>1. PICK w \in {"slot", "enqueue"} : goto(c, w)
    BY <1>4 DEF StartUploadReq
  <2> QED
    BY <1>4, <2>1, QueueUntouched DEF StartUploadReq, PCs, Queued
<1>5. ASSUME NEW c \in Conns, Enqueue(c) PROVE QueueInv'
  <2>1. CASE goto(c, "leave") /\ UNCHANGED <<waiters, next_seq, key>>
    BY <1>5, <2>1, QueueUntouched DEF Enqueue, PCs, Queued
  <2>2. ASSUME NEW s \in Scores, next_seq <= MaxSeq,
               key' = [key EXCEPT ![c] = [score |-> s, seq |-> next_seq]],
               waiters' = waiters \cup {key'[c]}, next_seq' = next_seq + 1,
               goto(c, "ranked")
        PROVE  QueueInv'
    <3> DEFINE k == [score |-> s, seq |-> next_seq]
    <3>0. next_seq \in 1 .. MaxSeq
      BY <2>2, GateAssumption DEF QueueInv
    <3>1. k \in Keys /\ k.seq = next_seq
      BY <3>0 DEF Keys
    <3>2. /\ key' \in [Conns -> Keys \cup {NoKey}] /\ key'[c] = k
          /\ \A d \in Conns \ {c} : key'[d] = key[d]
      BY <2>2, <3>1 DEF QueueInv
    <3>3. /\ pc' \in [Conns -> PCs] /\ pc'[c] \in Queued /\ pc[c] \notin Queued
          /\ \A d \in Conns \ {c} : pc'[d] = pc[d]
      BY <1>5, <2>2 DEF Enqueue, QueueInv, goto, PCs, Queued
    <3>4. \A d \in Conns \ {c} : pc[d] \in Queued =>
              key[d] \in Keys /\ key[d].seq < next_seq
      BY DEF QueueInv, KeysAreFresh
    <3>5. KeysAreFresh'
      <4> SUFFICES ASSUME NEW d \in Conns
                   PROVE  IF pc'[d] \in Queued
                          THEN key'[d] \in Keys /\ key'[d].seq < next_seq'
                          ELSE key'[d] = NoKey
        BY DEF KeysAreFresh
      <4>1. CASE d = c
        BY <4>1, <3>0, <3>1, <3>2, <3>3, <2>2
      <4>2. CASE d # c /\ pc[d] \in Queued
        <5>1. key'[d] = key[d] /\ pc'[d] \in Queued /\ key[d] \in Keys
              /\ key[d].seq < next_seq
          BY <4>2, <3>2, <3>3, <3>4
        <5>2. key[d].seq \in Nat
          BY <5>1 DEF Keys
        <5> QED
          BY <5>1, <5>2, <3>0, <2>2
      <4>3. CASE d # c /\ pc[d] \notin Queued
        BY <4>3, <3>2, <3>3 DEF QueueInv, KeysAreFresh
      <4> QED
        BY <4>1, <4>2, <4>3
    <3>6. \A d \in Conns \ {c} : pc[d] \in Queued => key[d] # k
      <4> SUFFICES ASSUME NEW d \in Conns \ {c}, pc[d] \in Queued, key[d] = k
                   PROVE  FALSE
        OBVIOUS
      <4>1. k.seq < next_seq
        BY <3>4
      <4> QED
        BY <4>1, <3>0, <3>1
    <3>7. waiters' = {key'[d] : d \in {e \in Conns : pc'[e] \in Queued}}
      <4>1. waiters = {key[d] : d \in {e \in Conns : pc[e] \in Queued}}
        BY DEF QueueInv, QueueIsExact
      <4>2. waiters' = waiters \cup {k}
        BY <2>2, <3>2
      <4> QED
        BY <4>1, <4>2, <3>2, <3>3
    <3>8. QueueIsExact'
      BY <3>2, <3>3, <3>6, <3>7 DEF QueueInv, QueueIsExact
    <3>9. next_seq' \in Nat \ {0}
      BY <3>0, <2>2
    <3> QED
      BY <3>2, <3>3, <3>5, <3>8, <3>9 DEF QueueInv
  <2> QED
    BY <1>5, <2>1, <2>2 DEF Enqueue
<1>6. ASSUME NEW c \in Conns, Arm(c) PROVE QueueInv'
  BY <1>6, QueueUntouched DEF Arm, gateVars, PCs, Queued
<1>7. ASSUME NEW c \in Conns, Check(c) PROVE QueueInv'
  <2>1. CASE /\ goto(c, "slot") /\ waiters' = waiters \ {key[c]}
             /\ key' = [key EXCEPT ![c] = NoKey]
    BY <1>7, <2>1, QueueLeft DEF Check, PCs, Queued
  <2>2. CASE goto(c, "parked") /\ UNCHANGED <<waiters, key>>
    BY <1>7, <2>2, QueueUntouched DEF Check, PCs, Queued
  <2> QED
    BY <1>7, <2>1, <2>2 DEF Check
<1>8. ASSUME NEW c \in Conns, Kick(c) PROVE QueueInv'
  BY <1>8, QueueUntouched DEF Kick, gateVars, PCs, Queued
<1>9. ASSUME NEW c \in Conns, Rotate(c) PROVE QueueInv'
  BY <1>9, QueueUntouched DEF Rotate, PCs, Queued
<1>10. ASSUME NEW c \in Conns, NotifyRotate(c) PROVE QueueInv'
  BY <1>10, QueueUntouched DEF NotifyRotate, gateVars, PCs, Queued
<1>11. ASSUME NEW c \in Conns, Close(c) PROVE QueueInv'
  <2>1. PICK w \in {"leave", "bye"} : goto(c, w)
    BY <1>11 DEF Close
  <2> QED
    BY <1>11, <2>1, QueueLeft DEF Close, PCs, Queued
<1>12. ASSUME NEW c \in Conns, Bye(c) PROVE QueueInv'
  BY <1>12, QueueUntouched DEF Bye, gateVars, PCs, Queued
<1> QED
  BY <1>1, <1>2, <1>3, <1>4, <1>5, <1>6, <1>7, <1>8, <1>9, <1>10, <1>11, <1>12 DEF Next

\* The queue is exact in every reachable state.
LEMMA QueueAlways == Spec => []QueueInv
<1>1. Init => QueueInv
  BY DEF Init, QueueInv, KeysAreFresh, QueueIsExact, PCs, Queued
<1> QED
  BY <1>1, QueueStep, PTL DEF Spec

\* For any connections, scores and capacity, the queue holds exactly the
\* connections that wait, each under a key of its own (QueueWaiter).
THEOREM QueueStaysExact == Spec => []QueueIsExact
<1>1. QueueInv => QueueIsExact
  BY DEF QueueInv
<1> QED
  BY <1>1, QueueAlways, PTL
-----------------------------------------------------------------------------
SourceInv ==
    /\ file \in [Conns -> Files \cup {NoFile}]
    /\ DOMAIN served = Files
    /\ NoDeadSource

\* The served list is live in every reachable state.
LEMMA SourceAlways == Spec => []SourceInv
<1>1. Init => SourceInv
  BY DEF Init, SourceInv, NoDeadSource
<1>2. SourceInv /\ [Next]_vars => SourceInv'
  <2> SUFFICES ASSUME SourceInv, [Next]_vars PROVE SourceInv'
    OBVIOUS
  <2>1. CASE UNCHANGED <<served, file>>
    BY <2>1 DEF SourceInv, NoDeadSource
  <2>2. ASSUME NEW c \in Conns, NEW f \in Files, NameFile(c, f) PROVE SourceInv'
    <3>1. /\ file' \in [Conns -> Files \cup {NoFile}] /\ file'[c] = f /\ file[c] # f
          /\ \A d \in Conns \ {c} : file'[d] = file[d]
      BY <2>2 DEF NameFile, SourceInv
    <3>2. /\ DOMAIN served' = Files
          /\ \A g \in Files : served'[g] \subseteq served[g] \cup {Addr[c]}
          /\ \A g \in Files \ {f} : served'[g] \subseteq served[g]
          /\ file[c] \in Files => Addr[c] \notin served'[file[c]]
      BY <2>2, <3>1 DEF NameFile, stop_serving, SourceInv
    <3>3. ASSUME NEW g \in Files, NEW a \in served'[g]
          PROVE  \E d \in Conns : file'[d] = g /\ a = Addr[d]
      <4>1. CASE a = Addr[c] /\ g = f
        BY <4>1, <3>1
      <4>2. CASE a \in served[g]
        <5>1. PICK d \in Conns : file[d] = g /\ a = Addr[d]
          BY <4>2 DEF SourceInv, NoDeadSource
        <5>2. CASE d = c
          BY <5>1, <5>2, <3>2, <3>3
        <5> QED
          BY <5>1, <5>2, <3>1
      <4> QED
        BY <4>1, <4>2, <3>2, <3>3
    <3> QED
      BY <3>1, <3>2, <3>3 DEF SourceInv, NoDeadSource
  <2>3. ASSUME NEW c \in Conns, Bye(c) PROVE SourceInv'
    <3>1. /\ file' \in [Conns -> Files \cup {NoFile}]
          /\ \A d \in Conns \ {c} : file'[d] = file[d]
      BY <2>3 DEF Bye, SourceInv
    <3>2. /\ DOMAIN served' = Files
          /\ \A g \in Files : served'[g] \subseteq served[g]
          /\ file[c] \in Files => Addr[c] \notin served'[file[c]]
      BY <2>3 DEF Bye, stop_serving, SourceInv
    <3>3. ASSUME NEW g \in Files, NEW a \in served'[g]
          PROVE  \E d \in Conns : file'[d] = g /\ a = Addr[d]
      <4>1. PICK d \in Conns : file[d] = g /\ a = Addr[d]
        BY <3>2, <3>3 DEF SourceInv, NoDeadSource
      <4>2. d # c
        BY <4>1, <3>2, <3>3
      <4> QED
        BY <4>1, <4>2, <3>1
    <3> QED
      BY <3>1, <3>2, <3>3 DEF SourceInv, NoDeadSource
  <2> QED
    BY <2>1, <2>2, <2>3
    DEF Next, vars, Accept, StartUploadReq, Enqueue, Arm, Check, Kick, Rotate,
        NotifyRotate, Close
<1> QED
  BY <1>1, <1>2, PTL DEF Spec

\* For any connections, addresses and files, an address listed for a file has a
\* live connection that is after that file (ServedGuard).
THEOREM SourcesStayLive == Spec => []NoDeadSource
<1>1. SourceInv => NoDeadSource
  BY DEF SourceInv
<1> QED
  BY <1>1, SourceAlways, PTL
-----------------------------------------------------------------------------
(* The types *)

\* What the slots, the queue and the files do not already say of the types.
RestInv ==
    /\ next_seq \in 1 .. MaxSeq + 1
    /\ served \in [Files -> SUBSET {Addr[c] : c \in Conns}]
    /\ woken \subseteq Conns

\* Listing a connection's address, or not listing it, lists addresses only
\* (register_served, stop_serving).
LEMMA ListsTyped ==
    ASSUME NEW lists \in [Files -> SUBSET {Addr[c] : c \in Conns}], NEW f, NEW a
    PROVE  stop_serving(lists, f, a) \in [Files -> SUBSET {Addr[c] : c \in Conns}]
  BY DEF stop_serving

\* Each step keeps them.
LEMMA RestStep == RestInv /\ [Next]_vars => RestInv'
<1> SUFFICES ASSUME RestInv, [Next]_vars PROVE RestInv'
  OBVIOUS
<1>1. woken' \subseteq Conns
  <2>1. woken' \subseteq woken \cup Conns
    BY DEF Next, vars, Accept, NameFile, StartUploadReq, Enqueue, Arm, Check, Kick, Rotate,
           NotifyRotate, Close, Bye, notify_waiters
  <2> QED
    BY <2>1 DEF RestInv
<1>2. next_seq' \in 1 .. MaxSeq + 1
  <2>1. next_seq' = next_seq \/ (next_seq <= MaxSeq /\ next_seq' = next_seq + 1)
    BY DEF Next, vars, gateVars, Accept, NameFile, StartUploadReq, Enqueue, Arm, Check, Kick,
           Rotate, NotifyRotate, Close, Bye
  <2> QED
    BY <2>1, GateAssumption DEF RestInv
<1>3. served' \in [Files -> SUBSET {Addr[c] : c \in Conns}]
  <2>1. CASE served' = served
    BY <2>1 DEF RestInv
  <2>2. ASSUME NEW c \in Conns, NEW f \in Files, NameFile(c, f)
        PROVE  served' \in [Files -> SUBSET {Addr[d] : d \in Conns}]
    <3>1. [served EXCEPT ![f] = @ \cup {Addr[c]}] \in [Files -> SUBSET {Addr[d] : d \in Conns}]
      BY DEF RestInv
    <3> QED
      BY <2>2, <3>1, ListsTyped DEF NameFile
  <2>3. ASSUME NEW c \in Conns, Bye(c)
        PROVE  served' \in [Files -> SUBSET {Addr[d] : d \in Conns}]
    BY <2>3, ListsTyped DEF Bye, RestInv
  <2> QED
    BY <2>1, <2>2, <2>3
    DEF Next, vars, Accept, StartUploadReq, Enqueue, Arm, Check, Kick, Rotate, NotifyRotate, Close
<1> QED
  BY <1>1, <1>2, <1>3 DEF RestInv

\* Types: the count of free slots stays between zero and the slots there are, and
\* the queue holds keys only, whatever connections do (GateInner).
THEOREM GateIsTyped == Spec => []TypeOK
<1>1. Init => RestInv
  BY GateAssumption DEF Init, RestInv
<1>2. SlotInv /\ QueueInv /\ SourceInv /\ RestInv => TypeOK
  <2> SUFFICES ASSUME SlotInv, QueueInv, SourceInv, RestInv PROVE TypeOK
    OBVIOUS
  <2>1. slots_free \in 0 .. Slots
    BY HoldersFinite, GateAssumption DEF SlotInv, SlotsConserved, Holders
  <2>2. waiters \subseteq Keys
    BY DEF QueueInv, QueueIsExact, KeysAreFresh
  <2> QED
    BY <2>1, <2>2 DEF TypeOK, SlotInv, QueueInv, SourceInv, RestInv
<1> QED
  BY <1>1, <1>2, RestStep, SlotAlways, QueueAlways, SourceAlways, PTL DEF Spec
=============================================================================
