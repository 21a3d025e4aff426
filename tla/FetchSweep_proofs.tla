-------------------------- MODULE FetchSweep_proofs --------------------------
(* Proofs about module FetchSweep, for any sources, workers, rounds and permits. *)
EXTENDS FetchSweep, FiniteSetTheorems, TLAPS

\* The sessions of this sweep with a source, and those that hold a permit.
Used(s) == {n \in 1 .. MaxRounds : st[<<s, n>>] # "none"}
Holders == {t \in Tasks : st[t] \in Holding}

\* A source has one session a round at most, numbered without a gap; it is still
\* to be dialled only if this round's is missing.
RoundsInOrder ==
    \A s \in Sources : \E n \in 0 .. MaxRounds :
        /\ Used(s) = 1 .. n /\ n <= round
        /\ s \in queue => n < round
        /\ s \notin ever_dialed => n = 0

\* What the head of the loop saw still holds when the round starts.
HeadSaw ==
    pc = "fold" => /\ budget_left => round < MaxRounds
                   /\ ~budget_left => 0 < round

\* A session that lives is its worker's, or will be joined at the end.
SessionsOwned ==
    \A t \in Tasks : st[t] \notin {"none", "done"} =>
        t \in parked_tasks \/ \E k \in Workers : wpc[k] = "wait" /\ job[k] = t

\* Workers run only within a round, and nothing is left to join between sweeps.
Between ==
    /\ pc # "round" => queue = {} /\ \A k \in Workers : wpc[k] = "off"
    /\ pc \in {"returned", "finding"} => parked_tasks = {}
    /\ \A k \in Workers : wpc[k] = "wait" => job[k] \in Tasks

\* A round dials what it has put on record.
QueueIsDialed == queue \subseteq ever_dialed

SweepInv ==
    /\ TypeOK /\ PermitsConserved /\ MarksAreLive
    /\ RoundsInOrder /\ HeadSaw /\ QueueIsDialed /\ SessionsOwned /\ Between

-----------------------------------------------------------------------------
\* Sessions are pairs of a source and a number, finitely many.
LEMMA TasksFinite ==
    /\ IsFiniteSet(Tasks) /\ IsFiniteSet(Holders) /\ Cardinality(Holders) \in Nat
    /\ \A t \in Tasks : t[1] \in Sources /\ t[2] \in 1 .. MaxRounds /\ t = <<t[1], t[2]>>
<1>1. IsFiniteSet(1 .. MaxRounds)
  BY FS_Interval, SweepAssumption
<1>2. IsFiniteSet(Tasks)
  BY <1>1, FS_Product, SweepAssumption DEF Tasks
<1>3. Holders \subseteq Tasks
  BY DEF Holders
<1> QED
  BY <1>2, <1>3, FS_Subset, FS_CardinalityType DEF Tasks

\* Park: the session that moves into Holding takes the count up by one.
LEMMA HolderGained ==
    ASSUME st \in [Tasks -> States], NEW t \in Tasks, st[t] \notin Holding,
           NEW x \in Holding, become(t, x)
    PROVE  Cardinality(Holders') = Cardinality(Holders) + 1
<1>1. Holders' = Holders \cup {t} /\ t \notin Holders
  BY DEF Holders, become
<1> QED
  BY <1>1, TasksFinite, FS_AddElement

\* The drop of run_peer's frame: one that leaves it takes the count down by one.
LEMMA HolderLost ==
    ASSUME st \in [Tasks -> States], NEW t \in Tasks, st[t] \in Holding,
           NEW x \in States \ Holding, become(t, x)
    PROVE  Cardinality(Holders') = Cardinality(Holders) - 1
<1>1. Holders' = Holders \ {t} /\ t \in Holders
  BY DEF Holders, become
<1> QED
  BY <1>1, TasksFinite, FS_RemoveElement

\* Any other move leaves the count alone.
LEMMA HolderSame ==
    ASSUME st \in [Tasks -> States], NEW t \in Tasks, NEW x \in States,
           st[t] \in Holding <=> x \in Holding, become(t, x)
    PROVE  Cardinality(Holders') = Cardinality(Holders)
<1>1. Holders' = Holders
  BY DEF Holders, become
<1> QED
  BY <1>1

\* The number of the next session with a source still to be dialled is free.
LEMMA NextTaskIsFree ==
    ASSUME SweepInv, NEW s \in queue, NEW n \in 0 .. MaxRounds,
           Used(s) = 1 .. n, n < round
    PROVE  /\ next_task(s) = <<s, n + 1>> /\ n + 1 \in 1 .. MaxRounds
           /\ next_task(s) \in Tasks /\ st[next_task(s)] = "none"
<1>1. Cardinality(1 .. n) = n
  BY FS_Interval
<1>2. next_task(s) = <<s, 1 + n>>
  BY <1>1 DEF next_task, Used
<1>3. n + 1 \in 1 .. MaxRounds /\ s \in Sources
  BY SweepAssumption DEF SweepInv, TypeOK
<1>4. n + 1 \notin Used(s)
  OBVIOUS
<1> QED
  BY <1>2, <1>3, <1>4 DEF Used, Tasks

-----------------------------------------------------------------------------
(* The sessions *)

\* Whatever a session that lives does, its worker or the sweep still has it, and
\* the numbering of the sessions is not disturbed.
LEMMA SessionMoves ==
    ASSUME SweepInv, NEW t \in Tasks, st[t] \notin {"none", "done"},
           NEW x \in States \ {"none"}, become(t, x),
           UNCHANGED <<engineVars, loopVars, workVars>>
    PROVE  /\ st' \in [Tasks -> States]
           /\ RoundsInOrder' /\ HeadSaw' /\ QueueIsDialed' /\ SessionsOwned' /\ Between'
<1>1. st' \in [Tasks -> States] /\ st' = [st EXCEPT ![t] = x]
  BY DEF SweepInv, TypeOK, become
<1>2. \A u \in Tasks : st'[u] = "none" <=> st[u] = "none"
  BY <1>1 DEF SweepInv, TypeOK
<1>3. RoundsInOrder'
  <2>1. ASSUME NEW s \in Sources PROVE Used(s)' = Used(s)
    BY <1>2 DEF Used, Tasks
  <2> QED
    BY <2>1 DEF SweepInv, RoundsInOrder, loopVars, workVars
<1>4. HeadSaw' /\ QueueIsDialed' /\ Between'
  BY DEF SweepInv, HeadSaw, QueueIsDialed, Between, loopVars, workVars
<1>5. SessionsOwned'
  <2>1. ASSUME NEW u \in Tasks, st'[u] \notin {"none", "done"} PROVE st[u] \notin {"none", "done"}
    BY <1>1, <2>1 DEF SweepInv, TypeOK
  <2> QED
    BY <2>1 DEF SweepInv, SessionsOwned, workVars
<1> QED
  BY <1>1, <1>3, <1>4, <1>5

\* The permits and the marked addresses after such a move.
LEMMA SessionKeeps ==
    ASSUME SweepInv, NEW t \in Tasks, st[t] \notin {"none", "done"},
           NEW x \in States \ {"none"}, become(t, x),
           UNCHANGED <<engineVars, loopVars, workVars>>,
           permits' + Cardinality(Holders') = ParkCap, permits' \in Nat,
           marks' \in SUBSET Sources, MarksAreLive'
    PROVE  SweepInv'
<1>1. /\ st' \in [Tasks -> States]
      /\ RoundsInOrder' /\ HeadSaw' /\ QueueIsDialed' /\ SessionsOwned' /\ Between'
  BY SessionMoves
<1>2. PermitsConserved'
  BY DEF PermitsConserved, Holders
<1>3. permits' \in 0 .. ParkCap
  <2>1. IsFiniteSet(Holders') /\ Cardinality(Holders') \in Nat
    <3>1. Holders' \subseteq Tasks
      BY DEF Holders
    <3> QED
      BY <3>1, TasksFinite, FS_Subset, FS_CardinalityType
  <2> QED
    BY <2>1, SweepAssumption
<1>4. TypeOK'
  BY <1>1, <1>3 DEF SweepInv, TypeOK, engineVars, loopVars, workVars
<1> QED
  BY <1>1, <1>2, <1>4 DEF SweepInv

\* A mark outlives a move of its session to "over"; no other mark is touched.
LEMMA MarksStay ==
    ASSUME SweepInv, NEW t \in Tasks, NEW x \in States, become(t, x), marks' \subseteq marks,
           st[t] \in {"parked", "over"} => x = "over" \/ t[1] \notin marks'
    PROVE  MarksAreLive'
<1> SUFFICES ASSUME NEW s \in marks'
             PROVE  \E u \in Tasks : u[1] = s /\ st'[u] \in {"parked", "over"}
  BY DEF MarksAreLive
<1>1. PICK u \in Tasks : u[1] = s /\ st[u] \in {"parked", "over"}
  BY DEF SweepInv, MarksAreLive
<1>2. st'[u] \in {"parked", "over"}
  BY <1>1 DEF SweepInv, TypeOK, become
<1> QED
  BY <1>1, <1>2

\* The dial, the park, its announcement, every way out and the task's tail.
LEMMA SessionStep ==
    ASSUME SweepInv, NEW t \in Tasks, OwnStep(t) \/ Park(t) \/ HangUp(t)
    PROVE  SweepInv'
<1>0. /\ st \in [Tasks -> States] /\ marks \subseteq Sources
      /\ permits \in Nat /\ Cardinality(Holders) \in Nat
      /\ permits + Cardinality(Holders) = ParkCap
  BY TasksFinite, SweepAssumption DEF SweepInv, TypeOK, PermitsConserved, Holders
<1>1. CASE Dial(t)
  <2>1. PICK x \in {"live", "over"} : become(t, x)
    BY <1>1 DEF Dial
  <2>2. st[t] = "dial" /\ UNCHANGED <<engineVars, loopVars, workVars>> /\ marks' = marks /\ permits' = permits
    BY <1>1 DEF Dial
  <2>3. x \in States \ {"none"} /\ Cardinality(Holders') = Cardinality(Holders)
    BY <1>0, <2>1, <2>2, HolderSame DEF States, Holding
  <2>4. MarksAreLive'
    BY <2>1, <2>2, <2>3, MarksStay
  <2> QED
    BY <1>0, <2>1, <2>2, <2>3, <2>4, SessionKeeps
<1>2. CASE Park(t)
  <2>1. /\ become(t, "claimed") /\ st[t] = "live" /\ permits' = permits - 1 /\ permits > 0
        /\ UNCHANGED <<engineVars, loopVars, workVars>> /\ marks' = marks
    BY <1>2 DEF Park
  <2>2. Cardinality(Holders') = Cardinality(Holders) + 1
    BY <1>0, <2>1, HolderGained DEF Holding
  <2>3. "claimed" \in States \ {"none"}
    BY DEF States
  <2>4. MarksAreLive'
    BY <2>1, <2>3, MarksStay
  <2>5. permits' + Cardinality(Holders') = ParkCap /\ permits' \in Nat
    BY <1>0, <2>1, <2>2
  <2> QED
    BY <1>0, <2>1, <2>3, <2>4, <2>5, SessionKeeps
<1>3. CASE Mark(t)
  <2>1. /\ become(t, "parked") /\ st[t] = "claimed" /\ permits' = permits
        /\ UNCHANGED <<engineVars, loopVars, workVars>> /\ marks' = marks \cup {t[1]}
    BY <1>3 DEF Mark
  <2>2. Cardinality(Holders') = Cardinality(Holders)
    BY <1>0, <2>1, HolderSame DEF Holding, States
  <2>3. "parked" \in States \ {"none"}
    BY DEF States
  <2>4. MarksAreLive'
    <3> SUFFICES ASSUME NEW s \in marks'
                 PROVE  \E u \in Tasks : u[1] = s /\ st'[u] \in {"parked", "over"}
      BY DEF MarksAreLive
    <3>1. CASE s = t[1]
      <4>1. st'[t] = "parked"
        BY <1>0, <2>1 DEF become
      <4> QED
        BY <3>1, <4>1
    <3>2. CASE s \in marks
      <4>1. PICK u \in Tasks : u[1] = s /\ st[u] \in {"parked", "over"}
        BY <3>2 DEF SweepInv, MarksAreLive
      <4>2. st'[u] \in {"parked", "over"}
        BY <1>0, <2>1, <4>1 DEF become
      <4> QED
        BY <4>1, <4>2
    <3> QED
      BY <2>1, <3>1, <3>2
  <2>5. marks' \in SUBSET Sources
    BY <1>0, <2>1, TasksFinite
  <2> QED
    BY <1>0, <2>1, <2>2, <2>3, <2>4, <2>5, SessionKeeps
<1>4. CASE st[t] \in Connected /\ leave(t)
  <2>1. /\ become(t, "over") /\ UNCHANGED <<engineVars, loopVars, workVars>> /\ marks' = marks
        /\ st[t] \notin {"none", "done"}
    BY <1>4 DEF leave, Connected
  <2>2. "over" \in States \ {"none"} /\ "over" \notin Holding
    BY DEF States, Holding
  <2>3. permits' + Cardinality(Holders') = ParkCap /\ permits' \in Nat
    <3>1. CASE st[t] \in Holding
      <4>1. Cardinality(Holders') = Cardinality(Holders) - 1 /\ permits' = permits + 1
        BY <1>0, <1>4, <2>1, <2>2, <3>1, HolderLost DEF leave
      <4> QED
        BY <1>0, <4>1
    <3>2. CASE st[t] \notin Holding
      <4>1. Cardinality(Holders') = Cardinality(Holders) /\ permits' = permits
        BY <1>0, <1>4, <2>1, <2>2, <3>2, HolderSame DEF leave
      <4> QED
        BY <1>0, <4>1
    <3> QED
      BY <3>1, <3>2
  <2>4. MarksAreLive'
    BY <2>1, <2>2, MarksStay
  <2> QED
    BY <1>0, <2>1, <2>2, <2>3, <2>4, SessionKeeps
<1>5. CASE Finish(t)
  <2>1. /\ become(t, "done") /\ st[t] = "over" /\ permits' = permits
        /\ UNCHANGED <<engineVars, loopVars, workVars>> /\ marks' = marks \ {t[1]}
    BY <1>5 DEF Finish
  <2>2. "done" \in States \ {"none"} /\ Cardinality(Holders') = Cardinality(Holders)
    BY <1>0, <2>1, HolderSame DEF States, Holding
  <2>3. MarksAreLive'
    BY <2>1, <2>2, MarksStay
  <2> QED
    BY <1>0, <2>1, <2>2, <2>3, SessionKeeps
<1> QED
  BY <1>1, <1>2, <1>3, <1>4, <1>5 DEF OwnStep, HangUp, Deadline, Watchdog, Connected

-----------------------------------------------------------------------------
(* The workers *)

\* Without a session that moves, permits and marks are as they were.
LEMMA SessionsRest ==
    ASSUME SweepInv, UNCHANGED sessVars
    PROVE  PermitsConserved' /\ MarksAreLive' /\ \A s \in Sources : Used(s)' = Used(s)
BY DEF SweepInv, PermitsConserved, MarksAreLive, Used, sessVars

\* A worker dials the next source: one more session, which the worker waits for.
LEMMA WorkerDials ==
    ASSUME SweepInv, NEW k \in Workers, wpc[k] = "top", NEW s \in queue,
           queue' = queue \ {s}, job' = [job EXCEPT ![k] = next_task(s)],
           st' = [st EXCEPT ![next_task(s)] = "dial"], wpc' = [wpc EXCEPT ![k] = "wait"],
           UNCHANGED <<engineVars, loopVars, parked_tasks, marks, permits>>
    PROVE  SweepInv'
<1> USE DEF SweepInv
<1>0. s \in Sources /\ s \in ever_dialed
  BY DEF TypeOK, QueueIsDialed
<1>1. PICK n \in 0 .. MaxRounds : Used(s) = 1 .. n /\ n < round
  BY <1>0 DEF RoundsInOrder
<1> DEFINE t == <<s, n + 1>>
<1>2. next_task(s) = t /\ n + 1 \in 1 .. MaxRounds /\ t \in Tasks /\ st[t] = "none"
  BY <1>1, NextTaskIsFree
<1>3. /\ st' = [st EXCEPT ![t] = "dial"] /\ job' = [job EXCEPT ![k] = t]
      /\ st \in [Tasks -> States] /\ job \in [Workers -> Tasks \cup {NoTask}]
      /\ wpc \in [Workers -> {"off", "top", "wait"}]
  BY <1>2 DEF TypeOK
<1>4. ASSUME NEW r \in Sources, NEW i \in 1 .. MaxRounds
      PROVE  st'[<<r, i>>] # "none" <=> st[<<r, i>>] # "none" \/ (r = s /\ i = n + 1)
  <2>1. <<r, i>> \in Tasks /\ (<<r, i>> = t <=> r = s /\ i = n + 1)
    BY DEF Tasks
  <2> QED
    BY <1>2, <1>3, <2>1
<1>5. TypeOK'
  <2>1. "dial" \in States
    BY DEF States
  <2> QED
    BY <1>2, <1>3, <2>1 DEF TypeOK, engineVars, loopVars
<1>6. PermitsConserved'
  <2>1. become(t, "dial") /\ "dial" \in States /\ st[t] \notin Holding /\ "dial" \notin Holding
    BY <1>2, <1>3 DEF become, States, Holding
  <2>2. Cardinality(Holders') = Cardinality(Holders)
    BY <1>2, <1>3, <2>1, HolderSame
  <2> QED
    BY <2>2 DEF PermitsConserved, Holders
<1>7. MarksAreLive'
  <2>1. \A u \in Tasks : st[u] \in {"parked", "over"} => st'[u] = st[u]
    BY <1>2, <1>3
  <2> QED
    BY <2>1 DEF MarksAreLive
<1>8. RoundsInOrder'
  <2> SUFFICES ASSUME NEW r \in Sources
               PROVE  \E m \in 0 .. MaxRounds :
                         /\ Used(r)' = 1 .. m /\ m <= round'
                         /\ r \in queue' => m < round'
                         /\ r \notin ever_dialed' => m = 0
    BY DEF RoundsInOrder
  <2>0. round' = round /\ ever_dialed' = ever_dialed /\ round \in Nat
    BY SweepAssumption DEF loopVars, TypeOK
  <2>1. CASE r = s
    <3>1. Used(s)' = Used(s) \cup {n + 1}
      BY <1>0, <1>2, <1>4 DEF Used
    <3>2. Used(s)' = 1 .. (n + 1)
      BY <1>1, <3>1
    <3>3. s \notin queue' /\ n + 1 \in 0 .. MaxRounds /\ n + 1 <= round
      BY <1>1, <1>2, <2>0
    <3> QED
      BY <1>0, <2>0, <2>1, <3>2, <3>3
  <2>2. CASE r # s
    <3>1. Used(r)' = Used(r)
      BY <1>4, <2>2 DEF Used
    <3> QED
      BY <2>0, <3>1 DEF RoundsInOrder
  <2> QED
    BY <2>1, <2>2
<1>9. HeadSaw'
  BY DEF HeadSaw, loopVars
<1>10. SessionsOwned'
  <2> SUFFICES ASSUME NEW u \in Tasks, st'[u] \notin {"none", "done"}
               PROVE  u \in parked_tasks' \/ \E j \in Workers : wpc'[j] = "wait" /\ job'[j] = u
    BY DEF SessionsOwned
  <2>1. CASE u = t
    <3>1. wpc'[k] = "wait" /\ job'[k] = t
      BY <1>3
    <3> QED
      BY <2>1, <3>1
  <2>2. CASE u # t
    <3>1. st[u] \notin {"none", "done"}
      BY <1>3, <2>2
    <3>2. CASE u \in parked_tasks
      BY <3>2
    <3>3. ASSUME NEW j \in Workers, wpc[j] = "wait", job[j] = u
          PROVE  wpc'[j] = "wait" /\ job'[j] = u
      BY <1>3, <3>3
    <3> QED
      BY <3>1, <3>2, <3>3 DEF SessionsOwned
  <2> QED
    BY <2>1, <2>2
<1>11. Between'
  <2>1. pc' = pc /\ pc = "round" /\ parked_tasks' = parked_tasks
    BY DEF Between, loopVars
  <2>2. \A j \in Workers : wpc'[j] = "wait" => job'[j] \in Tasks
    BY <1>2, <1>3 DEF Between
  <2> QED
    BY <2>1, <2>2 DEF Between
<1>12. QueueIsDialed'
  BY DEF QueueIsDialed, loopVars
<1> QED
  BY <1>5, <1>6, <1>7, <1>8, <1>9, <1>10, <1>11, <1>12

\* A worker passes a source over, goes off, or is freed of a session that has
\* ended or that will be joined.
LEMMA WorkerRests ==
    ASSUME SweepInv, NEW k \in Workers, pc = "round",
           NEW w \in {"off", "top"}, wpc' = [wpc EXCEPT ![k] = w],
           queue' \subseteq queue, job' = job \/ job' = [job EXCEPT ![k] = NoTask],
           parked_tasks' \subseteq Tasks, parked_tasks \subseteq parked_tasks',
           wpc[k] = "wait" => job[k] \in parked_tasks' \/ st[job[k]] = "done",
           UNCHANGED <<engineVars, loopVars, sessVars>>
    PROVE  SweepInv'
<1> USE DEF SweepInv
<1>1. PermitsConserved' /\ MarksAreLive' /\ \A s \in Sources : Used(s)' = Used(s)
  BY SessionsRest
<1>2. TypeOK'
  BY DEF TypeOK, engineVars, loopVars, sessVars
<1>3. RoundsInOrder'
  BY <1>1 DEF RoundsInOrder, loopVars
<1>4. HeadSaw' /\ QueueIsDialed'
  BY DEF HeadSaw, QueueIsDialed, loopVars
<1>5. SessionsOwned'
  <2> SUFFICES ASSUME NEW u \in Tasks, st'[u] \notin {"none", "done"}
               PROVE  u \in parked_tasks' \/ \E j \in Workers : wpc'[j] = "wait" /\ job'[j] = u
    BY DEF SessionsOwned
  <2>1. st' = st
    BY DEF sessVars
  <2>2. ASSUME NEW j \in Workers, wpc[j] = "wait", job[j] = u
        PROVE  u \in parked_tasks' \/ (wpc'[j] = "wait" /\ job'[j] = u)
    <3>1. CASE j = k
      BY <2>1, <2>2, <3>1
    <3>2. CASE j # k
      BY <2>2, <3>2 DEF TypeOK
    <3> QED
      BY <3>1, <3>2
  <2> QED
    BY <2>1, <2>2 DEF SessionsOwned
<1>6. Between'
  <2>1. pc' = "round"
    BY DEF loopVars
  <2>2. ASSUME NEW j \in Workers, wpc'[j] = "wait" PROVE job'[j] \in Tasks
    <3>1. j # k /\ wpc[j] = "wait" /\ job'[j] = job[j]
      BY <2>2 DEF TypeOK
    <3> QED
      BY <3>1 DEF Between
  <2> QED
    BY <2>1, <2>2 DEF Between
<1> QED
  BY <1>1, <1>2, <1>3, <1>4, <1>5, <1>6

\* Every step of a worker.
LEMMA WorkerKeeps ==
    ASSUME SweepInv, NEW k \in Workers, WorkerStep(k)
    PROVE  SweepInv'
<1>0. /\ wpc \in [Workers -> {"off", "top", "wait"}] /\ parked_tasks \subseteq Tasks
      /\ \A j \in Workers : wpc[j] = "wait" => job[j] \in Tasks
      /\ wpc[k] # "off" => pc = "round"
  BY DEF SweepInv, TypeOK, Between
<1>1. CASE WorkerTop(k)
  <2>1. wpc[k] = "top" /\ UNCHANGED <<engineVars, loopVars, parked_tasks, marks, permits>>
    BY <1>1 DEF WorkerTop
  <2>2. CASE wpc' = [wpc EXCEPT ![k] = "off"] /\ UNCHANGED <<queue, job, st>>
    BY <1>0, <2>1, <2>2, WorkerRests DEF sessVars
  <2>3. ASSUME NEW s \in queue, queue' = queue \ {s}, UNCHANGED <<wpc, job, st>>
        PROVE  SweepInv'
    <3>1. wpc' = [wpc EXCEPT ![k] = "top"]
      BY <1>0, <2>1, <2>3
    <3> QED
      BY <1>0, <2>1, <2>3, <3>1, WorkerRests DEF sessVars
  <2>4. ASSUME NEW s \in queue, queue' = queue \ {s}, job' = [job EXCEPT ![k] = next_task(s)],
               st' = [st EXCEPT ![next_task(s)] = "dial"], wpc' = [wpc EXCEPT ![k] = "wait"]
        PROVE  SweepInv'
    BY <2>1, <2>4, WorkerDials
  <2> QED
    BY <1>1, <2>2, <2>3, <2>4 DEF WorkerTop
<1>2. CASE Joined(k)
  BY <1>0, <1>2, WorkerRests DEF Joined
<1>3. CASE Released(k)
  BY <1>0, <1>3, WorkerRests DEF Released
<1> QED
  BY <1>1, <1>2, <1>3 DEF WorkerStep

-----------------------------------------------------------------------------
(* download_file and the engine around it *)

\* The head of the loop.
LEMMA HeadKeeps == ASSUME SweepInv, LoopHead PROVE SweepInv'
<1> USE DEF SweepInv
<1>1. PICK rounds \in 1 .. MaxRounds : budget_left' = (round < rounds)
  BY DEF LoopHead
<1>2. /\ pc = "head" /\ pc' \in {"fold", "drain"} /\ parks_alive' \in BOOLEAN
      /\ UNCHANGED <<engineVars, pool, round, ever_dialed, workVars, sessVars>>
  BY DEF LoopHead
<1>3. budget_left' \in BOOLEAN
  BY <1>1
<1>a. HeadSaw'
  <2>1. rounds \in Nat /\ 0 < rounds /\ rounds <= MaxRounds /\ round \in Nat /\ MaxRounds \in Nat
    BY SweepAssumption DEF TypeOK
  <2>2. (round < rounds => round < MaxRounds) /\ (~(round < rounds) => 0 < round)
    BY <2>1
  <2>3. round' = round
    BY <1>2
  <2> QED
    BY <1>1, <2>2, <2>3, Zenon DEF HeadSaw
<1>4. PermitsConserved' /\ MarksAreLive' /\ \A s \in Sources : Used(s)' = Used(s)
  BY <1>2, SessionsRest
<1>5. TypeOK'
  BY <1>2, <1>3 DEF TypeOK, engineVars, workVars, sessVars
<1>6. RoundsInOrder' /\ SessionsOwned' /\ Between' /\ QueueIsDialed'
  BY <1>2, <1>4 DEF RoundsInOrder, SessionsOwned, Between, QueueIsDialed, workVars, sessVars
<1> QED
  BY <1>a, <1>4, <1>5, <1>6

\* A round starts: its sources are those with a session to spare.
LEMMA FoldKeeps == ASSUME SweepInv, FoldAndStart PROVE SweepInv'
<1> USE DEF SweepInv
<1> DEFINE ordered == IF budget_left THEN pool' ELSE pool' \ ever_dialed
<1>1. /\ pc = "fold" /\ pool' = pool \cup (inbox \ Blocked) /\ inbox' = {}
      /\ UNCHANGED <<running, flips, budget_left, parks_alive, parked_tasks, job, sessVars>>
  BY DEF FoldAndStart
<1>2. pool' \subseteq Sources \ Blocked /\ pool \subseteq pool' /\ ordered \subseteq pool'
  BY <1>1 DEF TypeOK
<1>3. PermitsConserved' /\ MarksAreLive' /\ \A s \in Sources : Used(s)' = Used(s)
  BY <1>1, SessionsRest
<1>4. queue = {} /\ \A k \in Workers : wpc[k] = "off"
  BY <1>1 DEF Between
<1>5. CASE pc' \in {"drain", "sleep"} /\ UNCHANGED <<round, ever_dialed, queue, wpc>>
  <2>1. TypeOK'
    BY <1>1, <1>2, <1>5 DEF TypeOK, sessVars
  <2>2. RoundsInOrder' /\ SessionsOwned' /\ Between' /\ QueueIsDialed' /\ HeadSaw'
    BY <1>1, <1>3, <1>4, <1>5 DEF RoundsInOrder, SessionsOwned, Between, QueueIsDialed, HeadSaw, sessVars
  <2> QED
    BY <1>3, <2>1, <2>2
<1>6. CASE /\ pc' = "round" /\ round' = IF budget_left THEN round + 1 ELSE round
           /\ ever_dialed' = ever_dialed \cup ordered /\ queue' = ordered
           /\ \E parallel \in 1 .. MaxParallel :
                 wpc' = [k \in Workers |-> IF k <= parallel THEN "top" ELSE "off"]
  <2>0. round \in Nat /\ round' \in 0 .. MaxRounds /\ round <= round' /\ budget_left \in BOOLEAN
    BY <1>1, <1>6, SweepAssumption DEF TypeOK, HeadSaw
  <2>1. wpc' \in [Workers -> {"off", "top", "wait"}] /\ \A k \in Workers : wpc'[k] # "wait"
    BY <1>6
  <2>2. TypeOK'
    BY <1>1, <1>2, <1>6, <2>0, <2>1 DEF TypeOK, sessVars
  <2>3. RoundsInOrder'
    <3> SUFFICES ASSUME NEW s \in Sources
                 PROVE  \E n \in 0 .. MaxRounds :
                           /\ Used(s)' = 1 .. n /\ n <= round'
                           /\ s \in queue' => n < round'
                           /\ s \notin ever_dialed' => n = 0
      BY DEF RoundsInOrder
    <3>1. PICK n \in 0 .. MaxRounds : Used(s) = 1 .. n /\ n <= round /\ (s \notin ever_dialed => n = 0)
      BY DEF RoundsInOrder
    <3>2. n <= round' /\ (s \notin ever_dialed' => n = 0)
      BY <1>6, <2>0, <3>1
    <3>3. s \in queue' => n < round'
      <4>1. CASE budget_left
        BY <1>6, <2>0, <3>1, <4>1
      <4>2. CASE ~budget_left
        <5>1. 0 < round /\ round' = round
          BY <1>1, <1>6, <4>2 DEF HeadSaw
        <5>2. s \in queue' => s \notin ever_dialed
          BY <1>6, <4>2
        <5> QED
          BY <3>1, <5>1, <5>2
      <4> QED
        BY <2>0, <4>1, <4>2
    <3> QED
      BY <1>3, <3>1, <3>2, <3>3
  <2>4. SessionsOwned'
    BY <1>1, <1>4 DEF SessionsOwned, sessVars
  <2>5. Between' /\ HeadSaw' /\ QueueIsDialed'
    BY <1>6, <2>1 DEF Between, HeadSaw, QueueIsDialed
  <2> QED
    BY <1>3, <2>2, <2>3, <2>4, <2>5
<1> QED
  BY <1>5, <1>6 DEF FoldAndStart

\* The rest of download_file: no session is left when it returns.
LEMMA LoopKeeps == ASSUME SweepInv, SleepOver \/ RoundOver \/ Drain PROVE SweepInv'
<1> USE DEF SweepInv
<1>1. /\ UNCHANGED <<engineVars, pool, round, budget_left, parks_alive, ever_dialed, wpc, job, sessVars>>
      /\ queue' = queue \/ queue' = {}
  BY DEF SleepOver, RoundOver, Drain, workVars
<1>2. PermitsConserved' /\ MarksAreLive' /\ \A s \in Sources : Used(s)' = Used(s)
  BY <1>1, SessionsRest
<1>3. parked_tasks' \subseteq parked_tasks /\ pc' \in {"head", "returned"}
  BY DEF SleepOver, RoundOver, Drain, workVars
<1>4. TypeOK'
  BY <1>1, <1>3 DEF TypeOK, engineVars, sessVars
<1>5. RoundsInOrder' /\ HeadSaw' /\ QueueIsDialed'
  BY <1>1, <1>2, <1>3 DEF RoundsInOrder, HeadSaw, QueueIsDialed
<1>6. SessionsOwned'
  BY <1>1 DEF SessionsOwned, SleepOver, RoundOver, Drain, workVars, sessVars
<1>7. Between'
  BY <1>1 DEF Between, SleepOver, RoundOver, Drain, workVars
<1> QED
  BY <1>2, <1>4, <1>5, <1>6, <1>7

\* A sweep starts: no session of an earlier one is left.
LEMMA SpawnKeeps == ASSUME SweepInv, SpawnFetch PROVE SweepInv'
<1> USE DEF SweepInv
<1>1. /\ pc = "finding" /\ pc' = "head" /\ round' = 0 /\ ever_dialed' = {} /\ marks' = {}
      /\ pool' \subseteq Sources \ Blocked
      /\ st' = [t \in Tasks |-> IF st[t] = "done" THEN "none" ELSE st[t]]
      /\ UNCHANGED <<engineVars, budget_left, parks_alive, workVars, permits>>
  BY DEF SpawnFetch
<1>2. queue = {} /\ parked_tasks = {} /\ \A k \in Workers : wpc[k] = "off"
  BY <1>1 DEF Between
<1>3. \A t \in Tasks : st[t] \in {"none", "done"}
  BY <1>2 DEF SessionsOwned
<1>4. \A t \in Tasks : st'[t] = "none"
  BY <1>1, <1>3
<1>5. TypeOK'
  BY <1>1, <1>2, SweepAssumption DEF TypeOK, engineVars, workVars, States
<1>6. PermitsConserved'
  <2>1. Holders' = Holders
    BY <1>3, <1>4 DEF Holders, Holding
  <2> QED
    BY <1>1, <2>1 DEF PermitsConserved, Holders
<1>7. MarksAreLive' /\ HeadSaw' /\ QueueIsDialed'
  BY <1>1, <1>2 DEF MarksAreLive, HeadSaw, QueueIsDialed, workVars
<1>8. RoundsInOrder'
  <2>1. ASSUME NEW s \in Sources PROVE Used(s)' = 1 .. 0
    BY <1>4 DEF Used, Tasks
  <2>2. 0 \in 0 .. MaxRounds /\ 0 <= 0
    BY SweepAssumption
  <2> QED
    BY <1>1, <1>2, <2>1, <2>2 DEF RoundsInOrder, workVars
<1>9. SessionsOwned'
  BY <1>4 DEF SessionsOwned
<1>10. Between'
  BY <1>1, <1>2 DEF Between, workVars
<1> QED
  BY <1>5, <1>6, <1>7, <1>8, <1>9, <1>10

\* The engine stops, resumes or selects the download, or hears of a source.
LEMMA EngineKeeps ==
    ASSUME SweepInv,
           \/ SetRunning \/ SelectDownload \/ FindNothing
           \/ \E s \in Sources : Discover(s)
    PROVE  SweepInv'
<1> USE DEF SweepInv
<1>1. /\ UNCHANGED <<pool, round, budget_left, parks_alive, ever_dialed, workVars, sessVars>>
      /\ \/ pc' = pc
         \/ pc \in {"returned", "finding"} /\ pc' \in {"returned", "finding"}
  BY DEF SetRunning, SelectDownload, FindNothing, Discover, loopVars
<1>2. inbox' \subseteq Sources /\ running' \in BOOLEAN /\ flips' \in 0 .. MaxFlips
  <2>1. CASE SetRunning
    <3>1. flips' \in 0 .. MaxFlips
      BY <2>1, SweepAssumption DEF SetRunning, TypeOK
    <3>2. inbox' \subseteq Sources /\ running' \in BOOLEAN
      BY <2>1 DEF SetRunning, TypeOK
    <3> QED
      BY <3>1, <3>2
  <2>2. CASE SelectDownload \/ FindNothing
    BY <2>2 DEF SelectDownload, FindNothing, engineVars, TypeOK
  <2>3. CASE \E s \in Sources : Discover(s)
    BY <2>3 DEF Discover, TypeOK
  <2> QED
    BY <2>1, <2>2, <2>3
<1>3. PermitsConserved' /\ MarksAreLive' /\ \A s \in Sources : Used(s)' = Used(s)
  BY <1>1, SessionsRest
<1>4. TypeOK'
  BY <1>1, <1>2 DEF TypeOK, workVars, sessVars
<1>5. RoundsInOrder' /\ HeadSaw' /\ QueueIsDialed' /\ SessionsOwned'
  BY <1>1, <1>3 DEF RoundsInOrder, HeadSaw, QueueIsDialed, SessionsOwned, workVars, sessVars
<1>6. Between'
  BY <1>1 DEF Between, workVars
<1> QED
  BY <1>3, <1>4, <1>5, <1>6

-----------------------------------------------------------------------------
(* The invariant, and what follows *)

\* The app has just started.
LEMMA SweepInit == Init => SweepInv
<1> SUFFICES ASSUME Init PROVE SweepInv
  OBVIOUS
<1>1. TypeOK
  <2>1. 0 \in 0 .. MaxRounds /\ 0 \in 0 .. MaxFlips /\ ParkCap \in 0 .. ParkCap
    BY SweepAssumption
  <2> QED
    BY <2>1 DEF Init, TypeOK, States
<1>2. PermitsConserved
  <2>1. {t \in Tasks : st[t] \in Holding} = {}
    BY DEF Init, Holding
  <2>2. Cardinality({t \in Tasks : st[t] \in Holding}) = 0
    BY <2>1, FS_EmptySet
  <2> QED
    BY <2>2, SweepAssumption DEF Init, PermitsConserved
<1>3. RoundsInOrder
  <2>1. ASSUME NEW s \in Sources PROVE Used(s) = 1 .. 0
    BY DEF Init, Used, Tasks
  <2>2. 0 \in 0 .. MaxRounds /\ 0 <= 0
    BY SweepAssumption
  <2> QED
    BY <2>1, <2>2 DEF Init, RoundsInOrder
<1>4. MarksAreLive /\ HeadSaw /\ SessionsOwned /\ Between /\ QueueIsDialed
  BY DEF Init, MarksAreLive, HeadSaw, SessionsOwned, Between, QueueIsDialed
<1> QED
  BY <1>1, <1>2, <1>3, <1>4 DEF SweepInv

\* Every step keeps the invariant.
LEMMA SweepStepKeeps == SweepInv /\ [Next]_vars => SweepInv'
<1> SUFFICES ASSUME SweepInv, [Next]_vars PROVE SweepInv'
  OBVIOUS
<1>1. CASE SetRunning \/ SelectDownload \/ FindNothing \/ \E s \in Sources : Discover(s)
  BY <1>1, EngineKeeps
<1>2. CASE SpawnFetch
  BY <1>2, SpawnKeeps
<1>3. CASE LoopHead
  BY <1>3, HeadKeeps
<1>4. CASE FoldAndStart
  BY <1>4, FoldKeeps
<1>5. CASE SleepOver \/ RoundOver \/ Drain
  BY <1>5, LoopKeeps
<1>6. ASSUME NEW k \in Workers, WorkerStep(k) PROVE SweepInv'
  BY <1>6, WorkerKeeps
<1>7. ASSUME NEW t \in Tasks, OwnStep(t) \/ Park(t) \/ HangUp(t) PROVE SweepInv'
  BY <1>7, SessionStep
<1>8. CASE UNCHANGED vars
  BY <1>8 DEF vars, engineVars, loopVars, workVars, sessVars, SweepInv, TypeOK, PermitsConserved,
     MarksAreLive, RoundsInOrder, Used, HeadSaw, SessionsOwned, Between, QueueIsDialed
<1> QED
  BY <1>1, <1>2, <1>3, <1>4, <1>5, <1>6, <1>7, <1>8 DEF Next, FindStep, SweepStep

\* The invariant holds in every reachable state.
LEMMA SweepAlways == Spec => []SweepInv
  BY SweepInit, SweepStepKeeps, PTL DEF Spec

\* However sessions end, and whoever is running beside them, a park permit is
\* free or held by one session that lives, and an address is held back only for
\* one (ParkState, ParkLot, the task's tail).
THEOREM ParksComeBack == Spec => []ParksAreTracked
<1>1. SweepInv => ParksAreTracked
  BY DEF SweepInv, ParksAreTracked
<1> QED
  BY <1>1, SweepAlways, PTL

\* download_file never returns with a session in flight, so that the next sweep
\* cannot redial a peer in whose queue we sit.
THEOREM SweepJoinsItsSessions == Spec => []NoSessionOutlivesSweep
<1>1. SweepInv => NoSessionOutlivesSweep
  BY DEF SweepInv, Between, SessionsOwned, NoSessionOutlivesSweep
<1> QED
  BY <1>1, SweepAlways, PTL
=============================================================================
