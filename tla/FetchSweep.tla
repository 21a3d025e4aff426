----------------------------- MODULE FetchSweep -----------------------------
(***************************************************************************)
(* fetch.rs: the download manager of ONE file (download_file), its workers *)
(* and the sessions they start.  A session the peer puts in its queue may  *)
(* PARK: it takes a permit, leaves its worker free for the next source and *)
(* is joined when the sweep ends.  Each session, each worker and the sweep *)
(* itself is a tokio task.  What a session does with the file is module    *)
(* Download; here it is dialling, connected, parked or over.               *)
(***************************************************************************)
EXTENDS Naturals, FiniteSets

CONSTANTS
    Sources,      \* addresses that may be discovered
    Blocked,      \* those the user's IP filter refuses
    MaxParallel,  \* the most workers any priority allows
    MaxRounds,    \* the largest round budget any priority allows
    ParkCap,      \* MAX_PARKED_SESSIONS
    MaxFlips      \* bound: times the download stops or is resumed

ASSUME SweepAssumption ==
    /\ IsFiniteSet(Sources) /\ Blocked \subseteq Sources
    /\ MaxParallel \in Nat \ {0}
    /\ MaxRounds \in Nat \ {0}
    /\ ParkCap \in Nat
    /\ MaxFlips \in Nat

VARIABLES
    running,       \* the download is not complete, cancelled or paused
    flips,         \* changes of running, against MaxFlips
    inbox,         \* sources handed in since the last round (source exchange, re-ask)
    \* -- download_file
    pc,            \* "returned", "finding" sources, then "head", "fold", "round",
                   \* "sleep" and "drain" of download_file
    pool,          \* the working set of sources
    round,
    budget_left, parks_alive, \* as the head of the loop saw them
    ever_dialed,
    queue,         \* sources of this round not yet taken by a worker
    parked_tasks,  \* sessions to join at the end
    \* -- the workers
    wpc,           \* "off", "top", or "wait" for the session it started
    job,           \* that session
    \* -- the sessions
    st,            \* where each session task is
    marks,         \* SweepParks.addrs
    permits        \* ParkLot.permits

engineVars == <<running, flips, inbox>>
loopVars == <<pc, pool, round, budget_left, parks_alive, ever_dialed>>
workVars == <<queue, parked_tasks, wpc, job>>
sessVars == <<st, marks, permits>>
vars == <<engineVars, loopVars, workVars, sessVars>>

Workers == 1 .. MaxParallel

\* The n-th session with a source in one sweep.
Tasks == Sources \X (1 .. MaxRounds)
NoTask == <<"none", 0>>

\* "over": fetch_one has returned, the task has still to free the address.
States == {"none", "dial", "live", "claimed", "parked", "over", "done"}
Holding == {"claimed", "parked"}          \* ParkState.permit is Some
Connected == {"live", "claimed", "parked"}

Init ==
    /\ running = TRUE /\ flips = 0 /\ inbox = {}
    /\ pc = "returned" /\ pool = {} /\ round = 0
    /\ budget_left = FALSE /\ parks_alive = FALSE /\ ever_dialed = {}
    /\ queue = {} /\ parked_tasks = {}
    /\ wpc = [k \in Workers |-> "off"] /\ job = [k \in Workers |-> NoTask]
    /\ st = [t \in Tasks |-> "none"] /\ marks = {} /\ permits = ParkCap
-----------------------------------------------------------------------------
(* The engine around the sweep. *)

\* Completed, cancelled, paused; or resumed, or found bad and re-opened.
SetRunning ==
    /\ flips < MaxFlips
    /\ flips' = flips + 1
    /\ running' = ~running
    /\ UNCHANGED <<inbox, loopVars, workVars, sessVars>>

\* note_sx_sources, note_discovered_sources.
Discover(s) ==
    /\ inbox' = inbox \cup {s}
    /\ UNCHANGED <<running, flips, loopVars, workVars, sessVars>>

\* resume_fetches, maintain_resume_fetches: a download that runs and is not being fetched.
SelectDownload ==
    /\ pc = "returned" /\ running
    /\ pc' = "finding"
    /\ UNCHANGED <<engineVars, pool, round, budget_left, parks_alive, ever_dialed,
                   workVars, sessVars>>

FindNothing ==
    /\ pc = "finding"
    /\ pc' = "returned"
    /\ UNCHANGED <<engineVars, pool, round, budget_left, parks_alive, ever_dialed,
                   workVars, sessVars>>

\* spawn_fetch: one sweep at a time (try_begin_fetch), with the sources just
\* found, the blocked ones dropped, and an address set of its own.  The download
\* may have completed or stopped since it was selected.
SpawnFetch ==
    /\ pc = "finding"
    /\ \E found \in SUBSET (Sources \ Blocked) : pool' = found
    /\ pc' = "head" /\ round' = 0 /\ ever_dialed' = {}
    /\ st' = [t \in Tasks |-> IF st[t] = "done" THEN "none" ELSE st[t]]
    /\ marks' = {}
    /\ UNCHANGED <<engineVars, budget_left, parks_alive, workVars, permits>>
-----------------------------------------------------------------------------
(* download_file *)

\* The head of the loop.  The round budget follows the live priority.
LoopHead ==
    /\ pc = "head"
    /\ \E rounds \in 1 .. MaxRounds : budget_left' = (round < rounds)
    /\ parks_alive' = (\E t \in parked_tasks : st[t] # "done")
    /\ pc' = IF budget_left' \/ parks_alive' THEN "fold" ELSE "drain"
    /\ UNCHANGED <<engineVars, pool, round, ever_dialed, workVars, sessVars>>

\* Fold in what arrived; stop, sleep or start a round of workers.  Past the
\* budget only sources never dialled are taken.
FoldAndStart ==
    /\ pc = "fold"
    /\ pool' = pool \cup (inbox \ Blocked)
    /\ inbox' = {}
    /\ LET ordered == IF budget_left THEN pool' ELSE pool' \ ever_dialed
           stop == ~running \/ (pool' = {} /\ ~parks_alive)
       IN \/ /\ stop \/ ordered = {}
             /\ pc' = IF stop THEN "drain" ELSE "sleep"
             /\ UNCHANGED <<round, ever_dialed, queue, wpc>>
          \/ /\ ~stop /\ ordered # {}
             /\ pc' = "round"
             /\ round' = IF budget_left THEN round + 1 ELSE round
             /\ ever_dialed' = ever_dialed \cup ordered
             /\ queue' = ordered
             /\ \E parallel \in 1 .. MaxParallel :
                   wpc' = [k \in Workers |-> IF k <= parallel THEN "top" ELSE "off"]
    /\ UNCHANGED <<running, flips, budget_left, parks_alive, parked_tasks, job, sessVars>>

\* (Waiting for the parked sessions instead of PARK_POLL.)
SleepOver_joins ==
    /\ pc = "sleep" /\ \A t \in parked_tasks : st[t] = "done"
    /\ pc' = "head"
    /\ UNCHANGED <<engineVars, pool, round, budget_left, parks_alive, ever_dialed,
                   workVars, sessVars>>

SleepOver ==
    /\ pc = "sleep"
    /\ pc' = "head"
    /\ UNCHANGED <<engineVars, pool, round, budget_left, parks_alive, ever_dialed,
                   workVars, sessVars>>

\* Every worker of the round has been joined.
RoundOver ==
    /\ pc = "round" /\ \A k \in Workers : wpc[k] = "off"
    /\ pc' = "head"
    /\ queue' = {}
    /\ UNCHANGED <<engineVars, pool, round, budget_left, parks_alive, ever_dialed,
                   parked_tasks, wpc, job, sessVars>>

\* Join what is parked, then return; FetchGuard lets the next sweep start.
Drain ==
    /\ pc = "drain" /\ \A t \in parked_tasks : st[t] = "done"
    /\ pc' = "returned"
    /\ parked_tasks' = {}
    /\ UNCHANGED <<engineVars, pool, round, budget_left, parks_alive, ever_dialed,
                   queue, wpc, job, sessVars>>
-----------------------------------------------------------------------------
(* A worker *)

next_task(s) == <<s, 1 + Cardinality({n \in 1 .. MaxRounds : st[<<s, n>>] # "none"})>>

\* The next source of the round; a banned one (module Download bans), or one in
\* whose queue we already sit, is passed over.
WorkerTop(k) ==
    /\ wpc[k] = "top"
    /\ \/ /\ ~running \/ queue = {}
          /\ wpc' = [wpc EXCEPT ![k] = "off"]
          /\ UNCHANGED <<queue, job, st>>
       \/ /\ running
          /\ \E s \in queue :
                /\ queue' = queue \ {s}
                /\ \/ UNCHANGED <<wpc, job, st>>        \* banned, or parked
                   \/ /\ s \notin marks
                      /\ job' = [job EXCEPT ![k] = next_task(s)]
                      /\ st' = [st EXCEPT ![next_task(s)] = "dial"]
                      /\ wpc' = [wpc EXCEPT ![k] = "wait"]
    /\ UNCHANGED <<engineVars, loopVars, parked_tasks, marks, permits>>

\* The select!: the session has ended ...
Joined(k) ==
    /\ wpc[k] = "wait" /\ st[job[k]] = "done"
    /\ wpc' = [wpc EXCEPT ![k] = "top"]
    /\ job' = [job EXCEPT ![k] = NoTask]
    /\ UNCHANGED <<engineVars, loopVars, queue, parked_tasks, sessVars>>

\* (The parked session is let go of.)
Released_detaches(k) ==
    /\ wpc[k] = "wait" /\ st[job[k]] \in {"parked", "over", "done"}
    /\ wpc' = [wpc EXCEPT ![k] = "top"]
    /\ job' = [job EXCEPT ![k] = NoTask]
    /\ UNCHANGED <<engineVars, loopVars, queue, parked_tasks, sessVars>>

\* ... or its on_park channel has resolved: the session parked, or fetch_one
\* returned and DROPPED the sender, which this branch does not tell apart.
Released(k) ==
    /\ wpc[k] = "wait" /\ st[job[k]] \in {"parked", "over", "done"}
    /\ parked_tasks' = parked_tasks \cup {job[k]}
    /\ wpc' = [wpc EXCEPT ![k] = "top"]
    /\ job' = [job EXCEPT ![k] = NoTask]
    /\ UNCHANGED <<engineVars, loopVars, queue, sessVars>>
-----------------------------------------------------------------------------
(* A session *)

become(t, s) == st' = [st EXCEPT ![t] = s]

\* The dial: a handshake, or an error or CONNECT_TIMEOUT.
Dial(t) ==
    /\ st[t] = "dial"
    /\ \E s \in {"live", "over"} : become(t, s)
    /\ UNCHANGED <<engineVars, loopVars, workVars, marks, permits>>

\* OP_QUEUERANKING with a permit to be had (ParkState::park); with none the
\* session ends (HangUp).
Park(t) ==
    /\ st[t] = "live" /\ permits > 0
    /\ permits' = permits - 1
    /\ become(t, "claimed")
    /\ UNCHANGED <<engineVars, loopVars, workVars, marks>>

\* fetch_one sees the announcement: mark the address, release the worker.
Mark(t) ==
    /\ st[t] = "claimed"
    /\ become(t, "parked")
    /\ marks' = marks \cup {t[1]}
    /\ UNCHANGED <<engineVars, loopVars, workVars, permits>>

\* (A permit given back only once the address is marked.)
leave_claimed(t) ==
    /\ become(t, "over")
    /\ permits' = IF st[t] = "parked" THEN permits + 1 ELSE permits
    /\ UNCHANGED <<engineVars, loopVars, workVars, marks>>

\* fetch_one returns: run_peer's frame goes, and its permit with it.
leave(t) ==
    /\ become(t, "over")
    /\ permits' = IF st[t] \in Holding THEN permits + 1 ELSE permits
    /\ UNCHANGED <<engineVars, loopVars, workVars, marks>>

\* The session is through, or failed, was refused, or (parked) hit PARK_BACKSTOP.
HangUp(t) == st[t] \in Connected /\ leave(t)

\* per_peer, which no longer applies once the park is announced.
Deadline(t) == st[t] = "live" /\ leave(t)

\* (A session that no longer looks once it has parked.)
Watchdog_unparked(t) == st[t] = "live" /\ ~running /\ leave(t)

\* PARK_POLL: the download stopped.
Watchdog(t) == st[t] \in Connected /\ ~running /\ leave(t)

\* The tail of the task: score the source, free its address.
Finish(t) ==
    /\ st[t] = "over"
    /\ become(t, "done")
    /\ marks' = marks \ {t[1]}
    /\ UNCHANGED <<engineVars, loopVars, workVars, permits>>

FindStep == FindNothing \/ SpawnFetch
SweepStep == LoopHead \/ FoldAndStart \/ SleepOver \/ RoundOver \/ Drain
WorkerStep(k) == WorkerTop(k) \/ Joined(k) \/ Released(k)
OwnStep(t) == Dial(t) \/ Mark(t) \/ Deadline(t) \/ Watchdog(t) \/ Finish(t)

Next ==
    \/ SetRunning \/ (\E s \in Sources : Discover(s)) \/ SelectDownload \/ FindStep
    \/ SweepStep
    \/ \E k \in Workers : WorkerStep(k)
    \/ \E t \in Tasks : OwnStep(t) \/ Park(t) \/ HangUp(t)

Spec == Init /\ [][Next]_vars

\* tokio polls every task that is ready, find_sources is bounded by a timeout, and
\* the timers of a session fire: CONNECT_TIMEOUT, per_peer, the watchdog's interval.  Nothing is assumed of
\* the peers, and nothing of PARK_BACKSTOP.
Fairness ==
    /\ WF_vars(FindStep)
    /\ WF_vars(SweepStep)
    /\ \A k \in Workers : WF_vars(WorkerStep(k))
    /\ \A t \in Tasks : WF_vars(OwnStep(t))

FairSpec == Spec /\ Fairness
-----------------------------------------------------------------------------
TypeOK ==
    /\ running \in BOOLEAN /\ flips \in 0 .. MaxFlips
    /\ inbox \subseteq Sources /\ pool \subseteq Sources \ Blocked
    /\ pc \in {"finding", "head", "fold", "round", "sleep", "drain", "returned"}
    /\ round \in 0 .. MaxRounds
    /\ budget_left \in BOOLEAN /\ parks_alive \in BOOLEAN
    /\ ever_dialed \subseteq pool /\ queue \subseteq pool
    /\ parked_tasks \subseteq Tasks
    /\ wpc \in [Workers -> {"off", "top", "wait"}]
    /\ job \in [Workers -> Tasks \cup {NoTask}]
    /\ st \in [Tasks -> States]
    /\ marks \subseteq Sources
    /\ permits \in 0 .. ParkCap

\* A park permit stands for a file descriptor of the whole process: each is free
\* or held by one session that lives, whichever way sessions end, also between
\* the claim and the announcement (ParkState, ParkLot).
PermitsConserved ==
    permits + Cardinality({t \in Tasks : st[t] \in Holding}) = ParkCap

\* download_file never returns "with sessions in flight", which "would let the
\* engine release the fetch slot and start a second sweep that redials peers we
\* are already queued at".
NoSessionOutlivesSweep ==
    pc \in {"returned", "finding"} => \A t \in Tasks : st[t] \in {"none", "done"}

\* An address is held back only while a session at it lives or is being wound
\* up: a mark left behind would hide a good source from all later rounds.
MarksAreLive ==
    \A s \in marks : \E t \in Tasks : t[1] = s /\ st[t] \in {"parked", "over"}

\* What parked sessions hold, a permit and an address, is held by sessions that
\* live and comes back once, on every way out (ParkState, fetch_one, the task's
\* tail).
ParksAreTracked == TypeOK /\ PermitsConserved /\ MarksAreLive

\* Once the download stops for good the sweep returns, although its parked
\* sessions wait for peers that owe them nothing (PARK_POLL).
SweepEnds == <>[]~running => <>[](pc = "returned")

\* A source discovered while the sweep runs is dialled, however long sessions
\* stay parked, unless the sweep ends first (why the sweep does not just drain).
FreshSourcesAreDialed ==
    \A s \in Sources \ Blocked :
       s \in inbox ~> (s \in ever_dialed \/ pc \in {"drain", "returned", "finding"})
=============================================================================
