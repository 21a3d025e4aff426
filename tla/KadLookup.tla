----------------------------- MODULE KadLookup -----------------------------
(***************************************************************************)
(* One Kademlia lookup at a time: the state machine CSearch of             *)
(* mule-kad/lookup.rs, its driver drive_lookup of mule-engine/kad_live.rs, *)
(* the request futures it spawns and the read loop that matches datagrams  *)
(* to pending requests.  The caller may cancel the lookup at any await.    *)
(*                                                                         *)
(* A contact IS its XOR distance to the target (the distance is            *)
(* injective), so "closer" is <.  Answers may be late, repeated or from    *)
(* another port of the same host; a send may fail; a peer may stay silent. *)
(***************************************************************************)
EXTENDS Naturals, FiniteSets, Sequences

CONSTANTS
    N,            \* contacts of the network, by distance: 1 is the closest
    Ip,           \* Ip[c]: the host of contact c
    Tolerance,    \* within_tolerance: the farthest distance asked for values
    Alpha,        \* ALPHA_QUERY
    FrontierSize, \* K
    FindBudget,
    ValueBudget,  \* LOOKUP_VALUE_BUDGET
    Stop,         \* results that end the lookup: the caller's want or the total
    MaxAnswer,    \* bound: contacts of one answer that pass frontier_filter
    MaxPanics     \* bound: request tasks that panic

Contact == 1 .. N
Kind == {"find", "value"}

ASSUME LookupAssumption ==
    /\ N \in Nat \ {0}
    /\ Alpha \in Nat \ {0}
    /\ {Tolerance, FrontierSize, FindBudget, ValueBudget, Stop, MaxAnswer, MaxPanics} \subseteq Nat
    /\ FrontierSize > 0
    /\ FindBudget > 0
    /\ Stop > 0
    /\ DOMAIN Ip = Contact

VARIABLES
    \* -- CSearch
    possible, tried, responded, failed, best,
    find_budget, value_budget,
    \* -- drive_lookup
    phase,          \* "idle", "top" of the loop, sending value "asks", sending
                    \* the refill's "finds" or an answer's "jump", or in "select"
    refresh,        \* ValueAsk::None: nobody is asked for values
    queue,          \* contacts the driver has still to send to
    finds_inflight,
    results,
    inflight,       \* requests: the JoinSet's, and the one being sent
    guard,          \* SlotGuard.seqs
    \* -- shared with the read loop
    pending,        \* Vec<PendingSlot>, in the order of the seqs
    \* -- history
    sent,           \* requests begun by this lookup, per kind and contact
    unsent,         \* a request of the pass under way could not be sent
    panics,         \* contacts whose FIND task panicked, and the panics so far
    exhausted       \* the last lookup ended with nothing in flight

searchVars == <<possible, tried, responded, failed, best, find_budget, value_budget>>
historyVars == <<unsent, panics, exhausted>>
vars == <<searchVars, phase, refresh, queue, finds_inflight, results, inflight,
          guard, pending, sent, historyVars>>

Request == [seq: Nat, kind: Kind, to: Contact,
            st: {"sending", "early", "waiting", "answered", "expired"}]
Slot == [seq: Nat, kind: Kind, to: Contact]

TypeOK ==
    /\ possible \subseteq Contact /\ tried \subseteq Contact
    /\ responded \subseteq Contact /\ failed \subseteq Contact /\ best \subseteq Contact
    /\ find_budget \in 0 .. FindBudget /\ value_budget \in 0 .. ValueBudget
    /\ phase \in {"idle", "top", "asks", "finds", "jump", "select"}
    /\ refresh \in BOOLEAN
    /\ queue \in Seq(Contact)
    /\ finds_inflight \in Nat /\ results \in 0 .. Stop
    /\ inflight \subseteq Request /\ guard \subseteq Nat
    /\ pending \subseteq Slot
    /\ sent \in [Kind \X Contact -> Nat]
    /\ unsent \in BOOLEAN /\ exhausted \in BOOLEAN
    /\ panics \in [finds: SUBSET Contact, total: 0 .. MaxPanics]

-----------------------------------------------------------------------------
(* CSearch *)

Rank(S, c) == Cardinality({d \in S : d < c})
Closest(S, n) == {c \in S : Rank(S, c) < n}
InOrder(S) == [i \in 1 .. Cardinality(S) |-> CHOOSE c \in S : Rank(S, c) = i - 1]
Least(a, b) == IF a < b THEN a ELSE b
Minus(a, b) == IF a > b THEN a - b ELSE 0    \* saturating_sub

\* CSearch::refill: the closest untried candidates within the frontier.
Refillable(capacity) ==
    Closest(Closest(possible, FrontierSize) \ tried, Least(capacity, find_budget))

\* Mutant: a contact already consumed by the walk is taken again.
IsNewForgetsTried(c) == c \notin possible

\* CSearch::add takes a contact neither waiting nor ever tried (a Kad1 contact
\* is refused too: here the answer simply lacks it).
IsNew(c) == c \notin possible /\ c \notin tried

\* CSearch::on_response goes through an answer in order; all its contacts differ.
\* Positions in the answer: the new contacts, and those closer than the responder.
News(contacts) == {i \in DOMAIN contacts : IsNew(contacts[i])}
Closer(from, contacts) == {i \in News(contacts) : contacts[i] < from}

\* The Alpha best after the closer ones of these positions.  (A contact that is
\* in `best` and new again was consumed untried, so there is no budget left and
\* `best` decides nothing any more.)
Best(is, contacts) == Closest(best \cup {contacts[i] : i \in is}, Alpha)

\* Those among the Alpha best when their turn comes; the first of them are
\* dispatched at once, as far as there is room and budget.
Top(from, contacts) ==
    {i \in Closer(from, contacts) :
        contacts[i] \in Best({j \in Closer(from, contacts) : j <= i}, contacts)}
Dispatched(from, contacts, capacity) ==
    Closest(Top(from, contacts), Least(capacity, find_budget))

\* CSearch::on_timeout.
OnTimeout(c) == failed' = failed \cup ({c} \cap tried)

\* Mutants: the walk steps over entries in flight; it stops at failed ones.
WalkOverFlight(c) == c \notin tried /\ find_budget > 0
WalkStopsAtFailed(c) ==
    IF c \in tried THEN c \notin responded ELSE find_budget > 0

\* Where the walk of CSearch::harvest stops: a candidate in flight, or one
\* that can still be dispatched.
WalkStops(c) ==
    IF c \in tried THEN c \notin responded /\ c \notin failed ELSE find_budget > 0

\* What CSearch::harvest consumes, and whom it hands out for value asks.
Consumed == {c \in possible : \A d \in possible : d <= c => ~WalkStops(d)}
Harvested == Closest({c \in Consumed : c \in tried /\ c \in responded /\ c <= Tolerance},
                     value_budget)

-----------------------------------------------------------------------------
(* The driver's requests *)

NoSend == \A r \in inflight : r.st \notin {"sending", "early"}
Tasks == {r \in inflight : r.st \notin {"sending", "early"}}
Ready == {r \in inflight : r.st \in {"answered", "expired"}}

Without(slots, seqs) == {p \in slots : p.seq \notin seqs}
PendingSeqs == {p.seq : p \in pending}

\* next_seq (the u64 counter does not wrap): here every lookup starts at 1.
FreshSeq == Cardinality(guard) + 1

SendKind == IF phase = "asks" THEN "value" ELSE "find"

\* begin_request up to the send: the slot is registered and tracked BEFORE the
\* send is awaited.
BeginRequest ==
    /\ phase \in {"asks", "finds", "jump"}
    /\ NoSend
    /\ queue # <<>>
    /\ LET slot == [seq |-> FreshSeq, kind |-> SendKind, to |-> Head(queue)] IN
       /\ pending' = pending \cup {slot}
       /\ guard' = guard \cup {slot.seq}
       /\ inflight' = inflight \cup {[seq |-> slot.seq, kind |-> slot.kind,
                                      to |-> slot.to, st |-> "sending"]}
       /\ sent' = [sent EXCEPT ![<<slot.kind, slot.to>>] = @ + 1]
    /\ queue' = Tail(queue)
    /\ UNCHANGED <<searchVars, phase, refresh, finds_inflight, results, historyVars>>

\* The datagram went out: the future that waits for the answer joins the set.
Sent(r) ==
    /\ r.st \in {"sending", "early"}
    /\ inflight' = (inflight \ {r}) \cup
                   {[r EXCEPT !.st = IF @ = "sending" THEN "waiting" ELSE "answered"]}
    /\ finds_inflight' = IF r.kind = "find" THEN finds_inflight + 1 ELSE finds_inflight
    /\ UNCHANGED <<searchVars, phase, refresh, queue, results, guard, pending, sent,
                   historyVars>>

\* Mutant: a failed send is not reported to the search.
SendFailedUnreported(r) ==
    /\ r.st \in {"sending", "early"}
    /\ inflight' = inflight \ {r}
    /\ pending' = Without(pending, {r.seq})
    /\ unsent' = (unsent \/ phase # "asks")
    /\ UNCHANGED <<searchVars, phase, refresh, queue, finds_inflight, results, guard, sent,
                   panics, exhausted>>

\* The send failed: the slot is withdrawn; a contact not asked has failed.
SendFailed(r) ==
    /\ r.st \in {"sending", "early"}
    /\ inflight' = inflight \ {r}
    /\ pending' = Without(pending, {r.seq})
    /\ IF r.kind = "find" THEN OnTimeout(r.to) ELSE UNCHANGED failed
    /\ unsent' = (unsent \/ phase # "asks")
    /\ UNCHANGED <<possible, tried, responded, best, find_budget, value_budget, phase,
                   refresh, queue, finds_inflight, results, guard, sent, panics, exhausted>>

\* Mutant: only value requests carry a deadline.
ExpireValueOnly(r) ==
    /\ r.st = "waiting" /\ r.kind = "value"
    /\ inflight' = (inflight \ {r}) \cup {[r EXCEPT !.st = "expired"]}
    /\ UNCHANGED <<searchVars, phase, refresh, queue, finds_inflight, results, guard,
                   pending, sent, historyVars>>

\* The per-request deadline, when no answer is waiting in the channel.
Expire(r) ==
    /\ r.st = "waiting"
    /\ inflight' = (inflight \ {r}) \cup {[r EXCEPT !.st = "expired"]}
    /\ UNCHANGED <<searchVars, phase, refresh, queue, finds_inflight, results, guard,
                   pending, sent, historyVars>>

-----------------------------------------------------------------------------
(* The read loop *)

Exact(c, kind) == {p \in pending : p.to = c /\ p.kind = kind}
SameHost(c, kind) == {p \in pending : Ip[p.to] = Ip[c] /\ p.kind = kind}
First(slots) == CHOOSE p \in slots : \A q \in slots : p.seq <= q.seq

\* The slot a datagram from c's host settles: the one waiting on exactly that
\* address, else the first one waiting on the host.
Match(c, kind, exactPort) ==
    IF exactPort /\ Exact(c, kind) # {} THEN First(Exact(c, kind)) ELSE First(SameHost(c, kind))

\* A datagram with the answer opcode of `kind` arrives from c's host, solicited
\* or not.  A receiver past its deadline, or gone, drops it.
Datagram(c, kind, exactPort) ==
    /\ SameHost(c, kind) # {}
    /\ LET p == Match(c, kind, exactPort)
           Hear(r) == IF r.seq # p.seq THEN r
                      ELSE [r EXCEPT !.st = IF @ = "sending" THEN "early"
                                            ELSE IF @ = "waiting" THEN "answered" ELSE @]
       IN  /\ pending' = pending \ {p}
           /\ inflight' = {Hear(r) : r \in inflight}
    /\ UNCHANGED <<searchVars, phase, refresh, queue, finds_inflight, results, guard,
                   sent, historyVars>>

-----------------------------------------------------------------------------
(* The driver's loop *)

\* Mutant: the guard knows only the requests whose send completed.
DropCompleted ==
    /\ phase' = "idle"
    /\ inflight' = {}
    /\ queue' = <<>>
    /\ pending' = Without(pending, {r.seq : r \in Tasks})
    /\ guard' = {}

\* Returning or being dropped ends the request tasks and runs SlotGuard::drop.
DropLookup ==
    /\ phase' = "idle"
    /\ inflight' = {}
    /\ queue' = <<>>
    /\ pending' = Without(pending, guard)
    /\ guard' = {}

\* drive_lookup with the seeds of the routing table (none: Err(NotReady)).
Start(seeds, isRefresh) ==
    /\ phase = "idle"
    /\ seeds # {}
    /\ possible' = seeds
    /\ tried' = {} /\ responded' = {} /\ failed' = {} /\ best' = {}
    /\ find_budget' = FindBudget
    /\ value_budget' = IF isRefresh THEN 0 ELSE ValueBudget
    /\ phase' = "top"
    /\ refresh' = isRefresh
    /\ finds_inflight' = 0 /\ results' = 0
    /\ sent' = [k \in Kind \X Contact |-> 0]
    /\ unsent' = FALSE /\ exhausted' = FALSE
    /\ panics' = [panics EXCEPT !.finds = {}]
    /\ UNCHANGED <<queue, inflight, guard, pending>>

Enough == ~refresh /\ results >= Stop

\* The top of the loop: enough results, or the walk and its value asks.
EndWithEnough ==
    /\ phase = "top"
    /\ Enough
    /\ DropLookup
    /\ UNCHANGED <<searchVars, refresh, finds_inflight, results, sent, historyVars>>

Harvest ==
    /\ phase = "top"
    /\ ~Enough
    /\ possible' = possible \ Consumed
    /\ value_budget' = value_budget - Cardinality(Harvested)
    /\ queue' = InOrder(Harvested)
    /\ phase' = "asks"
    /\ unsent' = FALSE
    /\ UNCHANGED <<tried, responded, failed, best, find_budget, refresh, finds_inflight,
                   results, inflight, guard, pending, sent, panics, exhausted>>

\* Then FIND_NODEs up to Alpha in flight.
Refill ==
    /\ phase = "asks"
    /\ queue = <<>> /\ NoSend
    /\ LET out == Refillable(Minus(Alpha, finds_inflight)) IN
       /\ find_budget' = find_budget - Cardinality(out)
       /\ tried' = tried \cup out
       /\ queue' = InOrder(out)
    /\ phase' = "finds"
    /\ UNCHANGED <<possible, responded, failed, best, value_budget, refresh, finds_inflight,
                   results, inflight, guard, pending, sent, historyVars>>

\* Nothing in flight ends the lookup; otherwise it waits.
EndExhausted ==
    /\ phase = "finds"
    /\ queue = <<>>
    /\ inflight = {}
    /\ DropLookup
    /\ exhausted' = TRUE
    /\ UNCHANGED <<searchVars, refresh, finds_inflight, results, sent, unsent, panics>>

Wait ==
    /\ phase = "finds"
    /\ queue = <<>> /\ NoSend
    /\ inflight # {}
    /\ phase' = "select"
    /\ UNCHANGED <<searchVars, refresh, queue, finds_inflight, results, inflight, guard,
                   pending, sent, historyVars>>

\* frontier_filter: no host twice, the responder's own included.  (Its limit
\* of two per /24 and is_acceptable_answer drop further contacts; an answer
\* without them is another answer here.)
Answers(from) ==
    {a \in UNION {[1 .. n -> Contact] : n \in 0 .. MaxAnswer} :
        \A i, j \in DOMAIN a : Ip[a[i]] # Ip[from] /\ (i # j => Ip[a[i]] # Ip[a[j]])}

\* A usable FIND answer: candidates, and closer ones dispatched at once.
JoinFound(r, contacts) ==
    /\ phase = "select"
    /\ r.st = "answered" /\ r.kind = "find"
    /\ finds_inflight' = Minus(finds_inflight, 1)
    /\ LET out == Dispatched(r.to, contacts, Minus(Alpha, finds_inflight')) IN
       /\ tried' = tried \cup {contacts[i] : i \in out}
       /\ find_budget' = find_budget - Cardinality(out)
       /\ queue' = [n \in 1 .. Cardinality(out) |-> contacts[InOrder(out)[n]]]
    /\ possible' = possible \cup {contacts[i] : i \in News(contacts)}
    /\ best' = Best(Closer(r.to, contacts), contacts)
    /\ responded' = responded \cup {r.to}
    /\ inflight' = inflight \ {r}
    /\ phase' = "jump"
    /\ UNCHANGED <<failed, value_budget, refresh, results, guard, pending, sent, historyVars>>

\* The dispatches of an answer are sent: back to the top.
Jumped ==
    /\ phase = "jump"
    /\ queue = <<>> /\ NoSend
    /\ phase' = "top"
    /\ UNCHANGED <<searchVars, refresh, queue, finds_inflight, results, inflight, guard,
                   pending, sent, historyVars>>

\* An over-long or undecodable FIND answer counts as silence.
JoinUnusable(r) ==
    /\ phase = "select"
    /\ r.st = "answered" /\ r.kind = "find"
    /\ finds_inflight' = Minus(finds_inflight, 1)
    /\ OnTimeout(r.to)
    /\ inflight' = inflight \ {r}
    /\ phase' = "top"
    /\ UNCHANGED <<possible, tried, responded, best, find_budget, value_budget, refresh,
                   queue, results, guard, pending, sent, historyVars>>

\* A value answer adds n new results (none when it cannot be decoded).
JoinValue(r, n) ==
    /\ phase = "select"
    /\ r.st = "answered" /\ r.kind = "value"
    /\ results' = Least(Stop, results + n)
    /\ inflight' = inflight \ {r}
    /\ phase' = "top"
    /\ UNCHANGED <<searchVars, refresh, queue, finds_inflight, guard, pending, sent, historyVars>>

\* A deadline passed: the dead slot is withdrawn, an unanswered FIND failed.
JoinExpired(r) ==
    /\ phase = "select"
    /\ r.st = "expired"
    /\ finds_inflight' = IF r.kind = "find" THEN Minus(finds_inflight, 1) ELSE finds_inflight
    /\ pending' = Without(pending, {r.seq})
    /\ IF r.kind = "find" THEN OnTimeout(r.to) ELSE UNCHANGED failed
    /\ inflight' = inflight \ {r}
    /\ phase' = "top"
    /\ UNCHANGED <<possible, tried, responded, best, find_budget, value_budget, refresh,
                   queue, results, guard, sent, historyVars>>

\* A request task panicked: which kind it was is not known.
JoinPanicked(r) ==
    /\ phase = "select"
    /\ panics.total < MaxPanics
    /\ r \in Tasks
    /\ finds_inflight' = Minus(finds_inflight, 1)
    /\ inflight' = inflight \ {r}
    /\ panics' = [finds |-> panics.finds \cup (IF r.kind = "find" THEN {r.to} ELSE {}),
                  total |-> panics.total + 1]
    /\ phase' = "top"
    /\ UNCHANGED <<searchVars, refresh, queue, results, guard, pending, sent, unsent, exhausted>>

\* The stall tick after STALL_AFTER of silence asks for a progress pass.
Tick ==
    /\ phase = "select"
    /\ phase' = "top"
    /\ UNCHANGED <<searchVars, refresh, queue, finds_inflight, results, inflight, guard,
                   pending, sent, historyVars>>

\* The overall deadline in select!, or the caller drops the future at an await.
Cancel ==
    /\ phase = "select" \/ ~NoSend
    /\ DropLookup
    /\ UNCHANGED <<searchVars, refresh, finds_inflight, results, sent, historyVars>>

-----------------------------------------------------------------------------
Init ==
    /\ possible = {} /\ tried = {} /\ responded = {} /\ failed = {} /\ best = {}
    /\ find_budget = 0 /\ value_budget = 0
    /\ phase = "idle" /\ refresh = FALSE
    /\ queue = <<>> /\ finds_inflight = 0 /\ results = 0
    /\ inflight = {} /\ guard = {} /\ pending = {}
    /\ sent = [k \in Kind \X Contact |-> 0]
    /\ unsent = FALSE /\ exhausted = FALSE
    /\ panics = [finds |-> {}, total |-> 0]

JoinAnswered(r) ==
    \/ \E a \in Answers(r.to) : JoinFound(r, a)
    \/ JoinUnusable(r)
    \/ \E n \in 0 .. 1 : JoinValue(r, n)

Driver ==
    \/ EndWithEnough \/ Harvest \/ Refill \/ EndExhausted \/ Wait \/ Jumped
    \/ BeginRequest
    \/ \E r \in inflight : Sent(r) \/ SendFailed(r)

Join == \E r \in inflight : JoinAnswered(r) \/ JoinExpired(r)

ReadLoop == \E c \in Contact, k \in Kind, e \in BOOLEAN : Datagram(c, k, e)

Next ==
    \/ \E seeds \in SUBSET Contact, b \in BOOLEAN : Start(seeds, b)
    \/ Driver
    \/ Join
    \/ \E r \in inflight : Expire(r) \/ JoinPanicked(r)
    \/ Tick
    \/ ReadLoop
    \/ Cancel

Spec == Init /\ [][Next]_vars

\* The runtime polls the driver, sends complete and each request has its own
\* deadline.  select! polls its branches in random order, so a finished request
\* is joined although ticks come in between.  Neither the overall deadline nor
\* any answer is assumed.
FairSpec ==
    /\ Spec
    /\ WF_vars(Driver)
    /\ WF_vars(\E r \in inflight : Expire(r))
    /\ SF_vars(Join)

-----------------------------------------------------------------------------
(* Properties *)

\* A reply slot outlives neither its request nor its lookup, however requests
\* end (answer, deadline, failed send, cancellation in the middle of a send):
\* a stale one would swallow the answer to a later request to that host.  Only
\* a panicked task leaves its slot to the guard.
SlotsAreOwned ==
    /\ Cardinality(PendingSeqs \ {r.seq : r \in inflight}) <= panics.total
    /\ phase = "idle" => pending = {}

\* No contact is sent the same question twice in one lookup, although answers
\* name it again after the walk has consumed it, and the budgets bound what is
\* sent.
AskedOnce ==
    /\ \A k \in Kind \X Contact : sent[k] <= 1
    /\ Cardinality({c \in Contact : sent[<<"find", c>>] > 0}) <= FindBudget
    /\ Cardinality({c \in Contact : sent[<<"value", c>>] > 0}) <= ValueBudget

\* finds_inflight never counts more requests than there are, so the pipeline
\* is never throttled by requests long gone; it counts too few only by the
\* tasks that panicked, so at most Alpha FIND_NODEs and one per panic are out.
FindsInFlight ==
    LET real == Cardinality({r \in Tasks : r.kind = "find"}) IN
    /\ finds_inflight <= real \/ phase = "idle"
    /\ real <= finds_inflight + panics.total
    /\ real <= Alpha + panics.total

\* What the driver, the table of reply slots and the tasks in flight say of the
\* requests that are out agrees, although the read loop settles slots between
\* any two steps of the driver (begin_request, run_read_loop, SlotGuard).
RequestsAreTracked == TypeOK /\ SlotsAreOwned /\ FindsInFlight

\* Every contact the lookup marked tried is on its way to be asked, is being
\* asked, has answered or has failed (a panicked task apart): harvest, which
\* stops at an unresolved entry, never waits for something nobody will report.
NoLimbo ==
    phase # "idle" =>
        \A c \in tried :
            \/ c \in responded \cup failed \cup panics.finds
            \/ phase \in {"finds", "jump"} /\ \E i \in DOMAIN queue : queue[i] = c
            \/ \E r \in inflight : r.kind = "find" /\ r.to = c

\* Values are asked closest first: whoever is about to be asked answered its
\* FIND, is within the tolerance, and everybody closer that was asked has
\* answered or failed.
ClosestFirst ==
    phase = "asks" =>
        \A i \in DOMAIN queue :
            /\ queue[i] \in responded /\ queue[i] <= Tolerance
            /\ \A d \in tried : d < queue[i] => d \in responded \cup failed

\* A lookup that ends with nothing in flight has dealt with every candidate it
\* ever learnt of: none that answered is left unasked behind another entry.
\* (A FIND_NODE that could not be sent in the last pass, or a panicked task, is
\* the exception.)
NothingStranded ==
    phase = "idle" /\ exhausted /\ ~unsent /\ panics.finds = {} => possible = {}

\* Every lookup ends, whatever peers do, before and without its overall
\* deadline: each request has a deadline and each contact is asked once.
LookupEnds == phase # "idle" ~> phase = "idle"
=============================================================================
