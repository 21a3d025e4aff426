----------------------------- MODULE UploadGate -----------------------------
(***************************************************************************)
(* share.rs: UploadGate (slots, the wait queue ordered by credit score,    *)
(* the served-peer lists) and the parts of serve_shared that use it, one   *)
(* task per inbound connection.  Tasks run on several threads, so a step   *)
(* ends wherever the code releases the gate's lock or awaits.              *)
(*                                                                         *)
(* tokio's Notify is external: notify_waiters wakes the futures that are   *)
(* enabled at that moment and stores nothing for later ones.               *)
(***************************************************************************)
EXTENDS Naturals, FiniteSets

CONSTANTS
    Conns,     \* inbound connections
    Addr,      \* Addr[c]: the address the peer of c announced
    Files,     \* shared files
    Scores,    \* credit scores a connection may have when it is queued
    Slots,     \* MAX_UPLOAD_SLOTS
    QueueCap,  \* UPLOAD_QUEUE_CAP
    MaxSeq     \* bound: times a connection is queued

ASSUME GateAssumption ==
    /\ IsFiniteSet(Conns)
    /\ Scores \subseteq Nat
    /\ Slots \in Nat \ {0}
    /\ QueueCap \in Nat
    /\ MaxSeq \in Nat

VARIABLES
    slots_free, waiters, next_seq, \* GateInner
    served,  \* UploadGate.served: file -> addresses
    pc,      \* where each serve_shared is
    file,    \* the file each connection named, or NoFile
    key,     \* QueueWaiter.key of a queued connection
    woken    \* connections whose enabled Notified future has fired

gateVars == <<slots_free, waiters, next_seq>>
vars == <<gateVars, served, pc, file, key, woken>>

NoFile == "none"
NoKey == [score |-> 0, seq |-> 0]
Keys == [score : Scores, seq : 1 .. MaxSeq]

PCs == {"closed", "idle", "slot", "kicked", "rotate", "enqueue", "ranked",
        "check", "parked", "bye", "leave"}
Holding == {"slot", "kicked"}              \* permit is Some
Queued == {"ranked", "check", "parked"}    \* a QueueWaiter is alive

Init ==
    /\ slots_free = Slots /\ waiters = {} /\ next_seq = 1
    /\ served = [f \in Files |-> {}]
    /\ pc = [c \in Conns |-> "closed"]
    /\ file = [c \in Conns |-> NoFile]
    /\ key = [c \in Conns |-> NoKey]
    /\ woken = {}
-----------------------------------------------------------------------------
goto(c, where) == pc' = [pc EXCEPT ![c] = where]

\* Waiters sort best first: by higher score, then by arrival.
before(k, l) == k.score > l.score \/ (k.score = l.score /\ k.seq < l.seq)
is_best(k) == k \in waiters /\ \A l \in waiters \ {k} : before(k, l)

\* Notify::notify_waiters: whoever has enabled its future and not yet seen it fire.
notify_waiters == woken' = woken \cup {c \in Conns : pc[c] \in {"check", "parked"}}

Accept(c) ==
    /\ pc[c] = "closed"
    /\ goto(c, "idle")
    /\ UNCHANGED <<gateVars, served, file, key, woken>>

\* (Forgetting the file a connection has left, and not its address.)
stop_serving_keeps(lists, f, a) == lists

stop_serving(lists, f, a) ==
    [g \in Files |-> IF g = f THEN lists[g] \ {a} ELSE lists[g]]

\* register_served: note the new file, then drop the guard of the old one.
\* Every record of a peer at one address is the same record.
NameFile(c, f) ==
    /\ pc[c] \in {"idle", "slot"} /\ file[c] # f
    /\ file' = [file EXCEPT ![c] = f]
    /\ served' = stop_serving([served EXCEPT ![f] = @ \cup {Addr[c]}], file[c], Addr[c])
    /\ UNCHANGED <<gateVars, pc, key, woken>>

\* OP_STARTUPLOADREQ: try_grant never lets a newcomer pass a queue.
try_grant == slots_free > 0 /\ waiters = {}

StartUploadReq(c) ==
    /\ pc[c] = "idle" /\ file[c] # NoFile
    /\ \/ /\ try_grant
          /\ slots_free' = slots_free - 1
          /\ goto(c, "slot")
       \/ /\ ~try_grant
          /\ goto(c, "enqueue")
          /\ UNCHANGED slots_free
    /\ UNCHANGED <<waiters, next_seq, served, file, key, woken>>

\* enqueue, at the score of the moment; a full queue closes the connection.
Enqueue(c) ==
    /\ pc[c] = "enqueue"
    /\ \/ /\ Cardinality(waiters) >= QueueCap
          /\ goto(c, "leave")
          /\ UNCHANGED <<waiters, next_seq, key>>
       \/ /\ Cardinality(waiters) < QueueCap /\ next_seq <= MaxSeq
          /\ \E s \in Scores : key' = [key EXCEPT ![c] = [score |-> s, seq |-> next_seq]]
          /\ waiters' = waiters \cup {key'[c]}
          /\ next_seq' = next_seq + 1
          /\ goto(c, "ranked")
    /\ UNCHANGED <<slots_free, served, file, woken>>

\* granted: enable the future, BEFORE looking, on each turn of its loop.
Arm(c) ==
    /\ pc[c] = "ranked" \/ (pc[c] = "parked" /\ c \in woken)
    /\ woken' = woken \ {c}
    /\ goto(c, "check")
    /\ UNCHANGED <<gateVars, served, file, key>>

\* (Taking the slot without leaving the queue.)
Check_stays(c) ==
    /\ pc[c] = "check"
    /\ slots_free > 0 /\ is_best(key[c])
    /\ slots_free' = slots_free - 1
    /\ woken' = woken \ {c}
    /\ goto(c, "slot")
    /\ UNCHANGED <<waiters, next_seq, served, file, key>>

\* granted: look, under the lock; take the slot, or wait for the future.
Check(c) ==
    /\ pc[c] = "check"
    /\ \/ /\ slots_free > 0 /\ is_best(key[c])
          /\ slots_free' = slots_free - 1
          /\ waiters' = waiters \ {key[c]}
          /\ key' = [key EXCEPT ![c] = NoKey]
          /\ woken' = woken \ {c}
          /\ goto(c, "slot")
       \/ /\ ~(slots_free > 0 /\ is_best(key[c]))
          /\ goto(c, "parked")
          /\ UNCHANGED <<slots_free, waiters, key, woken>>
    /\ UNCHANGED <<next_seq, served, file>>

\* OP_REQUESTPARTS with the session's share spent and somebody waiting: the
\* slot is to be rotated, once OP_OUTOFPARTREQS is out.
Kick(c) ==
    /\ pc[c] = "slot" /\ waiters # {}
    /\ goto(c, "kicked")
    /\ UNCHANGED <<gateVars, served, file, key, woken>>

\* drop(permit): the slot is free at once, its waiters are woken a step later.
Rotate(c) ==
    /\ pc[c] = "kicked"
    /\ slots_free' = slots_free + 1
    /\ goto(c, "rotate")
    /\ UNCHANGED <<waiters, next_seq, served, file, key, woken>>

NotifyRotate(c) ==
    /\ pc[c] = "rotate"
    /\ notify_waiters
    /\ goto(c, "enqueue")
    /\ UNCHANGED <<gateVars, served, file, key>>

\* (Freeing a slot whether or not the connection held one.)
Close_frees(c) ==
    /\ pc[c] \in {"idle", "slot", "kicked", "ranked", "parked"}
    /\ slots_free' = slots_free + 1
    /\ waiters' = waiters \ {key[c]}
    /\ key' = [key EXCEPT ![c] = NoKey]
    /\ woken' = woken \ {c}
    /\ goto(c, "bye")
    /\ UNCHANGED <<next_seq, served, file>>

\* Hang-up, error or idle timeout while reading or writing a packet, and
\* QUEUE_WAIT while parked: the guards are dropped.
Close(c) ==
    /\ pc[c] \in {"idle", "slot", "kicked", "ranked", "parked"}
    /\ slots_free' = IF pc[c] \in Holding THEN slots_free + 1 ELSE slots_free
    /\ waiters' = waiters \ {key[c]}
    /\ key' = [key EXCEPT ![c] = NoKey]
    /\ woken' = woken \ {c}
    /\ goto(c, IF pc[c] = "idle" THEN "leave" ELSE "bye")
    /\ UNCHANGED <<next_seq, served, file>>

\* The end of the drops: a SlotGuard or a QueueWaiter wakes the waiters, then
\* the ServedGuard leaves the served list.
Bye(c) ==
    /\ \/ pc[c] = "bye" /\ notify_waiters
       \/ pc[c] = "leave" /\ UNCHANGED woken
    /\ served' = stop_serving(served, file[c], Addr[c])
    /\ file' = [file EXCEPT ![c] = NoFile]
    /\ goto(c, "closed")
    /\ UNCHANGED <<gateVars, key>>

Next ==
    \E c \in Conns :
       \/ Accept(c) \/ (\E f \in Files : NameFile(c, f))
       \/ StartUploadReq(c) \/ Enqueue(c) \/ Arm(c) \/ Check(c)
       \/ Kick(c) \/ Rotate(c) \/ NotifyRotate(c) \/ Close(c) \/ Bye(c)

Spec == Init /\ [][Next]_vars
-----------------------------------------------------------------------------
TypeOK ==
    /\ slots_free \in 0 .. Slots
    /\ waiters \subseteq Keys
    /\ next_seq \in 1 .. MaxSeq + 1
    /\ served \in [Files -> SUBSET {Addr[c] : c \in Conns}]
    /\ pc \in [Conns -> PCs]
    /\ file \in [Conns -> Files \cup {NoFile}]
    /\ key \in [Conns -> Keys \cup {NoKey}]
    /\ woken \subseteq Conns

\* Every slot is free or held by one live connection, however connections end:
\* a rotation, an error or a timeout neither leaks a slot nor frees it twice
\* (SlotGuard, the `permit` of serve_shared).
SlotsConserved ==
    slots_free + Cardinality({c \in Conns : pc[c] \in Holding}) = Slots

\* The queue is exactly the connections that are waiting: one that left "can
\* never block the peers behind it", and none waits outside it (QueueWaiter).
QueueIsExact ==
    /\ waiters = {key[c] : c \in {d \in Conns : pc[d] \in Queued}}
    /\ \A c, d \in Conns : pc[c] \in Queued /\ pc[d] \in Queued /\ key[c] = key[d] => c = d

\* "A disconnect never leaves us handing out a dead source": whoever is listed
\* for a file has a live connection that is after that file, even when a peer
\* has several connections or changes its file (ServedGuard).
NoDeadSource ==
    \A f \in Files : served[f] \subseteq {Addr[c] : c \in {d \in Conns : file[d] = f}}

\* What makes QueueIsExact inductive: a connection has a key while it is queued,
\* and every key is older than the next sequence number (enqueue).
KeysAreFresh ==
    \A c \in Conns : IF pc[c] \in Queued THEN key[c] \in Keys /\ key[c].seq < next_seq
                     ELSE key[c] = NoKey
-----------------------------------------------------------------------------
(* A statement of the code's comments that does not hold; see the findings. *)

\* A waiter is granted a slot "the moment one frees - the BEST-scored waiter
\* first": the best waiter never sleeps beside a free slot with no wake-up due.
NoStrandedSlot ==
    \A c \in Conns :
       slots_free > 0 /\ pc[c] = "parked" /\ is_best(key[c]) =>
          c \in woken \/ \E d \in Conns : pc[d] \in {"rotate", "bye"}
=============================================================================
