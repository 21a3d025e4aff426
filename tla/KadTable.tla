------------------------------ MODULE KadTable ------------------------------
(***************************************************************************)
(* The Kad routing table (mule-kad/routing.rs) and everything that writes  *)
(* it (mule-engine/kad_live.rs): contacts named by others, nodes that      *)
(* answer us, the read loop's inbound HELLO and HELLO_RES_ACK, and the     *)
(* liveness sweep with its probes.  The table is a tree of zones whose     *)
(* leaves are bins; a contact descends by the bits of its distance to us.  *)
(*                                                                         *)
(* An id IS its distance to our own id, which is 0.  Time is counted in    *)
(* sweep periods, and a contact's `expires` as the periods left to it.     *)
(***************************************************************************)
EXTENDS Integers, FiniteSets, Sequences, SequencesExt

CONSTANTS
    Bits,          \* length of an id
    Ids,           \* ids of the network, ours included
    Addr,          \* ip:port addresses
    Claims,        \* <<id, address>>: where the network says an id lives
    Speakers,      \* those of them that send datagrams of their own
    Stored,        \* nodes.dat as it may be: sequences of <<id, address, verified, key>>
    Ip, Net, Net16, \* the host, the /24 and the /16 of an address
    K,             \* contacts of a bin; DIVERSITY_STARVED_BELOW too
    KBase, KK,     \* which full bins split
    MaxPerIp, MaxPerSubnet, MaxPerBin, MaxPer16, \* the diversity caps
    Lease,         \* ALIVE_LEASE_SECS, in sweep periods
    Window,        \* PROBE_WINDOW_SECS, in sweep periods
    MaxProbes      \* KAD_SWEEP_MAX_PROBES

Pow2[n \in 0 .. Bits] == IF n = 0 THEN 1 ELSE 2 * Pow2[n - 1]
Space == 0 .. Pow2[Bits] - 1  \* all ids

ASSUME TableAssumption ==
    /\ Bits \in Nat \ {0}
    /\ Ids \subseteq Space /\ IsFiniteSet(Ids)
    /\ Claims \subseteq Ids \X Addr
    /\ Speakers \subseteq Claims
    /\ Stored \subseteq Seq(Ids \X Addr \X BOOLEAN \X BOOLEAN)
    /\ \A a, b \in Addr : Ip[a] = Ip[b] => Net16[a] = Net16[b]
    /\ {K, KBase, KK, MaxPerIp, MaxPerSubnet, MaxPerBin, MaxPer16, MaxProbes} \subseteq Nat
    /\ {Lease, Window} \subseteq Nat \ {0}
    /\ K > 0
    /\ K <= MaxPer16
    /\ Window <= Lease

VARIABLES
    bins,      \* the leaves <<level, index>>, each with its ids, oldest first
    contact,   \* what is stored of an id, or Absent
    hello_res_sent, \* hosts whose HELLO_RES_ACK we wait for
    seeds,     \* contacts of nodes.dat not yet offered to the table
    noting,    \* a verify key about to be stored, per writer of the table
    probes,    \* contacts the running sweep has still to probe
    \* -- history
    proven,    \* <<id, host>> that showed a valid receiver key
    heard,     \* <<id, host>> from where it answered, or a HELLO_REQ in its name
               \* came, whatever the sender key, while it was in the table
    keyed,     \* <<id, host>> whose last datagram handed us a key
    unanswered \* probes sent to the contact as it stands since its last sign of life

historyVars == <<proven, heard, keyed, unanswered>>
vars == <<bins, contact, hello_res_sent, seeds, noting, probes, historyVars>>

New == 3       \* KAD_TYPE_NEW
Alive == 2     \* KAD_TYPE_ALIVE
Probed == 4    \* KAD_TYPE_PROBED
Unset == -2    \* expires = None; -1 stands for every time in the past

Absent == [addr |-> "none"]
Contact == [addr: Addr, verified: BOOLEAN, key: BOOLEAN,
            kad_type: {Alive, New, Probed}, expires: Unset .. Lease]
Writers == {"node", "read_loop"}
NoNote == <<>>
Note == {NoNote} \cup (Ids \X {Ip[a] : a \in Addr} \X BOOLEAN)

-----------------------------------------------------------------------------
(* The tree *)

Least(x, y) == IF x < y THEN x ELSE y
Known(c) == {id \in Ids : c[id] # Absent}
BitOff(d, level) == (d \div Pow2[Bits - level]) % 2  \* mutant: the bit above
Bit(d, level) == (d \div Pow2[Bits - 1 - level]) % 2
Covers(leaf, d) == d \div Pow2[Bits - leaf[1]] = leaf[2]
LeafOf(b, d) == CHOOSE leaf \in DOMAIN b : Covers(leaf, d)
CanSplit(leaf) == leaf[1] < Bits /\ (leaf[2] < KK \/ leaf[1] < KBase)

\* The numbers of a set in increasing order, and what is in `ids` of a bin, in
\* the bin's order.
Rank(S, i) == Cardinality({j \in S : j < i})
InOrder(S) == [n \in 1 .. Cardinality(S) |-> CHOOSE i \in S : Rank(S, i) = n - 1]
Only(bin, ids) ==
    LET at == InOrder({i \in DOMAIN bin : bin[i] \in ids})
    IN  [n \in DOMAIN at |-> bin[at[n]]]

\* Zone::split.
Split(b, leaf) ==
    LET zero == <<leaf[1] + 1, 2 * leaf[2]>>
        one  == <<leaf[1] + 1, 2 * leaf[2] + 1>>
        Side(x) == Only(b[leaf], {d \in Ids : Bit(d, leaf[1]) = x})
    IN  [l \in (DOMAIN b \ {leaf}) \cup {zero, one} |->
            IF l = zero THEN Side(0) ELSE IF l = one THEN Side(1) ELSE b[l]]

\* Zone::add at a full bin that may split, and the bins after it has made what
\* room it can for d.
MakeRoom(b, d) ==
    LET leaf == LeafOf(b, d)
    IN  IF Len(b[leaf]) >= K /\ CanSplit(leaf) THEN Split(b, leaf) ELSE b
Grown(b, d) ==
    LET grow[n \in 0 .. Bits] == IF n = 0 THEN b ELSE MakeRoom(grow[n - 1], d)
    IN  grow[Bits]

Table == [bins |-> bins, contact |-> contact]
StarvedAtK(t) == Cardinality(Known(t.contact)) <= K  \* mutant
Starved(t) == Cardinality(Known(t.contact)) < K

Sharing(t, ids, In(_), a) == Cardinality({d \in ids : In(t.contact[d].addr) = In(a)})

\* The per-bin cap of subnet_capped, off while the table is starved.
BinCapped(t, leaf, b, a) ==
    ~Starved(t) /\ Sharing(t, Range(b[leaf]), LAMBDA x : Net[x], a) >= MaxPerBin

Fresh(a, verified) == [addr |-> a, verified |-> verified, key |-> FALSE,
                       kad_type |-> New, expires |-> Unset]

\* Mutant: the bit moves along.
RefreshedKeepsBit(old, a, verified) ==
    IF Ip[old.addr] = Ip[a]
    THEN [old EXCEPT !.addr = a, !.verified = @ \/ verified]
    ELSE Fresh(a, old.verified \/ verified)

\* Zone::add on a contact already in its bin: an address change is refused once
\* a key is held; at the same host everything earned there is kept.
Refreshed(old, a, verified) ==
    IF Ip[old.addr] = Ip[a]
    THEN [old EXCEPT !.addr = a, !.verified = @ \/ verified]
    ELSE Fresh(a, verified)

Frozen(old, a) == old.key /\ old.addr # a

\* A genuine refresh, no cap's business: the same id at the same host.
IsRefresh(t, id, a) == id \in Known(t.contact) /\ Ip[t.contact[id].addr] = Ip[a]

\* RoutingTable::add with Zone::add: the new table and whether it was accepted.
\* (The version check is left to the contacts that are offered.)
Add(t, id, a, verified) ==
    LET full16  == ~IsRefresh(t, id, a) /\ ~Starved(t) /\
                   Sharing(t, Known(t.contact), LAMBDA x : Net16[x], a) >= MaxPer16
        grown   == Grown(t.bins, id)
        leaf    == LeafOf(grown, id)
        Refused(b) == [t |-> [t EXCEPT !.bins = b], ok |-> FALSE]
    IN  IF id = 0 \/ full16 THEN Refused(t.bins)
        ELSE IF id \in Known(t.contact)
        THEN IF Frozen(t.contact[id], a) THEN Refused(t.bins)
             ELSE [t |-> [t EXCEPT !.contact[id] = Refreshed(@, a, verified)], ok |-> TRUE]
        ELSE IF Len(grown[leaf]) >= K \/ BinCapped(t, leaf, grown, a) THEN Refused(grown)
        ELSE [t |-> [bins |-> [grown EXCEPT ![leaf] = Append(@, id)],
                     contact |-> [t.contact EXCEPT ![id] = Fresh(a, verified)]],
              ok |-> TRUE]

\* Zone::set_alive: a new lease, and to the back of the bin.
SetAlive(t, id) ==
    LET leaf == LeafOf(t.bins, id)
    IN  [bins |-> [t.bins EXCEPT ![leaf] = Append(Only(@, Ids \ {id}), id)],
         contact |-> [t.contact EXCEPT ![id].kad_type = Alive, ![id].expires = Lease]]

\* Mutant: the lease is renewed after a refused add.
PromotesRefused(t, id, alive, ok) == alive /\ id \in Known(t.contact)

\* Only a contact that was there before, and whose update was accepted.
Promotes(t, id, alive, ok) == alive /\ id \in Known(t.contact) /\ ok

\* gated_add_contact, under one lock.  (An unroutable, legacy DNS-port or
\* filtered address is not in Addr.)
GatedAdd(t, id, a, verified, alive) ==
    LET capped == ~IsRefresh(t, id, a) /\
                  \/ Sharing(t, Known(t.contact), LAMBDA x : Ip[x], a) >= MaxPerIp
                  \/ Sharing(t, Known(t.contact), LAMBDA x : Net[x], a) >= MaxPerSubnet
        added  == Add(t, id, a, verified)
    IN  IF capped THEN [t |-> t, ok |-> FALSE]
        ELSE IF Promotes(t, id, alive, added.ok)
        THEN [t |-> SetAlive(added.t, id), ok |-> TRUE]
        ELSE added

-----------------------------------------------------------------------------
(* The writers *)

Store(t) == bins' = t.bins /\ contact' = t.contact

\* History is kept for the host a contact is stored at: when it moves or goes,
\* what was shown elsewhere is forgotten.
AtHome(pairs, c) == {p \in pairs : c[p[1]] # Absent /\ Ip[c[p[1]].addr] = p[2]}

\* Who showed a valid key; who proved itself alive and was believed.
Remember(id, a, valid, alive, r) ==
    /\ proven' = AtHome(IF valid THEN proven \cup {<<id, Ip[a]>>} ELSE proven, r.t.contact)
    /\ heard' = AtHome(IF alive /\ r.ok /\ contact[id] # Absent
                       THEN heard \cup {<<id, Ip[a]>>} ELSE heard, r.t.contact)
    /\ keyed' = AtHome(keyed, r.t.contact)
    /\ unanswered' = [d \in Ids |->
            IF d = id /\ r.ok /\ (alive \/ ~IsRefresh(Table, id, a)) THEN 0 ELSE unanswered[d]]

\* The engine lends the node to one method at a time, a whole sweep with its
\* probes being one: besides that method only the read loop writes the table.
NodeIdle == noting["node"] = NoNote /\ seeds = <<>> /\ probes = <<>>

\* seed_routing: the next contact of nodes.dat, with what it earned in an earlier
\* session.  The read loop is running by then.
Seed ==
    /\ seeds # <<>> /\ noting["node"] = NoNote
    /\ LET id == Head(seeds)[1]
           a  == Head(seeds)[2]
           r  == GatedAdd(Table, id, a, Head(seeds)[3], FALSE)
       IN  /\ Store(r.t) /\ Remember(id, a, Head(seeds)[3], FALSE, r)
           /\ noting' = IF Head(seeds)[4] THEN [noting EXCEPT !["node"] = <<id, Ip[a], TRUE>>]
                        ELSE noting
    /\ seeds' = Tail(seeds)
    /\ UNCHANGED <<hello_res_sent, probes>>

\* A contact named in somebody's KADEMLIA2_RES or BOOTSTRAP_RES.
Hearsay(id, a) ==
    /\ NodeIdle
    /\ LET r == GatedAdd(Table, id, a, FALSE, FALSE)
       IN  Store(r.t) /\ Remember(id, a, FALSE, FALSE, r)
    /\ UNCHANGED <<hello_res_sent, seeds, noting, probes>>

\* A node answered a request of ours: FIND and value answers do not renew its
\* lease, a BOOTSTRAP_RES does.  The key it handed us is stored in a second step.
Responder(id, a, valid, key, alive) ==
    /\ NodeIdle
    /\ LET r == GatedAdd(Table, id, a, valid, alive)
       IN  Store(r.t) /\ Remember(id, a, valid, alive, r)
    /\ noting' = [noting EXCEPT !["node"] = <<id, Ip[a], key>>]
    /\ UNCHANGED <<hello_res_sent, seeds, probes>>

\* The read loop on an inbound HELLO_REQ that passed the flood gate and the
\* blocklist; an ACK is asked of a sender without a valid key.
HelloReq(id, a, valid, key) ==
    /\ noting["read_loop"] = NoNote
    /\ LET r == GatedAdd(Table, id, a, valid, TRUE)
       IN  Store(r.t) /\ Remember(id, a, valid, TRUE, r)
    /\ noting' = [noting EXCEPT !["read_loop"] = <<id, Ip[a], key>>]
    /\ hello_res_sent' = IF valid THEN hello_res_sent ELSE hello_res_sent \cup {Ip[a]}
    /\ UNCHANGED <<seeds, probes>>

\* Mutant: the host is not compared.
StillKnown(id, ip) == contact[id] # Absent
StillAt(id, ip) == contact[id] # Absent /\ Ip[contact[id].addr] = ip

\* RoutingTable::note_verify_key: only for the host the key came from.
NoteVerifyKey(w) ==
    /\ noting[w] # NoNote
    /\ LET id  == noting[w][1]
           ip  == noting[w][2]
           key == noting[w][3]
       IN  /\ contact' = IF StillAt(id, ip) THEN [contact EXCEPT ![id].key = key] ELSE contact
           /\ keyed' = AtHome(IF key THEN keyed \cup {<<id, ip>>} ELSE keyed \ {<<id, ip>>}, contact')
    /\ noting' = [noting EXCEPT ![w] = NoNote]
    /\ UNCHANGED <<bins, hello_res_sent, seeds, probes, proven, heard, unanswered>>

\* RoutingTable::verify_contact: only at the stored host.
VerifyContact(id, ip) ==
    contact' = IF StillAt(id, ip) THEN [contact EXCEPT ![id].verified = TRUE] ELSE contact

\* A HELLO_RES_ACK: the solicitation is consumed whatever the ACK says.  (One
\* that lapses is one whose ACK never comes.)
HelloResAck(id, ip, valid) ==
    /\ noting["read_loop"] = NoNote
    /\ ip \in hello_res_sent
    /\ hello_res_sent' = hello_res_sent \ {ip}
    /\ proven' = AtHome(IF valid THEN proven \cup {<<id, ip>>} ELSE proven, contact)
    /\ IF valid THEN VerifyContact(id, ip) ELSE UNCHANGED contact
    /\ UNCHANGED <<bins, seeds, noting, probes, heard, keyed, unanswered>>

-----------------------------------------------------------------------------
(* The liveness sweep *)

DeadAtExpiry(c) == c.expires \in -1 .. 0  \* mutant: whatever its type
Dead(c) == c.kad_type = Probed /\ c.expires \in -1 .. 0
Due(c) == c.expires < 0 /\ c.kad_type # Probed

\* A period goes by for every lease.
Older == [d \in Ids |-> IF contact[d] = Absent \/ contact[d].expires < 0 THEN contact[d]
                        ELSE [contact[d] EXCEPT !.expires = @ - 1]]

\* Zone::sweep removes the dead and stamps the never-stamped at every leaf ...
Left(leaf) == Only(bins[leaf], {d \in Known(contact) : ~Dead(Older[d])})
Stamped == [d \in Ids |-> IF Older[d] = Absent \/ Dead(Older[d]) THEN Absent
                          ELSE IF Older[d].expires = Unset THEN [Older[d] EXCEPT !.expires = 0]
                          ELSE Older[d]]

\* ... then looks at the front of the bin, from the leaf closest to us to the
\* farthest, until its probes are spent.
FrontDue(leaf) == Left(leaf) # <<>> /\ Due(Stamped[Head(Left(leaf))])
FirstId(leaf) == leaf[2] * Pow2[Bits - leaf[1]]
Nearer(x, y) == FirstId(x) < FirstId(y)
Spent(leaf) ==
    Cardinality({l \in DOMAIN bins : Nearer(l, leaf) /\ FrontDue(l)}) >= MaxProbes
Probing == {leaf \in DOMAIN bins : FrontDue(leaf) /\ ~Spent(leaf)}
IsProbed(d) == Stamped[d] # Absent /\ \E leaf \in Probing : d = Head(Left(leaf))

\* The next period's run_liveness_sweep, up to its first probe.  A front that is
\* due is probed, any other is rotated away.  (The 10 s floor of CheckingType
\* cannot hold a probe back here: every stamp gives a contact at least a probe
\* window.)
Sweep ==
    /\ NodeIdle
    /\ bins' = [leaf \in DOMAIN bins |->
                   IF Left(leaf) = <<>> \/ Spent(leaf) \/ FrontDue(leaf) THEN Left(leaf)
                   ELSE Append(Tail(Left(leaf)), Head(Left(leaf)))]
    /\ contact' = [d \in Ids |->
                      IF IsProbed(d)
                      THEN [Stamped[d] EXCEPT !.expires = Window, !.kad_type = @ + 1]
                      ELSE Stamped[d]]
    /\ probes' = LET order == InOrder({FirstId(leaf) : leaf \in Probing})
                     First(d) == Head(Left(LeafOf(bins, d)))
                 IN  [i \in DOMAIN order |-> <<First(order[i]), Stamped[First(order[i])].addr>>]
    /\ unanswered' = [d \in Ids |-> IF contact'[d] = Absent THEN 0
                                    ELSE IF IsProbed(d) THEN Least(2, unanswered[d] + 1)
                                    ELSE unanswered[d]]
    /\ proven' = AtHome(proven, contact') /\ heard' = AtHome(heard, contact')
    /\ keyed' = AtHome(keyed, contact')
    /\ UNCHANGED <<hello_res_sent, seeds, noting>>

\* A probe answered: hello records the contact at the address that was PROBED,
\* which may no longer be the one the table holds.
ProbeAnswered(valid, key) ==
    /\ probes # <<>> /\ noting["node"] = NoNote
    /\ Head(probes) \in Speakers
    /\ LET id == Head(probes)[1]
           a  == Head(probes)[2]
           r  == GatedAdd(Table, id, a, valid, TRUE)
       IN  /\ Store(r.t) /\ Remember(id, a, valid, TRUE, r)
           /\ noting' = [noting EXCEPT !["node"] = <<id, Ip[a], key>>]
    /\ probes' = Tail(probes)
    /\ UNCHANGED <<hello_res_sent, seeds>>

\* A probe timed out: nothing happens until a later sweep.
ProbeLost ==
    /\ probes # <<>> /\ noting["node"] = NoNote
    /\ probes' = Tail(probes)
    /\ UNCHANGED <<bins, contact, hello_res_sent, seeds, noting, historyVars>>

-----------------------------------------------------------------------------
Init ==
    /\ bins = [l \in {<<0, 0>>} |-> <<>>]
    /\ contact = [d \in Ids |-> Absent]
    /\ hello_res_sent = {}
    /\ noting = [w \in Writers |-> NoNote]
    /\ seeds \in Stored
    /\ probes = <<>>
    /\ proven = {} /\ heard = {} /\ keyed = {}
    /\ unanswered = [d \in Ids |-> 0]

\* A sender that echoes our key has been handed one, and hands out its own.
Keys == {<<TRUE, TRUE>>, <<FALSE, TRUE>>, <<FALSE, FALSE>>}

Network ==
    \/ \E p \in Claims : Hearsay(p[1], p[2])
    \/ \E p \in Speakers, k \in Keys :
          \/ \E l \in BOOLEAN : Responder(p[1], p[2], k[1], k[2], l)
          \/ HelloReq(p[1], p[2], k[1], k[2])
    \/ \E p \in Speakers, v \in BOOLEAN : HelloResAck(p[1], Ip[p[2]], v)
    \/ \E k \in Keys : ProbeAnswered(k[1], k[2])

Upkeep ==
    \/ \E w \in Writers : NoteVerifyKey(w)
    \/ Seed \/ Sweep \/ ProbeLost

Next == Network \/ Upkeep

Spec == Init /\ [][Next]_vars

TypeOK ==
    /\ DOMAIN bins \subseteq (0 .. Bits) \X Space
    /\ \A leaf \in DOMAIN bins : bins[leaf] \in Seq(Ids) /\ Len(bins[leaf]) <= K
    /\ contact \in [Ids -> Contact \cup {Absent}]
    /\ hello_res_sent \subseteq {Ip[a] : a \in Addr}
    /\ \E full \in Stored : \E n \in 0 .. Len(full) : seeds = SubSeq(full, n + 1, Len(full))
    /\ noting \in [Writers -> Note]
    /\ probes \in Seq(Ids \X Addr) /\ Len(probes) <= MaxProbes
    /\ unanswered \in [Ids -> 0 .. 2]

-----------------------------------------------------------------------------
(* Properties *)

\* The tree stays a partition of the id space with every contact in the one bin
\* a lookup descends to, once: a split loses and misplaces nobody, and no bin
\* keeps an id the table dropped (Zone::add, split, set_alive, sweep).  (The types
\* come first.)
TreeIsExact ==
    /\ TypeOK
    /\ \A d \in Space : Cardinality({leaf \in DOMAIN bins : Covers(leaf, d)}) = 1
    /\ \A leaf \in DOMAIN bins :
          Range(bins[leaf]) = {d \in Known(contact) : Covers(leaf, d)} /\ IsInjective(bins[leaf])

\* The verified bit speaks of the address it stands beside: the node of that id
\* echoed our key from that host since it was stored there.  No move, hearsay,
\* late ACK or late probe answer carries the bit to another host.
VerifiedIsProven ==
    \A id \in Known(contact) :
        contact[id].verified => <<id, Ip[contact[id].addr]>> \in proven

\* A key is echoed only to the host that handed it out, although it is stored in
\* a second critical section, after which the contact may be elsewhere.
KeyIsItsHosts ==
    \A id \in Known(contact) : contact[id].key => <<id, Ip[contact[id].addr]>> \in keyed

\* Nobody gets a lease for somebody else: a contact of type ALIVE was heard at the
\* host the table has for it, by an answer or a HELLO_REQ from there; a refused
\* update renews nothing.  A HELLO_REQ counts with no sender key or a wrong one:
\* the read loop does not compare it, although the comment of set_alive says that
\* only one with the key we hold is a proof.
LeaseIsEarned ==
    \A id \in Known(contact) :
        contact[id].kad_type = Alive => <<id, Ip[contact[id].addr]>> \in heard

\* One host, or one /16, holds no more of the table than its cap, through
\* every order of arrivals, moves and evictions, the starved time included.
TableIsDiverse ==
    \A a \in Addr :
        /\ Sharing(Table, Known(contact), LAMBDA x : Ip[x], a) <= MaxPerIp
        /\ Sharing(Table, Known(contact), LAMBDA x : Net16[x], a) <= MaxPer16

\* What leaves the table: nobody who was not probed in vain since its last sign
\* of life, and nobody who had been alive at its host on a single lost probe.
EvictionIsDeserved ==
    [][\A id \in Known(contact) : contact'[id] = Absent =>
        /\ unanswered[id] > 0
        /\ <<id, Ip[contact[id].addr]>> \in heard => unanswered[id] > 1]_vars
=============================================================================
