-------------------------- MODULE KadTable_proofs --------------------------
(* Proofs about module KadTable, for any network, caps, leases and probes. *)
EXTENDS KadTable, FiniteSetTheorems, SequenceTheorems, WellFoundedInduction, TLAPS

\* A contact, whatever is left of its lease.
Shape == [addr: Addr, verified: BOOLEAN, key: BOOLEAN,
          kad_type: {Alive, New, Probed}, expires: Int]

\* What an accepted update makes of the contact of an id.
Updated(old, a, verified, alive) ==
    LET base == IF old = Absent THEN Fresh(a, verified) ELSE Refreshed(old, a, verified)
    IN  IF alive /\ old # Absent THEN [base EXCEPT !.kad_type = Alive, !.expires = Lease] ELSE base

\* Contacts at the host of an address, and in its /16.
OnHost(c, a) == {d \in Known(c) : Ip[c[d].addr] = Ip[a]}
InNet16(c, a) == {d \in Known(c) : Net16[c[d].addr] = Net16[a]}

\* The outcome of gated_add_contact: refused, or one contact updated within the caps.
Outcome(r, id, a, verified, alive) ==
    \/ r.ok = FALSE /\ r.t.contact = contact
    \/ /\ r.ok = TRUE
       /\ r.t.contact = [contact EXCEPT ![id] = Updated(contact[id], a, verified, alive)]
       /\ \/ IsRefresh(Table, id, a)
          \/ /\ ~(Cardinality(OnHost(contact, a)) >= MaxPerIp)
             /\ Starved(Table) \/ ~(Cardinality(InNet16(contact, a)) >= MaxPer16)

\* What the contact u that replaces `old` has of it: at the same host everything
\* it earned, from another host nothing.
KeepsEarned(u, old, a, v, alive) ==
    /\ u \in Shape /\ u.addr = a
    /\ old # Absent /\ Ip[old.addr] = Ip[a] =>
         /\ u.verified => old.verified \/ v
         /\ u.key = old.key
         /\ ~alive => u.kad_type = old.kad_type
    /\ old = Absent \/ Ip[old.addr] # Ip[a] =>
         /\ u.verified => v
         /\ u.key = FALSE
         /\ ~alive => u.kad_type = New
    /\ old # Absent /\ alive => u.kad_type = Alive
    /\ old = Absent => u.kad_type = New

\* Who proved itself alive did so at the host it is stored at.
HeardAtHome ==
    \A id \in Ids, a \in Addr :
        <<id, Ip[a]>> \in heard => contact[id] # Absent /\ Ip[a] = Ip[contact[id].addr]

\* How far a contact is from removal says how often it was probed in vain.
ProbesCounted ==
    \A id \in Known(contact) :
        /\ contact[id].kad_type = Probed => unanswered[id] > 0
        /\ <<id, Ip[contact[id].addr]>> \in heard =>
              /\ contact[id].kad_type = New => unanswered[id] > 0
              /\ contact[id].kad_type = Probed => unanswered[id] > 1

ContactsTyped ==
    /\ contact \in [Ids -> Shape \cup {Absent}]
    /\ unanswered \in [Ids -> 0 .. 2]

QueuesTyped ==
    /\ seeds \in Seq(Ids \X Addr \X BOOLEAN \X BOOLEAN)
    /\ noting \in [Writers -> {NoNote} \cup (Ids \X {Ip[a] : a \in Addr} \X BOOLEAN)]

Earned ==
    /\ VerifiedIsProven /\ KeyIsItsHosts /\ LeaseIsEarned
    /\ HeardAtHome /\ ProbesCounted /\ TableIsDiverse

TableInv == ContactsTyped /\ QueuesTyped /\ Earned

-----------------------------------------------------------------------------
\* RoutingTable::add behind gated_add_contact: either nothing that is stored of a
\* contact changes, or one contact is updated, and then within the caps.
LEMMA GatedAddDoes ==
    ASSUME contact \in [Ids -> Shape \cup {Absent}],
           NEW id \in Ids, NEW a \in Addr, NEW verified \in BOOLEAN, NEW alive \in BOOLEAN,
           NEW r, r = GatedAdd(Table, id, a, verified, alive)
    PROVE  Outcome(r, id, a, verified, alive)
<1> USE DEF Outcome
<1> DEFINE t == Table
           capped == ~IsRefresh(t, id, a) /\
                  \/ Sharing(t, Known(t.contact), LAMBDA x : Ip[x], a) >= MaxPerIp
                  \/ Sharing(t, Known(t.contact), LAMBDA x : Net[x], a) >= MaxPerSubnet
           full16  == ~IsRefresh(t, id, a) /\ ~Starved(t) /\
                   Sharing(t, Known(t.contact), LAMBDA x : Net16[x], a) >= MaxPer16
           added == Add(t, id, a, verified)
<1>1. t.contact = contact /\ t = [bins |-> bins, contact |-> contact]
  BY DEF Table
<1>2. Sharing(t, Known(t.contact), LAMBDA x : Ip[x], a) = Cardinality(OnHost(contact, a))
  BY <1>1 DEF Sharing, OnHost
<1>3. Sharing(t, Known(t.contact), LAMBDA x : Net16[x], a) = Cardinality(InNet16(contact, a))
  BY <1>1 DEF Sharing, InNet16
<1>4. /\ ~full16 => IsRefresh(t, id, a) \/ Starved(t) \/ ~(Cardinality(InNet16(contact, a)) >= MaxPer16)
      /\ ~capped => IsRefresh(t, id, a) \/ ~(Cardinality(OnHost(contact, a)) >= MaxPerIp)
  BY <1>2, <1>3
<1>5. \/ added.ok = FALSE /\ added.t.contact = contact
      \/ /\ added.ok = TRUE /\ ~full16
         /\ added.t.contact = [contact EXCEPT ![id] = Updated(contact[id], a, verified, FALSE)]
  <2> HIDE DEF t, full16
  <2>1. CASE id = 0 \/ full16
    BY <1>1, <2>1 DEF Add, full16
  <2>2. CASE id # 0 /\ ~full16 /\ contact[id] # Absent
    <3>1. id \in Known(t.contact)
      BY <1>1, <2>2 DEF Known
    <3>2. CASE Frozen(t.contact[id], a)
      BY <1>1, <2>2, <3>1, <3>2 DEF Add, full16
    <3>3. CASE ~Frozen(t.contact[id], a)
      <4>1. added = [t |-> [t EXCEPT !.contact[id] = Refreshed(@, a, verified)], ok |-> TRUE]
        BY <2>2, <3>1, <3>3 DEF Add, full16
      <4>2. added.t.contact = [contact EXCEPT ![id] = Refreshed(contact[id], a, verified)]
        <5> HIDE DEF added
        <5>1. added.t = [bins |-> bins, contact |-> [contact EXCEPT ![id] = Refreshed(contact[id], a, verified)]]
          BY <1>1, <4>1
        <5> QED
          BY <5>1
      <4> QED
        BY <2>2, <4>1, <4>2 DEF Updated
    <3> QED
      BY <3>2, <3>3
  <2>3. CASE id # 0 /\ ~full16 /\ contact[id] = Absent
    <3> DEFINE grown == Grown(t.bins, id)
               leaf == LeafOf(grown, id)
               no == Len(grown[leaf]) >= K \/ BinCapped(t, leaf, grown, a)
    <3>1. id \notin Known(t.contact)
      BY <1>1, <2>3 DEF Known
    <3>2. CASE no
      <4>1. added = [t |-> [t EXCEPT !.bins = grown], ok |-> FALSE]
        BY <2>3, <3>1, <3>2 DEF Add, full16
      <4> QED
        BY <1>1, <4>1
    <3>3. CASE ~no
      <4>1. added = [t |-> [bins |-> [grown EXCEPT ![leaf] = Append(@, id)],
                            contact |-> [t.contact EXCEPT ![id] = Fresh(a, verified)]], ok |-> TRUE]
        BY <2>3, <3>1, <3>3 DEF Add, full16
      <4>2. Updated(contact[id], a, verified, FALSE) = Fresh(a, verified)
        BY <2>3 DEF Updated
      <4> HIDE DEF added, grown, leaf, no
      <4>3. added.ok = TRUE /\ added.t.contact = [t.contact EXCEPT ![id] = Fresh(a, verified)]
        BY <4>1
      <4> QED
        BY <1>1, <2>3, <4>2, <4>3
    <3> QED
      BY <3>2, <3>3
  <2> QED
    BY <2>1, <2>2, <2>3
<1>6. r = IF capped THEN [t |-> t, ok |-> FALSE]
          ELSE IF Promotes(t, id, alive, added.ok) THEN [t |-> SetAlive(added.t, id), ok |-> TRUE]
          ELSE added
  BY DEF GatedAdd
<1>7. Promotes(t, id, alive, added.ok) <=> alive /\ contact[id] # Absent /\ added.ok = TRUE
  BY <1>1, <1>5 DEF Promotes, Known
<1> HIDE DEF t, capped, full16, added
<1>8. CASE capped
  BY <1>1, <1>6, <1>8
<1>9. CASE ~capped /\ ~Promotes(t, id, alive, added.ok)
  <2>1. r = added
    BY <1>6, <1>9
  <2>2. CASE added.ok = FALSE /\ added.t.contact = contact
    BY <2>1, <2>2
  <2>3. CASE added.ok = TRUE /\ ~full16
             /\ added.t.contact = [contact EXCEPT ![id] = Updated(contact[id], a, verified, FALSE)]
    <3>1. Updated(contact[id], a, verified, FALSE) = Updated(contact[id], a, verified, alive)
      BY <1>7, <1>9, <2>3 DEF Updated
    <3> QED
      BY <1>4, <1>9, <2>1, <2>3, <3>1 DEF t
  <2> QED
    BY <1>5, <2>2, <2>3
<1>10. CASE ~capped /\ Promotes(t, id, alive, added.ok)
  <2>1. r.ok = TRUE /\ r.t = SetAlive(added.t, id) /\ ~full16
    BY <1>5, <1>6, <1>7, <1>10
  <2>2. added.t.contact = [contact EXCEPT ![id] = Refreshed(contact[id], a, verified)]
    BY <1>5, <1>7, <1>10 DEF Updated
  <2>3. r.t.contact = [added.t.contact EXCEPT ![id].kad_type = Alive, ![id].expires = Lease]
    BY <2>1 DEF SetAlive
  <2>4. r.t.contact = [contact EXCEPT ![id] = [Refreshed(contact[id], a, verified) EXCEPT !.kad_type = Alive, !.expires = Lease]]
    BY <2>2, <2>3
  <2>5. Updated(contact[id], a, verified, alive)
          = [Refreshed(contact[id], a, verified) EXCEPT !.kad_type = Alive, !.expires = Lease]
    BY <1>7, <1>10 DEF Updated
  <2> QED
    BY <1>4, <1>10, <2>1, <2>4, <2>5 DEF t
<1> QED
  BY <1>8, <1>9, <1>10

\* An update keeps what was earned at the same host, and no more (Zone::add,
\* set_alive).
LEMMA UpdatedKeeps ==
    ASSUME NEW old \in Shape \cup {Absent}, NEW a \in Addr, NEW v \in BOOLEAN, NEW alive \in BOOLEAN,
           NEW u, u = Updated(old, a, v, alive)
    PROVE  KeepsEarned(u, old, a, v, alive)
<1> USE DEF KeepsEarned
<1> DEFINE base == IF old = Absent THEN Fresh(a, v) ELSE Refreshed(old, a, v)
<1>1. /\ base \in Shape /\ base.addr = a
      /\ old # Absent /\ Ip[old.addr] = Ip[a] =>
           (base.verified => old.verified \/ v) /\ base.key = old.key /\ base.kad_type = old.kad_type
      /\ old = Absent \/ Ip[old.addr] # Ip[a] =>
           (base.verified => v) /\ base.key = FALSE /\ base.kad_type = New
  <2>1. Fresh(a, v) \in Shape /\ Fresh(a, v).addr = a /\ Fresh(a, v).verified = v
        /\ Fresh(a, v).key = FALSE /\ Fresh(a, v).kad_type = New
    BY DEF Fresh, Shape, New, Unset
  <2>2. CASE old = Absent \/ Ip[old.addr] # Ip[a]
    BY <2>1, <2>2 DEF Refreshed
  <2>3. CASE old # Absent /\ Ip[old.addr] = Ip[a]
    <3>1. base = [old EXCEPT !.addr = a, !.verified = @ \/ v] /\ old \in Shape
      BY <2>3 DEF Refreshed
    <3> HIDE DEF base
    <3> QED
      BY <2>3, <3>1 DEF Shape
  <2> QED
    BY <2>2, <2>3
<1>2. u = IF alive /\ old # Absent THEN [base EXCEPT !.kad_type = Alive, !.expires = Lease] ELSE base
  BY DEF Updated
<1> HIDE DEF base
<1>3. CASE alive /\ old # Absent
  <2>1. u = [base EXCEPT !.kad_type = Alive, !.expires = Lease] /\ Lease \in Int
    BY <1>2, <1>3, TableAssumption
  <2>2. /\ u \in Shape /\ u.addr = base.addr /\ u.verified = base.verified /\ u.key = base.key
        /\ u.kad_type = Alive
    BY <1>1, <2>1 DEF Shape
  <2> QED
    BY <1>1, <1>3, <2>2
<1>4. CASE ~(alive /\ old # Absent)
  BY <1>1, <1>2, <1>4
<1> QED
  BY <1>3, <1>4

\* One more member than a set below its cap is within the cap.
LEMMA GrowsByOne ==
    ASSUME NEW S, IsFiniteSet(S), NEW x, NEW T \in SUBSET (S \cup {x}), NEW n \in Nat,
           ~(Cardinality(S) >= n)
    PROVE  Cardinality(T) <= n
<1>1. IsFiniteSet(S \cup {x}) /\ Cardinality(S \cup {x}) <= Cardinality(S) + 1
  BY FS_AddElement, FS_CardinalityType
<1>2. Cardinality(T) <= Cardinality(S \cup {x}) /\ IsFiniteSet(T)
  BY <1>1, FS_Subset
<1> QED
  BY <1>1, <1>2, FS_CardinalityType

\* The caps hold again after an accepted update: an id that comes or moves was
\* counted, one that stays at its host counts as before.
LEMMA UpdateIsDiverse ==
    ASSUME contact \in [Ids -> Shape \cup {Absent}], TableIsDiverse,
           NEW id \in Ids, NEW a \in Addr, NEW u \in Shape, u.addr = a,
           contact' = [contact EXCEPT ![id] = u],
           \/ IsRefresh(Table, id, a)
           \/ /\ ~(Cardinality(OnHost(contact, a)) >= MaxPerIp)
              /\ Starved(Table) \/ ~(Cardinality(InNet16(contact, a)) >= MaxPer16)
    PROVE  TableIsDiverse'
<1>0. \A b \in Addr : Cardinality(OnHost(contact, b)) <= MaxPerIp /\ Cardinality(InNet16(contact, b)) <= MaxPer16
  BY DEF TableIsDiverse, Sharing, OnHost, InNet16, Table
<1> SUFFICES ASSUME NEW b \in Addr
             PROVE  Cardinality(OnHost(contact', b)) <= MaxPerIp /\ Cardinality(InNet16(contact', b)) <= MaxPer16
  BY DEF TableIsDiverse, Sharing, OnHost, InNet16, Table
<1>1. /\ IsFiniteSet(Ids) /\ MaxPerIp \in Nat /\ MaxPer16 \in Nat /\ K \in Nat /\ K <= MaxPer16
      /\ \A x, y \in Addr : Ip[x] = Ip[y] => Net16[x] = Net16[y]
  BY TableAssumption
<1>2. \A c : /\ Known(c) \subseteq Ids /\ OnHost(c, a) \subseteq Ids /\ OnHost(c, b) \subseteq Ids
             /\ InNet16(c, a) \subseteq Ids /\ InNet16(c, b) \subseteq Ids
  BY DEF Known, OnHost, InNet16
<1>3. \A S \in SUBSET Ids : IsFiniteSet(S)
  BY <1>1, FS_Subset
<1>4. \A d \in Ids : d # id => contact'[d] = contact[d]
  OBVIOUS
<1>5. contact'[id] = u
  OBVIOUS
<1>6. IsRefresh(Table, id, a) <=> id \in Known(contact) /\ Ip[contact[id].addr] = Ip[a]
  BY DEF IsRefresh, Table
<1>7. id \in Known(contact) => contact[id] \in Shape /\ contact[id].addr \in Addr
  BY DEF Known, Shape
<1>8. ASSUME NEW S, NEW T, S \subseteq T, T \subseteq Ids, NEW n \in Nat, Cardinality(T) <= n
      PROVE  Cardinality(S) <= n
  <2>1. IsFiniteSet(T) /\ IsFiniteSet(S) /\ Cardinality(S) <= Cardinality(T)
    BY <1>3, <1>8, FS_Subset
  <2>2. Cardinality(S) \in Nat /\ Cardinality(T) \in Nat
    BY <2>1, FS_CardinalityType
  <2> QED
    BY <1>8, <2>1, <2>2
<1>9. Cardinality(OnHost(contact', b)) <= MaxPerIp
  <2>1. CASE Ip[b] # Ip[a] \/ IsRefresh(Table, id, a)
    <3>1. OnHost(contact', b) \subseteq OnHost(contact, b)
      BY <1>4, <1>5, <1>6, <2>1 DEF OnHost, Known
    <3> QED
      BY <1>0, <1>1, <1>2, <1>8, <3>1
  <2>2. CASE Ip[b] = Ip[a] /\ ~(Cardinality(OnHost(contact, a)) >= MaxPerIp)
    <3>1. OnHost(contact', b) \in SUBSET (OnHost(contact, a) \cup {id})
      BY <1>4, <2>2 DEF OnHost, Known
    <3>2. IsFiniteSet(OnHost(contact, a))
      BY <1>2, <1>3
    <3> QED
      BY <1>1, <2>2, <3>1, <3>2, GrowsByOne
  <2> QED
    BY <2>1, <2>2
<1>10. Cardinality(InNet16(contact', b)) <= MaxPer16
  <2>1. CASE Net16[b] # Net16[a] \/ IsRefresh(Table, id, a)
    <3>1. InNet16(contact', b) \subseteq InNet16(contact, b)
      BY <1>1, <1>4, <1>5, <1>6, <1>7, <2>1 DEF InNet16, Known
    <3> QED
      BY <1>0, <1>1, <1>2, <1>8, <3>1
  <2>2. CASE Net16[b] = Net16[a] /\ ~(Cardinality(InNet16(contact, a)) >= MaxPer16)
    <3>1. InNet16(contact', b) \in SUBSET (InNet16(contact, a) \cup {id})
      BY <1>4, <2>2 DEF InNet16, Known
    <3>2. IsFiniteSet(InNet16(contact, a))
      BY <1>2, <1>3
    <3> QED
      BY <1>1, <2>2, <3>1, <3>2, GrowsByOne
  <2>3. CASE Starved(Table)
    <3>1. Cardinality(Known(contact)) < K
      BY <2>3 DEF Starved, Table
    <3>2. InNet16(contact', b) \in SUBSET (Known(contact) \cup {id})
      BY <1>4 DEF InNet16, Known
    <3>3. IsFiniteSet(Known(contact)) /\ Cardinality(Known(contact)) \in Nat
      BY <1>2, <1>3, FS_CardinalityType
    <3>4. ~(Cardinality(Known(contact)) >= MaxPer16)
      BY <1>1, <3>1, <3>3
    <3> QED
      BY <1>1, <3>2, <3>3, <3>4, GrowsByOne
  <2> QED
    BY <2>1, <2>2, <2>3
<1> QED
  BY <1>9, <1>10

\* They hold when contacts only leave the table.
LEMMA SameIsDiverse ==
    ASSUME TableIsDiverse, Known(contact') \subseteq Known(contact),
           \A d \in Known(contact') : contact'[d].addr = contact[d].addr
    PROVE  TableIsDiverse'
<1>0. \A b \in Addr : Cardinality(OnHost(contact, b)) <= MaxPerIp /\ Cardinality(InNet16(contact, b)) <= MaxPer16
  BY DEF TableIsDiverse, Sharing, OnHost, InNet16, Table
<1> SUFFICES ASSUME NEW b \in Addr
             PROVE  Cardinality(OnHost(contact', b)) <= MaxPerIp /\ Cardinality(InNet16(contact', b)) <= MaxPer16
  BY DEF TableIsDiverse, Sharing, OnHost, InNet16, Table
<1>1. IsFiniteSet(Ids) /\ MaxPerIp \in Nat /\ MaxPer16 \in Nat
  BY TableAssumption
<1>2. ASSUME NEW T \in SUBSET Ids, NEW S \in SUBSET T, NEW n \in Nat, Cardinality(T) <= n
      PROVE  Cardinality(S) <= n
  <2>1. IsFiniteSet(T) /\ IsFiniteSet(S) /\ Cardinality(S) <= Cardinality(T)
    BY <1>1, FS_Subset
  <2>2. Cardinality(S) \in Nat /\ Cardinality(T) \in Nat
    BY <2>1, FS_CardinalityType
  <2> QED
    BY <1>2, <2>1, <2>2
<1>3. /\ OnHost(contact', b) \in SUBSET OnHost(contact, b) /\ OnHost(contact, b) \in SUBSET Ids
      /\ InNet16(contact', b) \in SUBSET InNet16(contact, b) /\ InNet16(contact, b) \in SUBSET Ids
  BY DEF OnHost, InNet16, Known
<1> QED
  BY <1>0, <1>1, <1>2, <1>3

\* An answer, a HELLO, a seed or hearsay: gated_add_contact keeps what is stored
\* of everybody earned.
LEMMA UpdateKeeps ==
    ASSUME ContactsTyped, Earned,
           NEW id \in Ids, NEW a \in Addr, NEW v \in BOOLEAN, NEW alive \in BOOLEAN,
           NEW r, r = GatedAdd(Table, id, a, v, alive), Store(r.t), Remember(id, a, v, alive, r)
    PROVE  ContactsTyped' /\ Earned'
<1> USE DEF ContactsTyped
<1> DEFINE u == Updated(contact[id], a, v, alive)
           pair == <<id, Ip[a]>>
           fresh == ~(contact[id] # Absent /\ Ip[contact[id].addr] = Ip[a])
<1>1. /\ contact' = r.t.contact
      /\ proven' = AtHome(IF v THEN proven \cup {pair} ELSE proven, contact')
      /\ heard' = AtHome(IF alive /\ r.ok /\ contact[id] # Absent THEN heard \cup {pair} ELSE heard, contact')
      /\ keyed' = AtHome(keyed, contact')
      /\ unanswered' = [d \in Ids |-> IF d = id /\ r.ok /\ (alive \/ ~IsRefresh(Table, id, a))
                                      THEN 0 ELSE unanswered[d]]
  BY DEF Store, Remember
<1>2. IsRefresh(Table, id, a) <=> ~fresh
  BY DEF IsRefresh, Table, Known
<1>3. \/ r.ok = FALSE /\ contact' = contact
      \/ /\ r.ok = TRUE /\ contact' = [contact EXCEPT ![id] = u]
         /\ \/ IsRefresh(Table, id, a)
            \/ /\ ~(Cardinality(OnHost(contact, a)) >= MaxPerIp)
               /\ Starved(Table) \/ ~(Cardinality(InNet16(contact, a)) >= MaxPer16)
  <2>1. Outcome(r, id, a, v, alive)
    BY GatedAddDoes
  <2> QED
    BY <1>1, <2>1 DEF Outcome
<1>4. unanswered' \in [Ids -> 0 .. 2]
  BY <1>1
<1>5. ASSUME NEW d \in Ids, NEW h, contact'[d] # Absent, h = Ip[contact'[d].addr]
      PROVE  /\ <<d, h>> \in proven => <<d, h>> \in proven'
             /\ <<d, h>> \in keyed => <<d, h>> \in keyed'
             /\ <<d, h>> \in heard => <<d, h>> \in heard'
  BY <1>1, <1>5 DEF AtHome
<1>6. HeardAtHome'
  BY <1>1 DEF HeardAtHome, AtHome
<1>7. CASE r.ok = FALSE /\ contact' = contact
  <2>1. unanswered' = unanswered
    BY <1>1, <1>7
  <2>2. heard' \subseteq heard
    BY <1>1, <1>7 DEF AtHome
  <2>3. Known(contact)' = Known(contact)
    BY <1>7 DEF Known
  <2>4. VerifiedIsProven' /\ KeyIsItsHosts' /\ LeaseIsEarned'
    BY <1>5, <1>7, <2>3 DEF Earned, VerifiedIsProven, KeyIsItsHosts, LeaseIsEarned, Known
  <2>5. ProbesCounted'
    BY <1>7, <2>1, <2>2, <2>3 DEF Earned, ProbesCounted
  <2>6. TableIsDiverse'
    BY <1>7 DEF Earned, TableIsDiverse, Sharing, Table, Known
  <2> QED
    BY <1>4, <1>6, <1>7, <2>4, <2>5, <2>6 DEF Earned
<1>8. CASE r.ok = TRUE /\ contact' = [contact EXCEPT ![id] = u]
  <2>0. contact[id] \in Shape \cup {Absent}
    OBVIOUS
  <2>1. /\ u \in Shape /\ u.addr = a
        /\ ~fresh => /\ u.verified => contact[id].verified \/ v
                     /\ u.key = contact[id].key
                     /\ ~alive => u.kad_type = contact[id].kad_type
        /\ fresh => /\ u.verified => v
                    /\ u.key = FALSE
                    /\ ~alive => u.kad_type = New
        /\ contact[id] # Absent /\ alive => u.kad_type = Alive
        /\ contact[id] = Absent => u.kad_type = New
    <3>1. KeepsEarned(u, contact[id], a, v, alive)
      BY <2>0, UpdatedKeeps
    <3> HIDE DEF u
    <3> QED
      BY <3>1 DEF KeepsEarned
  <2> HIDE DEF u
  <2>2. contact' \in [Ids -> Shape \cup {Absent}] /\ contact'[id] = u /\ contact'[id].addr = a
    BY <1>8, <2>1
  <2>3. \A d \in Ids : d # id => contact'[d] = contact[d]
    BY <1>8
  <2>4. TableIsDiverse'
    BY <1>3, <1>8, <2>1, UpdateIsDiverse DEF Earned
  <2>5. ASSUME NEW d \in Ids, d # id, d \in Known(contact)'
        PROVE  /\ d \in Known(contact) /\ contact'[d] = contact[d] /\ unanswered'[d] = unanswered[d]
               /\ \A h : <<d, h>> \in heard' => <<d, h>> \in heard
    BY <1>1, <2>3, <2>5 DEF Known, AtHome
  <2>6. VerifiedIsProven'
    <3> SUFFICES ASSUME NEW d \in Known(contact)', contact'[d].verified
                 PROVE  <<d, Ip[contact'[d].addr]>> \in proven'
      BY DEF VerifiedIsProven
    <3>0. d \in Ids /\ contact'[d] # Absent
      BY DEF Known
    <3>1. CASE d # id
      BY <1>5, <2>5, <3>0, <3>1 DEF Earned, VerifiedIsProven
    <3>2. CASE d = id
      <4>1. v \/ (~fresh /\ contact[id].verified)
        BY <2>1, <2>2, <3>2
      <4>2. CASE v
        BY <1>1, <2>2, <3>0, <3>2, <4>2 DEF AtHome
      <4>3. CASE ~fresh /\ contact[id].verified
        <5>1. <<id, Ip[a]>> \in proven
          BY <4>3 DEF Earned, VerifiedIsProven, Known
        <5> QED
          BY <1>5, <2>2, <3>0, <3>2, <5>1
      <4> QED
        BY <4>1, <4>2, <4>3
    <3> QED
      BY <3>1, <3>2
  <2>7. KeyIsItsHosts'
    <3> SUFFICES ASSUME NEW d \in Known(contact)', contact'[d].key
                 PROVE  <<d, Ip[contact'[d].addr]>> \in keyed'
      BY DEF KeyIsItsHosts
    <3>0. d \in Ids /\ contact'[d] # Absent
      BY DEF Known
    <3>1. CASE d # id
      BY <1>5, <2>5, <3>0, <3>1 DEF Earned, KeyIsItsHosts
    <3>2. CASE d = id
      <4>1. ~fresh /\ contact[id].key
        BY <2>1, <2>2, <3>2
      <4>2. <<id, Ip[a]>> \in keyed
        BY <4>1 DEF Earned, KeyIsItsHosts, Known
      <4> QED
        BY <1>5, <2>2, <3>0, <3>2, <4>2
    <3> QED
      BY <3>1, <3>2
  <2>8. LeaseIsEarned'
    <3> SUFFICES ASSUME NEW d \in Known(contact)', contact'[d].kad_type = Alive
                 PROVE  <<d, Ip[contact'[d].addr]>> \in heard'
      BY DEF LeaseIsEarned
    <3>0. d \in Ids /\ contact'[d] # Absent
      BY DEF Known
    <3>1. CASE d # id
      BY <1>5, <2>5, <3>0, <3>1 DEF Earned, LeaseIsEarned
    <3>2. CASE d = id
      <4>1. CASE alive /\ contact[id] # Absent
        BY <1>1, <1>8, <2>2, <3>0, <3>2, <4>1 DEF AtHome
      <4>2. CASE ~(alive /\ contact[id] # Absent)
        <5>1. ~fresh /\ contact[id].kad_type = Alive
          BY <2>1, <2>2, <3>2, <4>2 DEF Alive, New
        <5>2. <<id, Ip[a]>> \in heard
          BY <5>1 DEF Earned, LeaseIsEarned, Known
        <5> QED
          BY <1>5, <2>2, <3>0, <3>2, <5>2
      <4> QED
        BY <4>1, <4>2
    <3> QED
      BY <3>1, <3>2
  <2>9. ProbesCounted'
    <3> SUFFICES ASSUME NEW d \in Known(contact)'
                 PROVE  /\ contact'[d].kad_type = Probed => unanswered'[d] > 0
                        /\ <<d, Ip[contact'[d].addr]>> \in heard' =>
                              /\ contact'[d].kad_type = New => unanswered'[d] > 0
                              /\ contact'[d].kad_type = Probed => unanswered'[d] > 1
      BY DEF ProbesCounted
    <3>0. d \in Ids
      BY DEF Known
    <3>1. CASE d # id
      BY <2>5, <3>0, <3>1 DEF Earned, ProbesCounted
    <3>2. CASE d = id
      <4>1. CASE alive /\ contact[id] # Absent
        BY <2>1, <2>2, <3>2, <4>1 DEF Alive, New, Probed
      <4>2. CASE ~(alive /\ contact[id] # Absent) /\ fresh
        <5>1. contact'[id].kad_type = New
          BY <2>1, <2>2, <4>2
        <5>2. <<id, Ip[a]>> \notin heard
          BY <4>2 DEF Earned, HeardAtHome
        <5>3. <<id, Ip[a]>> \notin heard'
          BY <1>1, <4>2, <5>2 DEF AtHome
        <5> QED
          BY <2>2, <3>2, <5>1, <5>3 DEF New, Probed
      <4>3. CASE ~alive /\ ~fresh
        <5>1. unanswered'[id] = unanswered[id] /\ contact'[id].kad_type = contact[id].kad_type
          BY <1>1, <1>2, <2>1, <2>2, <4>3
        <5>2. <<id, Ip[a]>> \in heard' => <<id, Ip[a]>> \in heard
          BY <1>1, <4>3 DEF AtHome
        <5> QED
          BY <2>2, <3>2, <4>3, <5>1, <5>2 DEF Earned, ProbesCounted, Known
      <4> QED
        BY <4>1, <4>2, <4>3
    <3> QED
      BY <3>1, <3>2
  <2> QED
    BY <1>4, <1>6, <2>2, <2>4, <2>6, <2>7, <2>8, <2>9 DEF Earned
<1> QED
  BY <1>3, <1>7, <1>8

-----------------------------------------------------------------------------
(* One lemma per kind of step *)

\* The key about to be stored is that of an id at a host.
LEMMA NotesTyped ==
    ASSUME QueuesTyped, NEW w \in Writers, NEW id \in Ids, NEW a \in Addr, NEW key \in BOOLEAN,
           noting' = [noting EXCEPT ![w] = <<id, Ip[a], key>>]
    PROVE  noting' \in [Writers -> {NoNote} \cup (Ids \X {Ip[b] : b \in Addr} \X BOOLEAN)]
<1>1. <<id, Ip[a], key>> \in Ids \X {Ip[b] : b \in Addr} \X BOOLEAN
  OBVIOUS
<1> QED
  BY <1>1 DEF QueuesTyped

\* nodes.dat is offered to the table, a contact at a time.
LEMMA SeedKeeps == ASSUME TableInv, Seed PROVE TableInv'
<1> DEFINE h == Head(seeds)
           r == GatedAdd(Table, h[1], h[2], h[3], FALSE)
<1>1. seeds \in Seq(Ids \X Addr \X BOOLEAN \X BOOLEAN) /\ seeds # <<>>
  BY DEF TableInv, QueuesTyped, Seed
<1>2. h \in Ids \X Addr \X BOOLEAN \X BOOLEAN /\ Tail(seeds) \in Seq(Ids \X Addr \X BOOLEAN \X BOOLEAN)
  <2> DEFINE S == Ids \X Addr \X BOOLEAN \X BOOLEAN
  <2>1. seeds \in Seq(S) /\ seeds # <<>>
    BY <1>1
  <2> HIDE DEF S
  <2>2. Head(seeds) \in S /\ Tail(seeds) \in Seq(S)
    BY <2>1
  <2> QED
    BY <2>2 DEF S
<1>3. h[1] \in Ids /\ h[2] \in Addr /\ h[3] \in BOOLEAN /\ h[4] \in BOOLEAN
  BY <1>2
<1>4. /\ Store(r.t) /\ Remember(h[1], h[2], h[3], FALSE, r) /\ seeds' = Tail(seeds)
      /\ noting' = IF h[4] THEN [noting EXCEPT !["node"] = <<h[1], Ip[h[2]], TRUE>>] ELSE noting
  BY DEF Seed
<1>5. ContactsTyped' /\ Earned'
  <2>1. FALSE \in BOOLEAN /\ r = GatedAdd(Table, h[1], h[2], h[3], FALSE)
    OBVIOUS
  <2> HIDE DEF h, r
  <2> QED
    BY <1>3, <1>4, <2>1, UpdateKeeps DEF TableInv
<1>6. QueuesTyped'
  <2>1. seeds' \in Seq(Ids \X Addr \X BOOLEAN \X BOOLEAN)
    BY <1>2, <1>4
  <2>2. CASE h[4]
    <3>1. noting' = [noting EXCEPT !["node"] = <<h[1], Ip[h[2]], TRUE>>] /\ "node" \in Writers /\ TRUE \in BOOLEAN
      BY <1>4, <2>2 DEF Writers
    <3> HIDE DEF h
    <3> QED
      BY <1>3, <2>1, <3>1, NotesTyped DEF TableInv, QueuesTyped
  <2>3. CASE ~h[4]
    BY <1>4, <2>1, <2>3 DEF TableInv, QueuesTyped
  <2> QED
    BY <2>2, <2>3
<1> QED
  BY <1>5, <1>6 DEF TableInv

\* A contact that somebody names, one that answers, one that says hello.
LEMMA HeardOfKeeps ==
    ASSUME TableInv, NEW p \in Claims, NEW valid \in BOOLEAN, NEW alive \in BOOLEAN, NEW key \in BOOLEAN,
           NEW r, r = GatedAdd(Table, p[1], p[2], valid, alive), Store(r.t),
           Remember(p[1], p[2], valid, alive, r), seeds' = seeds,
           \/ noting' = noting
           \/ \E w \in Writers : noting' = [noting EXCEPT ![w] = <<p[1], Ip[p[2]], key>>]
    PROVE  TableInv'
<1>1. p[1] \in Ids /\ p[2] \in Addr
  BY TableAssumption
<1>2. ContactsTyped' /\ Earned'
  BY <1>1, UpdateKeeps DEF TableInv
<1>3. noting' \in [Writers -> {NoNote} \cup (Ids \X {Ip[b] : b \in Addr} \X BOOLEAN)]
  <2>1. CASE noting' = noting
    BY <2>1 DEF TableInv, QueuesTyped
  <2>2. ASSUME NEW w \in Writers, noting' = [noting EXCEPT ![w] = <<p[1], Ip[p[2]], key>>]
        PROVE  noting' \in [Writers -> {NoNote} \cup (Ids \X {Ip[b] : b \in Addr} \X BOOLEAN)]
    BY <1>1, <2>2, NotesTyped DEF TableInv
  <2> QED
    BY <2>1, <2>2
<1> QED
  BY <1>2, <1>3 DEF TableInv, QueuesTyped

\* What a network step brings.
LEMMA NetworkKeeps == ASSUME TableInv, Network PROVE TableInv'
<1>0. /\ Speakers \subseteq Claims /\ Claims \subseteq Ids \X Addr
      /\ "node" \in Writers /\ "read_loop" \in Writers
      /\ \A k \in Keys : k[1] \in BOOLEAN /\ k[2] \in BOOLEAN
  BY TableAssumption DEF Writers, Keys
<1>1. ASSUME NEW p \in Claims, Hearsay(p[1], p[2]) PROVE TableInv'
  <2>1. PICK r : r = GatedAdd(Table, p[1], p[2], FALSE, FALSE) /\ Store(r.t)
                 /\ Remember(p[1], p[2], FALSE, FALSE, r)
    BY <1>1 DEF Hearsay
  <2>2. seeds' = seeds /\ noting' = noting /\ FALSE \in BOOLEAN
    BY <1>1 DEF Hearsay
  <2> QED
    BY <2>1, <2>2, HeardOfKeeps
<1>2. ASSUME NEW p \in Speakers, NEW k \in Keys, NEW l \in BOOLEAN,
             Responder(p[1], p[2], k[1], k[2], l)
      PROVE  TableInv'
  <2>1. PICK r : r = GatedAdd(Table, p[1], p[2], k[1], l) /\ Store(r.t)
                 /\ Remember(p[1], p[2], k[1], l, r)
    BY <1>2 DEF Responder
  <2>2. seeds' = seeds /\ noting' = [noting EXCEPT !["node"] = <<p[1], Ip[p[2]], k[2]>>]
    BY <1>2 DEF Responder
  <2>3. k[1] \in BOOLEAN /\ k[2] \in BOOLEAN /\ p \in Claims
    BY <1>0
  <2> QED
    BY <1>0, <2>1, <2>2, <2>3, HeardOfKeeps
<1>3. ASSUME NEW p \in Speakers, NEW k \in Keys, HelloReq(p[1], p[2], k[1], k[2])
      PROVE  TableInv'
  <2>1. PICK r : r = GatedAdd(Table, p[1], p[2], k[1], TRUE) /\ Store(r.t)
                 /\ Remember(p[1], p[2], k[1], TRUE, r)
    BY <1>3 DEF HelloReq
  <2>2. seeds' = seeds /\ noting' = [noting EXCEPT !["read_loop"] = <<p[1], Ip[p[2]], k[2]>>]
    BY <1>3 DEF HelloReq
  <2>3. k[1] \in BOOLEAN /\ k[2] \in BOOLEAN /\ p \in Claims /\ TRUE \in BOOLEAN
    BY <1>0
  <2> QED
    BY <1>0, <2>1, <2>2, <2>3, HeardOfKeeps
<1>4. ASSUME NEW k \in Keys, ProbeAnswered(k[1], k[2]) PROVE TableInv'
  <2> DEFINE p == Head(probes)
  <2>1. PICK r : r = GatedAdd(Table, p[1], p[2], k[1], TRUE) /\ Store(r.t)
                 /\ Remember(p[1], p[2], k[1], TRUE, r)
    BY <1>4 DEF ProbeAnswered
  <2>2. /\ seeds' = seeds /\ noting' = [noting EXCEPT !["node"] = <<p[1], Ip[p[2]], k[2]>>]
        /\ p \in Speakers
    BY <1>4 DEF ProbeAnswered
  <2>3. k[1] \in BOOLEAN /\ k[2] \in BOOLEAN /\ p \in Claims /\ TRUE \in BOOLEAN
    BY <1>0, <2>2
  <2> HIDE DEF p
  <2> QED
    BY <1>0, <2>1, <2>2, <2>3, HeardOfKeeps
<1>5. ASSUME NEW p \in Speakers, NEW v \in BOOLEAN, HelloResAck(p[1], Ip[p[2]], v) PROVE TableInv'
  <2> DEFINE id == p[1]
             ip == Ip[p[2]]
  <2>0. id \in Ids
    BY <1>0
  <2>1. /\ proven' = AtHome(IF v THEN proven \cup {<<id, ip>>} ELSE proven, contact)
        /\ contact' = contact \/ (v /\ StillAt(id, ip) /\ contact' = [contact EXCEPT ![id].verified = TRUE])
        /\ UNCHANGED <<bins, seeds, noting, probes, heard, keyed, unanswered>>
    BY <1>5 DEF HelloResAck, VerifyContact
  <2> HIDE DEF id, ip
  <2>2. contact \in [Ids -> Shape \cup {Absent}]
    BY DEF TableInv, ContactsTyped
  <2>3. ASSUME NEW d \in Ids
        PROVE  \/ contact'[d] = contact[d]
               \/ /\ d = id /\ v /\ contact[d] \in Shape /\ contact'[d] \in Shape
                  /\ ip = Ip[contact[d].addr] /\ contact[d] # Absent
                  /\ contact'[d] = [contact[d] EXCEPT !.verified = TRUE]
    BY <2>0, <2>1, <2>2 DEF StillAt, Shape
  <2>4. ContactsTyped'
    <3>1. contact' \in [Ids -> Shape \cup {Absent}]
      BY <2>1, <2>2, <2>3
    <3> QED
      BY <2>1, <3>1 DEF TableInv, ContactsTyped
  <2>5. ASSUME NEW d \in Known(contact)'
        PROVE  /\ d \in Ids /\ d \in Known(contact)
               /\ contact'[d].addr = contact[d].addr /\ contact'[d].key = contact[d].key
               /\ contact'[d].kad_type = contact[d].kad_type
               /\ contact'[d].verified => contact[d].verified \/ (v /\ d = id /\ ip = Ip[contact[d].addr])
    <3>0. d \in Ids /\ contact'[d] # Absent
      BY DEF Known
    <3>1. CASE contact'[d] = contact[d]
      BY <3>0, <3>1 DEF Known
    <3>2. CASE /\ d = id /\ v /\ contact[d] \in Shape /\ contact[d] # Absent
               /\ ip = Ip[contact[d].addr]
               /\ contact'[d] = [contact[d] EXCEPT !.verified = TRUE]
      <4>1. /\ contact'[d].addr = contact[d].addr /\ contact'[d].key = contact[d].key
            /\ contact'[d].kad_type = contact[d].kad_type
        BY <3>2 DEF Shape
      <4>2. d \in Known(contact)
        BY <3>0, <3>2 DEF Known
      <4> QED
        BY <3>0, <3>2, <4>1, <4>2
    <3> QED
      BY <2>3, <3>0, <3>1, <3>2
  <2>6. VerifiedIsProven'
    <3> SUFFICES ASSUME NEW d \in Known(contact)', contact'[d].verified
                 PROVE  <<d, Ip[contact'[d].addr]>> \in proven'
      BY DEF VerifiedIsProven
    <3>1. <<d, Ip[contact[d].addr]>> \in (IF v THEN proven \cup {<<id, ip>>} ELSE proven)
      BY <2>5 DEF TableInv, Earned, VerifiedIsProven
    <3> QED
      BY <2>1, <2>5, <3>1 DEF AtHome, Known
  <2>7. KeyIsItsHosts' /\ LeaseIsEarned'
    BY <2>1, <2>5 DEF TableInv, Earned, KeyIsItsHosts, LeaseIsEarned
  <2>8. ProbesCounted'
    BY <2>1, <2>5 DEF TableInv, Earned, ProbesCounted
  <2>9. ASSUME NEW d \in Ids, contact[d] # Absent
        PROVE  contact'[d] # Absent /\ contact'[d].addr = contact[d].addr
    <3>1. CASE contact'[d] = contact[d]
      BY <2>9, <3>1
    <3>2. CASE contact[d] \in Shape /\ contact'[d] = [contact[d] EXCEPT !.verified = TRUE]
      <4>1. contact'[d].addr = contact[d].addr
        BY <3>2 DEF Shape
      <4>2. DOMAIN contact'[d] = {"addr", "verified", "key", "kad_type", "expires"} /\ DOMAIN Absent = {"addr"}
        BY <3>2 DEF Shape, Absent
      <4> QED
        BY <4>1, <4>2
    <3> QED
      BY <2>3, <3>1, <3>2
  <2>10. HeardAtHome'
    BY <2>1, <2>9 DEF TableInv, Earned, HeardAtHome
  <2>11. TableIsDiverse'
    <3>1. Known(contact') = Known(contact)
      BY <2>5, <2>9 DEF Known
    <3>2. \A d \in Known(contact) : contact'[d].addr = contact[d].addr
      BY <2>9 DEF Known
    <3> QED
      BY <3>1, <3>2, SameIsDiverse DEF TableInv, Earned
  <2> QED
    BY <2>1, <2>4, <2>6, <2>7, <2>8, <2>10, <2>11 DEF TableInv, QueuesTyped, Earned
<1> QED
  BY <1>1, <1>2, <1>3, <1>4, <1>5 DEF Network

\* The key is stored in its second critical section, at its own host or not at all.
LEMMA NoteKeeps == ASSUME TableInv, NEW w \in Writers, NoteVerifyKey(w) PROVE TableInv'
<1> DEFINE id == noting[w][1]
           ip == noting[w][2]
           key == noting[w][3]
<1>0. noting[w] \in Ids \X {Ip[a] : a \in Addr} \X BOOLEAN
  BY DEF NoteVerifyKey, TableInv, QueuesTyped
<1>1. id \in Ids /\ key \in BOOLEAN
  BY <1>0
<1>2. /\ contact' = IF StillAt(id, ip) THEN [contact EXCEPT ![id].key = key] ELSE contact
      /\ keyed' = AtHome(IF key THEN keyed \cup {<<id, ip>>} ELSE keyed \ {<<id, ip>>}, contact')
      /\ noting' = [noting EXCEPT ![w] = NoNote]
      /\ UNCHANGED <<bins, hello_res_sent, seeds, probes, proven, heard, unanswered>>
  BY DEF NoteVerifyKey
<1> HIDE DEF id, ip, key
<1>3. contact \in [Ids -> Shape \cup {Absent}]
  BY DEF TableInv, ContactsTyped
<1>4. ASSUME NEW d \in Ids
      PROVE  \/ contact'[d] = contact[d] /\ ~(d = id /\ StillAt(id, ip))
             \/ /\ d = id /\ StillAt(id, ip) /\ contact[d] \in Shape
                /\ contact'[d] = [contact[d] EXCEPT !.key = key]
  BY <1>1, <1>2, <1>3 DEF StillAt
<1>5. ASSUME NEW d \in Ids, contact[d] # Absent
      PROVE  /\ contact'[d] # Absent /\ contact'[d].addr = contact[d].addr
             /\ contact'[d].verified = contact[d].verified
             /\ contact'[d].kad_type = contact[d].kad_type
  <2>1. CASE contact'[d] = contact[d]
    BY <1>5, <2>1
  <2>2. CASE contact[d] \in Shape /\ contact'[d] = [contact[d] EXCEPT !.key = key]
    <3>1. /\ contact'[d].addr = contact[d].addr /\ contact'[d].verified = contact[d].verified
          /\ contact'[d].kad_type = contact[d].kad_type
      BY <2>2 DEF Shape
    <3>2. DOMAIN contact'[d] = {"addr", "verified", "key", "kad_type", "expires"} /\ DOMAIN Absent = {"addr"}
      BY <2>2 DEF Shape, Absent
    <3> QED
      BY <3>1, <3>2
  <2> QED
    BY <1>4, <2>1, <2>2
<1>6. ASSUME NEW d \in Ids, contact[d] = Absent PROVE contact'[d] = Absent
  BY <1>4, <1>6 DEF StillAt
<1>7. Known(contact') = Known(contact)
  BY <1>5, <1>6 DEF Known
<1>8. ContactsTyped'
  <2>1. \A d \in Ids : contact'[d] \in Shape \cup {Absent}
    BY <1>1, <1>3, <1>4 DEF Shape
  <2>2. contact' \in [Ids -> Shape \cup {Absent}]
    BY <1>2, <1>3, <2>1
  <2> QED
    BY <1>2, <2>2 DEF TableInv, ContactsTyped
<1>9. QueuesTyped'
  BY <1>2 DEF TableInv, QueuesTyped
<1>10. VerifiedIsProven' /\ LeaseIsEarned' /\ ProbesCounted'
  BY <1>2, <1>5, <1>7 DEF TableInv, Earned, VerifiedIsProven, LeaseIsEarned, ProbesCounted, Known
<1>11. HeardAtHome'
  BY <1>2, <1>5 DEF TableInv, Earned, HeardAtHome
<1>12. TableIsDiverse'
  BY <1>5, <1>7, SameIsDiverse DEF TableInv, Earned, Known
<1>13. KeyIsItsHosts'
  <2> SUFFICES ASSUME NEW d \in Known(contact'), contact'[d].key
               PROVE  <<d, Ip[contact'[d].addr]>> \in keyed'
    BY DEF KeyIsItsHosts, Known
  <2>0. d \in Ids /\ contact[d] # Absent /\ contact'[d] # Absent /\ contact'[d].addr = contact[d].addr
    BY <1>5, <1>7 DEF Known
  <2>1. <<d, Ip[contact[d].addr]>> \in (IF key THEN keyed \cup {<<id, ip>>} ELSE keyed \ {<<id, ip>>})
    <3>1. CASE contact'[d] = contact[d] /\ ~(d = id /\ StillAt(id, ip))
      <4>1. <<d, Ip[contact[d].addr]>> \in keyed
        BY <2>0, <3>1 DEF TableInv, Earned, KeyIsItsHosts, Known
      <4>2. <<d, Ip[contact[d].addr]>> # <<id, ip>>
        BY <2>0, <3>1 DEF StillAt
      <4> QED
        BY <4>1, <4>2
    <3>2. CASE /\ d = id /\ StillAt(id, ip) /\ contact[d] \in Shape
               /\ contact'[d] = [contact[d] EXCEPT !.key = key]
      <4>1. key /\ ip = Ip[contact[d].addr]
        BY <3>2 DEF StillAt, Shape
      <4> QED
        BY <3>2, <4>1
    <3> QED
      BY <1>4, <2>0, <3>1, <3>2
  <2> QED
    BY <1>2, <2>0, <2>1 DEF AtHome
<1> QED
  BY <1>8, <1>9, <1>10, <1>11, <1>12, <1>13 DEF TableInv, Earned

\* What a sweep does to a contact: it goes only as a probed one; what stays has
\* its address and its history, and is a step closer to removal if it is probed.
LEMMA SweepDoes ==
    ASSUME TableInv, Sweep, NEW d \in Ids
    PROVE  /\ contact'[d] = Absent /\ contact[d] # Absent => contact[d].kad_type = Probed
           /\ contact'[d] # Absent =>
                /\ contact[d] # Absent /\ contact'[d] \in Shape
                /\ contact'[d].addr = contact[d].addr /\ contact'[d].key = contact[d].key
                /\ contact'[d].verified = contact[d].verified
                /\ \/ /\ contact'[d].kad_type = contact[d].kad_type
                      /\ unanswered'[d] = unanswered[d]
                   \/ /\ contact[d].kad_type = Alive /\ contact'[d].kad_type = New
                      /\ unanswered'[d] = Least(2, unanswered[d] + 1)
                   \/ /\ contact[d].kad_type = New /\ contact'[d].kad_type = Probed
                      /\ unanswered'[d] = Least(2, unanswered[d] + 1)
<1> DEFINE c == contact[d]
           o == Older[d]
           s == Stamped[d]
<1>0. c \in Shape \cup {Absent}
  BY DEF TableInv, ContactsTyped
<1>1. /\ contact'[d] = IF IsProbed(d) THEN [s EXCEPT !.expires = Window, !.kad_type = @ + 1] ELSE s
      /\ unanswered'[d] = IF contact'[d] = Absent THEN 0
                          ELSE IF IsProbed(d) THEN Least(2, unanswered[d] + 1) ELSE unanswered[d]
  BY DEF Sweep
<1>2. IsProbed(d) => s # Absent /\ Due(s)
  BY DEF IsProbed, Probing, FrontDue
<1>3. c = Absent => o = Absent
  BY DEF Older
<1>4. c # Absent => /\ c \in Shape /\ o \in Shape /\ o # Absent
                    /\ o.addr = c.addr /\ o.key = c.key /\ o.verified = c.verified
                    /\ o.kad_type = c.kad_type
  <2> SUFFICES ASSUME c # Absent PROVE /\ c \in Shape /\ o \in Shape /\ o # Absent
                    /\ o.addr = c.addr /\ o.key = c.key /\ o.verified = c.verified
                    /\ o.kad_type = c.kad_type
    OBVIOUS
  <2>1. c \in Shape /\ (o = c \/ o = [c EXCEPT !.expires = c.expires - 1])
    BY <1>0 DEF Older
  <2> HIDE DEF c, o
  <2>2. o \in Shape /\ o.addr = c.addr /\ o.key = c.key /\ o.verified = c.verified /\ o.kad_type = c.kad_type
    BY <2>1 DEF Shape
  <2>3. DOMAIN o = {"addr", "verified", "key", "kad_type", "expires"} /\ DOMAIN Absent = {"addr"}
    BY <2>2 DEF Shape, Absent
  <2> QED
    BY <2>1, <2>2, <2>3
<1>5. s = IF o = Absent \/ Dead(o) THEN Absent
          ELSE IF o.expires = Unset THEN [o EXCEPT !.expires = 0] ELSE o
  BY DEF Stamped
<1> HIDE DEF c, o, s
<1>6. s = Absent => c = Absent \/ c.kad_type = Probed
  <2>1. CASE o = Absent
    BY <1>4, <2>1
  <2>2. CASE o # Absent /\ Dead(o)
    BY <1>3, <1>4, <2>2 DEF Dead
  <2>3. CASE o # Absent /\ ~Dead(o)
    <3>1. o \in Shape /\ (s = o \/ s = [o EXCEPT !.expires = 0])
      BY <1>3, <1>4, <1>5, <2>3
    <3>2. DOMAIN s = {"addr", "verified", "key", "kad_type", "expires"} /\ DOMAIN Absent = {"addr"}
      BY <3>1 DEF Shape, Absent
    <3> QED
      BY <3>2
  <2> QED
    BY <2>1, <2>2, <2>3
<1>7. s # Absent => /\ c # Absent /\ s \in Shape /\ s.addr = c.addr /\ s.key = c.key
                    /\ s.verified = c.verified /\ s.kad_type = c.kad_type
  <2> SUFFICES ASSUME s # Absent PROVE /\ c # Absent /\ s \in Shape /\ s.addr = c.addr /\ s.key = c.key
                    /\ s.verified = c.verified /\ s.kad_type = c.kad_type
    OBVIOUS
  <2>1. o # Absent /\ (s = o \/ s = [o EXCEPT !.expires = 0])
    BY <1>5
  <2>2. c # Absent /\ o \in Shape
    BY <1>3, <1>4, <2>1
  <2>3. s \in Shape /\ s.addr = o.addr /\ s.key = o.key /\ s.verified = o.verified /\ s.kad_type = o.kad_type
    BY <2>1, <2>2 DEF Shape
  <2> QED
    BY <1>4, <2>2, <2>3
<1>8. CASE ~IsProbed(d)
  <2>1. contact'[d] = s
    BY <1>1, <1>8
  <2>2. contact'[d] # Absent => unanswered'[d] = unanswered[d]
    BY <1>1, <1>8
  <2> QED
    BY <1>6, <1>7, <2>1, <2>2 DEF c
<1>9. CASE IsProbed(d)
  <2>1. s # Absent /\ s \in Shape /\ Window \in Int /\ s.kad_type # Probed /\ s.kad_type \in {Alive, New, Probed}
    BY <1>2, <1>7, <1>9, TableAssumption DEF Due, Shape
  <2>2. contact'[d] = [s EXCEPT !.expires = Window, !.kad_type = s.kad_type + 1]
    BY <1>1, <1>9
  <2>3. \/ s.kad_type = Alive /\ s.kad_type + 1 = New
        \/ s.kad_type = New /\ s.kad_type + 1 = Probed
    BY <2>1 DEF Alive, New, Probed
  <2>4. s.kad_type + 1 \in {Alive, New, Probed}
    BY <2>3
  <2>5. /\ contact'[d] \in Shape /\ contact'[d].addr = s.addr /\ contact'[d].key = s.key
        /\ contact'[d].verified = s.verified /\ contact'[d].kad_type = s.kad_type + 1
    BY <2>1, <2>2, <2>4 DEF Shape
  <2>6. DOMAIN contact'[d] = {"addr", "verified", "key", "kad_type", "expires"} /\ DOMAIN Absent = {"addr"}
    BY <2>5 DEF Shape, Absent
  <2>7. contact'[d] # Absent
    BY <2>6
  <2>8. unanswered'[d] = Least(2, unanswered[d] + 1)
    BY <1>1, <1>9, <2>7
  <2> QED
    BY <1>7, <2>1, <2>3, <2>5, <2>7, <2>8 DEF c
<1> QED
  BY <1>8, <1>9

\* The liveness sweep.
LEMMA SweepKeeps == ASSUME TableInv, Sweep PROVE TableInv'
<1>1. /\ DOMAIN contact' = Ids /\ DOMAIN unanswered' = Ids /\ contact' = [d \in Ids |-> contact'[d]]
      /\ unanswered' = [d \in Ids |-> unanswered'[d]]
      /\ proven' = AtHome(proven, contact') /\ heard' = AtHome(heard, contact')
      /\ keyed' = AtHome(keyed, contact') /\ seeds' = seeds /\ noting' = noting
      /\ \A d \in Ids : contact'[d] = Absent => unanswered'[d] = 0
  BY DEF Sweep
<1>2. \A d \in Ids : unanswered[d] \in 0 .. 2
  BY DEF TableInv, ContactsTyped
<1>3. ASSUME NEW d \in Ids
      PROVE  Least(2, unanswered[d] + 1) \in 1 .. 2 /\ (unanswered[d] > 0 => Least(2, unanswered[d] + 1) > 1)
  BY <1>2 DEF Least
<1>4. ContactsTyped'
  <2>1. \A d \in Ids : contact'[d] \in Shape \cup {Absent}
    BY SweepDoes
  <2>2. ASSUME NEW d \in Ids PROVE unanswered'[d] \in 0 .. 2
    <3>1. CASE contact'[d] = Absent
      BY <1>1, <3>1
    <3>2. CASE contact'[d] # Absent
      <4>1. unanswered'[d] = unanswered[d] \/ unanswered'[d] = Least(2, unanswered[d] + 1)
        BY <3>2, SweepDoes
      <4> QED
        BY <1>2, <1>3, <4>1
    <3> QED
      BY <3>1, <3>2
  <2> QED
    BY <1>1, <2>1, <2>2 DEF ContactsTyped
<1>5. QueuesTyped'
  BY <1>1 DEF TableInv, QueuesTyped
<1>6. ASSUME NEW d \in Known(contact')
      PROVE  /\ d \in Ids /\ d \in Known(contact) /\ contact'[d] # Absent
             /\ contact'[d].addr = contact[d].addr /\ contact'[d].key = contact[d].key
             /\ contact'[d].verified = contact[d].verified
  BY SweepDoes DEF Known
<1>7. VerifiedIsProven'
  BY <1>1, <1>6 DEF TableInv, Earned, VerifiedIsProven, AtHome, Known
<1>8. KeyIsItsHosts'
  BY <1>1, <1>6 DEF TableInv, Earned, KeyIsItsHosts, AtHome, Known
<1>9. LeaseIsEarned'
  <2> SUFFICES ASSUME NEW d \in Known(contact'), contact'[d].kad_type = Alive
               PROVE  <<d, Ip[contact'[d].addr]>> \in heard'
    BY DEF LeaseIsEarned, Known
  <2>1. contact[d].kad_type = Alive
    BY <1>6, SweepDoes DEF Alive, New, Probed
  <2> QED
    BY <1>1, <1>6, <2>1 DEF TableInv, Earned, LeaseIsEarned, AtHome
<1>10. HeardAtHome'
  BY <1>1 DEF HeardAtHome, AtHome
<1>11. ProbesCounted'
  <2> SUFFICES ASSUME NEW d \in Known(contact')
               PROVE  /\ contact'[d].kad_type = Probed => unanswered'[d] > 0
                      /\ <<d, Ip[contact'[d].addr]>> \in heard' =>
                            /\ contact'[d].kad_type = New => unanswered'[d] > 0
                            /\ contact'[d].kad_type = Probed => unanswered'[d] > 1
    BY DEF ProbesCounted, Known
  <2>1. /\ contact[d].kad_type = Probed => unanswered[d] > 0
        /\ <<d, Ip[contact[d].addr]>> \in heard =>
              /\ contact[d].kad_type = New => unanswered[d] > 0
              /\ contact[d].kad_type = Probed => unanswered[d] > 1
    BY <1>6 DEF TableInv, Earned, ProbesCounted
  <2>2. <<d, Ip[contact'[d].addr]>> \in heard' => <<d, Ip[contact[d].addr]>> \in heard
    BY <1>1, <1>6 DEF AtHome
  <2>3. Least(2, unanswered[d] + 1) > 0 /\ (unanswered[d] > 0 => Least(2, unanswered[d] + 1) > 1)
    BY <1>3, <1>6
  <2>4. \/ contact'[d].kad_type = contact[d].kad_type /\ unanswered'[d] = unanswered[d]
        \/ /\ contact[d].kad_type = Alive /\ contact'[d].kad_type = New
           /\ unanswered'[d] = Least(2, unanswered[d] + 1)
        \/ /\ contact[d].kad_type = New /\ contact'[d].kad_type = Probed
           /\ unanswered'[d] = Least(2, unanswered[d] + 1)
    BY <1>6, SweepDoes
  <2> QED
    BY <2>1, <2>2, <2>3, <2>4 DEF Alive, New, Probed
<1>12. TableIsDiverse'
  BY <1>6, SameIsDiverse DEF TableInv, Earned
<1> QED
  BY <1>4, <1>5, <1>7, <1>8, <1>9, <1>10, <1>11, <1>12 DEF TableInv, Earned

-----------------------------------------------------------------------------
(* The invariant, and what follows *)

\* The table starts empty.
LEMMA TableInit == Init => TableInv
<1> SUFFICES ASSUME Init PROVE TableInv
  OBVIOUS
<1>1. Known(contact) = {}
  BY DEF Init, Known
<1>2. ContactsTyped
  BY DEF Init, ContactsTyped
<1>3. QueuesTyped
  BY TableAssumption DEF Init, QueuesTyped
<1>4. VerifiedIsProven /\ KeyIsItsHosts /\ LeaseIsEarned /\ ProbesCounted
  BY <1>1 DEF VerifiedIsProven, KeyIsItsHosts, LeaseIsEarned, ProbesCounted
<1>5. HeardAtHome
  BY DEF Init, HeardAtHome
<1>6. TableIsDiverse
  <2>1. ASSUME NEW b \in Addr PROVE OnHost(contact, b) = {} /\ InNet16(contact, b) = {}
    BY <1>1 DEF OnHost, InNet16
  <2>2. Cardinality({}) = 0 /\ MaxPerIp \in Nat /\ MaxPer16 \in Nat
    BY FS_EmptySet, TableAssumption
  <2>3. ASSUME NEW b \in Addr
        PROVE  Cardinality(OnHost(contact, b)) <= MaxPerIp /\ Cardinality(InNet16(contact, b)) <= MaxPer16
    BY <2>1, <2>2
  <2> QED
    BY <2>3 DEF TableIsDiverse, Sharing, OnHost, InNet16, Table
<1> QED
  BY <1>2, <1>3, <1>4, <1>5, <1>6 DEF TableInv, Earned

\* Every step keeps the invariant.
LEMMA TableStep == TableInv /\ [Next]_vars => TableInv'
<1> SUFFICES ASSUME TableInv, [Next]_vars PROVE TableInv'
  OBVIOUS
<1>1. CASE Network
  BY <1>1, NetworkKeeps
<1>2. ASSUME NEW w \in Writers, NoteVerifyKey(w) PROVE TableInv'
  BY <1>2, NoteKeeps
<1>3. CASE Seed
  BY <1>3, SeedKeeps
<1>4. CASE Sweep
  BY <1>4, SweepKeeps
<1>5. CASE UNCHANGED <<bins, contact, hello_res_sent, seeds, noting, historyVars>>
  BY <1>5 DEF historyVars, TableInv, ContactsTyped, QueuesTyped, Earned, VerifiedIsProven, KeyIsItsHosts,
     LeaseIsEarned, HeardAtHome, ProbesCounted, TableIsDiverse, Sharing, Table, Known
<1> QED
  BY <1>1, <1>2, <1>3, <1>4, <1>5 DEF Next, Upkeep, ProbeLost, vars

\* The invariant holds in every reachable state.
LEMMA TableAlways == Spec => []TableInv
  BY TableInit, TableStep, PTL DEF Spec

\* The verified bit never speaks of a host that did not echo our key, whatever is
\* named, moved, answered late or acknowledged late (Zone::add, verify_contact).
THEOREM VerifiedBitIsProven == Spec => []VerifiedIsProven
<1>1. TableInv => VerifiedIsProven
  BY DEF TableInv, Earned
<1> QED
  BY <1>1, TableAlways, PTL

\* A key is held only of the host that handed it out, although it is stored in a
\* second critical section (note_verify_key).
THEOREM KeysStayAtHome == Spec => []KeyIsItsHosts
<1>1. TableInv => KeyIsItsHosts
  BY DEF TableInv, Earned
<1> QED
  BY <1>1, TableAlways, PTL

\* A contact of type ALIVE was heard at the host it is stored at: it answered, or
\* a HELLO_REQ in its name came from there, whatever its key (gated_add_contact,
\* set_alive).
THEOREM LeasesAreEarned == Spec => []LeaseIsEarned
<1>1. TableInv => LeaseIsEarned
  BY DEF TableInv, Earned
<1> QED
  BY <1>1, TableAlways, PTL

\* No host and no /16 ever holds more of the table than its cap, the starved
\* table included (gated_add_contact, RoutingTable::add).
THEOREM TableStaysDiverse == Spec => []TableIsDiverse
<1>1. TableInv => TableIsDiverse
  BY DEF TableInv, Earned
<1> QED
  BY <1>1, TableAlways, PTL

\* A contact is a contact.
LEMMA ShapeIsPresent == ASSUME NEW c \in Shape PROVE c # Absent
<1>1. DOMAIN c = {"addr", "verified", "key", "kad_type", "expires"} /\ DOMAIN Absent = {"addr"}
  BY DEF Shape, Absent
<1> QED
  BY <1>1

\* An update, accepted or refused, removes nobody.
LEMMA UpdateRemovesNobody ==
    ASSUME contact \in [Ids -> Shape \cup {Absent}],
           NEW id \in Ids, NEW a \in Addr, NEW verified \in BOOLEAN, NEW alive \in BOOLEAN,
           NEW r, r = GatedAdd(Table, id, a, verified, alive), Store(r.t),
           NEW d \in Ids, contact[d] # Absent
    PROVE  contact'[d] # Absent
<1>1. Outcome(r, id, a, verified, alive) /\ contact' = r.t.contact
  BY GatedAddDoes DEF Store
<1>2. PICK u : u = Updated(contact[id], a, verified, alive)
  OBVIOUS
<1>3. KeepsEarned(u, contact[id], a, verified, alive)
  BY <1>2, UpdatedKeeps
<1>4. u # Absent
  BY <1>3, ShapeIsPresent DEF KeepsEarned
<1>5. contact' = contact \/ contact' = [contact EXCEPT ![id] = u]
  BY <1>1, <1>2 DEF Outcome
<1> QED
  BY <1>4, <1>5

\* Only the sweep removes contacts.
LEMMA OnlySweepRemoves ==
    ASSUME TableInv, Next, ~Sweep, NEW d \in Ids, contact[d] # Absent
    PROVE  contact'[d] # Absent
<1>0. /\ Speakers \subseteq Claims /\ Claims \subseteq Ids \X Addr
      /\ \A k \in Keys : k[1] \in BOOLEAN /\ k[2] \in BOOLEAN
  BY TableAssumption DEF Keys
<1>1. contact \in [Ids -> Shape \cup {Absent}]
  BY DEF TableInv, ContactsTyped
<1>2. ASSUME NEW p \in Claims, NEW v \in BOOLEAN, NEW l \in BOOLEAN,
             Store(GatedAdd(Table, p[1], p[2], v, l).t)
      PROVE  contact'[d] # Absent
  <2>1. p[1] \in Ids /\ p[2] \in Addr
    BY <1>0
  <2>2. PICK r : r = GatedAdd(Table, p[1], p[2], v, l)
    OBVIOUS
  <2>3. Store(r.t)
    BY <1>2, <2>2
  <2> QED
    BY <1>1, <2>1, <2>2, <2>3, UpdateRemovesNobody
<1>3. CASE Network
  <2>1. ASSUME NEW p \in Claims, Hearsay(p[1], p[2]) PROVE contact'[d] # Absent
    BY <1>2, <2>1 DEF Hearsay
  <2>2. ASSUME NEW p \in Speakers, NEW k \in Keys, NEW l \in BOOLEAN,
               Responder(p[1], p[2], k[1], k[2], l)
        PROVE  contact'[d] # Absent
    BY <1>0, <1>2, <2>2 DEF Responder
  <2>3. ASSUME NEW p \in Speakers, NEW k \in Keys, HelloReq(p[1], p[2], k[1], k[2])
        PROVE  contact'[d] # Absent
    BY <1>0, <1>2, <2>3 DEF HelloReq
  <2>4. ASSUME NEW k \in Keys, ProbeAnswered(k[1], k[2]) PROVE contact'[d] # Absent
    BY <1>0, <1>2, <2>4 DEF ProbeAnswered
  <2>5. ASSUME NEW p \in Speakers, NEW v \in BOOLEAN, HelloResAck(p[1], Ip[p[2]], v)
        PROVE  contact'[d] # Absent
    <3>1. \/ contact'[d] = contact[d]
          \/ contact[d] \in Shape /\ contact'[d] = [contact[d] EXCEPT !.verified = TRUE]
      BY <1>0, <1>1, <2>5 DEF HelloResAck, VerifyContact, StillAt
    <3>2. contact[d] \in Shape => [contact[d] EXCEPT !.verified = TRUE] \in Shape
      BY DEF Shape
    <3> QED
      BY <3>1, <3>2, ShapeIsPresent
  <2> QED
    BY <1>3, <2>1, <2>2, <2>3, <2>4, <2>5 DEF Network
<1>4. ASSUME NEW w \in Writers, NoteVerifyKey(w) PROVE contact'[d] # Absent
  <2>1. noting[w] \in Ids \X {Ip[a] : a \in Addr} \X BOOLEAN
    BY <1>4 DEF NoteVerifyKey, TableInv, QueuesTyped
  <2>2. noting[w][1] \in Ids /\ noting[w][3] \in BOOLEAN
    BY <2>1
  <2>3. contact' = IF StillAt(noting[w][1], noting[w][2])
                   THEN [contact EXCEPT ![noting[w][1]].key = noting[w][3]] ELSE contact
    BY <1>4 DEF NoteVerifyKey
  <2>4. \/ contact'[d] = contact[d]
        \/ contact[d] \in Shape /\ contact'[d] = [contact[d] EXCEPT !.key = noting[w][3]]
    BY <1>1, <2>2, <2>3
  <2>5. contact[d] \in Shape => [contact[d] EXCEPT !.key = noting[w][3]] \in Shape
    BY <2>2 DEF Shape
  <2> QED
    BY <2>4, <2>5, ShapeIsPresent
<1>5. CASE Seed
  <2> DEFINE h == Head(seeds)
             S == Ids \X Addr \X BOOLEAN \X BOOLEAN
  <2>1. seeds \in Seq(S) /\ seeds # <<>>
    BY <1>5 DEF TableInv, QueuesTyped, Seed
  <2>2. Store(GatedAdd(Table, h[1], h[2], h[3], FALSE).t)
    BY <1>5 DEF Seed
  <2>3. h \in S
    <3> HIDE DEF S
    <3> QED
      BY <2>1
  <2>4. h[1] \in Ids /\ h[2] \in Addr /\ h[3] \in BOOLEAN
    BY <2>3
  <2> HIDE DEF h
  <2>5. PICK r : r = GatedAdd(Table, h[1], h[2], h[3], FALSE)
    OBVIOUS
  <2>6. Store(r.t) /\ FALSE \in BOOLEAN
    BY <2>2, <2>5
  <2> QED
    BY <1>1, <2>4, <2>5, <2>6, UpdateRemovesNobody
<1>6. CASE ProbeLost
  BY <1>6 DEF ProbeLost
<1> QED
  BY <1>3, <1>4, <1>5, <1>6 DEF Next, Upkeep

\* Nobody leaves the table who was not probed in vain since its last sign of life,
\* and nobody who had been alive at its host after a single lost probe (Zone::sweep).
THEOREM EvictionsAreDeserved == Spec => EvictionIsDeserved
<1> DEFINE Deserved == \A id \in Known(contact) : contact'[id] = Absent =>
                          /\ unanswered[id] > 0
                          /\ <<id, Ip[contact[id].addr]>> \in heard => unanswered[id] > 1
<1>1. TableInv /\ [Next]_vars => [Deserved]_vars
  <2> SUFFICES ASSUME TableInv, Next, NEW id \in Known(contact), contact'[id] = Absent
               PROVE  /\ unanswered[id] > 0
                      /\ <<id, Ip[contact[id].addr]>> \in heard => unanswered[id] > 1
    OBVIOUS
  <2>0. id \in Ids /\ contact[id] # Absent
    BY DEF Known
  <2>1. CASE Sweep
    <3>1. contact[id].kad_type = Probed
      BY <2>0, <2>1, SweepDoes
    <3> QED
      BY <3>1 DEF TableInv, Earned, ProbesCounted
  <2>2. CASE \A d \in Ids : contact[d] # Absent => contact'[d] # Absent
    BY <2>0, <2>2
  <2> QED
    BY <2>1, <2>2, OnlySweepRemoves
<1>2. Spec => [][Deserved]_vars
  BY <1>1, TableAlways, PTL DEF Spec
<1> QED
  BY <1>2 DEF EvictionIsDeserved

-----------------------------------------------------------------------------
(* Orders and iterations *)

\* A non-empty set of naturals has a least element.
LEMMA LeastNat ==
    ASSUME NEW T \in SUBSET Nat, T # {}
    PROVE  \E x \in T : \A y \in T : x <= y
<1>1. PICK x \in T : \A y \in T : ~(<<y, x>> \in OpToRel(<, Nat))
  BY NatLessThanWellFounded, WFMin
<1>2. \A y \in T : ~(y < x)
  BY <1>1 DEF OpToRel
<1> QED
  BY <1>2

\* g lists what n steps make of b.
Repeats(S, b, step, n, g) ==
    g \in [0 .. n -> S] /\ g[0] = b /\ \A k \in 1 .. n : g[k] = step[g[k - 1]]

\* A step can be repeated any number of times.
LEMMA Iterates ==
    ASSUME NEW S, NEW b \in S, NEW step \in [S -> S], NEW n \in Nat
    PROVE  \E g : Repeats(S, b, step, n, g)
<1> DEFINE Goes(m, g) == g \in [0 .. m -> S] /\ g[0] = b /\ \A k \in 1 .. m : g[k] = step[g[k - 1]]
           T == {m \in Nat : ~ \E g : Goes(m, g)}
<1>1. SUFFICES ASSUME n \in T PROVE FALSE
  BY DEF Repeats
<1>2. PICK x \in T : \A y \in T : x <= y
  BY <1>1, LeastNat
<1>3. x # 0
  <2>1. Goes(0, [k \in 0 .. 0 |-> b])
    OBVIOUS
  <2> QED
    BY <1>2, <2>1
<1>4. x \in Nat /\ x - 1 \in Nat /\ x - 1 \notin T
  <2>1. x \in Nat /\ x - 1 \in Nat /\ ~(x <= x - 1)
    BY <1>2, <1>3
  <2> QED
    BY <1>2, <2>1
<1>5. PICK g : Goes(x - 1, g)
  BY <1>4
<1> DEFINE h == [k \in 0 .. x |-> IF k = x THEN step[g[x - 1]] ELSE g[k]]
<1>6. g[x - 1] \in S /\ step[g[x - 1]] \in S
  BY <1>4, <1>5
<1>7. h \in [0 .. x -> S]
  BY <1>4, <1>5, <1>6
<1>8. h[0] = b
  BY <1>3, <1>4, <1>5
<1>9. \A k \in 1 .. x : h[k] = step[h[k - 1]]
  <2> SUFFICES ASSUME NEW k \in 1 .. x PROVE h[k] = step[h[k - 1]]
    OBVIOUS
  <2>1. CASE k = x
    BY <1>3, <1>4, <2>1
  <2>2. CASE k # x
    <3>1. k \in 1 .. (x - 1) /\ k - 1 \in 0 .. x - 1 /\ k \in 0 .. x /\ k - 1 \in 0 .. x /\ k - 1 # x
      BY <1>4, <2>2
    <3>2. h[k] = g[k] /\ h[k - 1] = g[k - 1]
      BY <2>2, <3>1
    <3> QED
      BY <1>5, <3>1, <3>2
  <2> QED
    BY <2>1, <2>2
<1>10. Goes(x, h)
  BY <1>7, <1>8, <1>9
<1> HIDE DEF Goes, h
<1> QED
  BY <1>2, <1>10

\* The powers of two.
LEMMA Powers ==
    /\ Pow2 \in [0 .. Bits -> Nat \ {0}] /\ Pow2[0] = 1
    /\ \A n \in 1 .. Bits : Pow2[n] = 2 * Pow2[n - 1]
<1> DEFINE P == Nat \ {0}
           step == [x \in P |-> 2 * x]
           F(f) == [n \in 0 .. Bits |-> IF n = 0 THEN 1 ELSE 2 * f[n - 1]]
<1>0. Bits \in Nat
  BY TableAssumption
<1>1. 1 \in P /\ step \in [P -> P]
  OBVIOUS
<1>2. \E g \in [0 .. Bits -> P] : g[0] = 1 /\ \A k \in 1 .. Bits : g[k] = step[g[k - 1]]
  <2>1. \E g : Repeats(P, 1, step, Bits, g)
    <3> HIDE DEF P, step
    <3> QED
      BY <1>0, <1>1, Iterates
  <2> QED
    BY <2>1 DEF Repeats
<1>3. PICK g \in [0 .. Bits -> P] : \A k \in 0 .. Bits : g[k] = IF k = 0 THEN 1 ELSE 2 * g[k - 1]
  <2>1. PICK g \in [0 .. Bits -> P] : g[0] = 1 /\ \A k \in 1 .. Bits : g[k] = step[g[k - 1]]
    BY <1>2
  <2>2. ASSUME NEW k \in 0 .. Bits PROVE g[k] = IF k = 0 THEN 1 ELSE 2 * g[k - 1]
    <3>1. CASE k = 0
      BY <2>1, <3>1
    <3>2. CASE k # 0
      <4>1. k \in 1 .. Bits /\ k - 1 \in 0 .. Bits
        BY <1>0, <3>2
      <4>2. g[k - 1] \in P
        BY <2>1, <4>1
      <4> QED
        BY <2>1, <3>2, <4>1, <4>2
    <3> QED
      BY <3>1, <3>2
  <2> QED
    BY <2>1, <2>2
<1>4. g = F(g)
  BY <1>3
<1>5. Pow2 = F(Pow2)
  BY <1>4 DEF Pow2
<1>6. \A k \in 0 .. Bits : Pow2[k] = IF k = 0 THEN 1 ELSE 2 * Pow2[k - 1]
  BY <1>5
<1>7. \A k \in 0 .. Bits : Pow2[k] \in P
  <2> DEFINE T == {k \in 0 .. Bits : Pow2[k] \notin P}
  <2> SUFFICES ASSUME T # {} PROVE FALSE
    OBVIOUS
  <2>1. PICK x \in T : \A y \in T : x <= y
    <3>1. T \in SUBSET Nat
      BY <1>0
    <3> HIDE DEF T
    <3> QED
      BY <3>1, LeastNat
  <2>2. x # 0
    BY <1>0, <1>6, <2>1
  <2>3. x - 1 \in 0 .. Bits /\ x - 1 \notin T
    BY <1>0, <2>1, <2>2
  <2> QED
    BY <1>6, <2>1, <2>2, <2>3
<1> QED
  BY <1>0, <1>5, <1>6, <1>7

\* Ranks count from 0 and grow with the number.
LEMMA Ranks ==
    ASSUME NEW S \in SUBSET Nat, IsFiniteSet(S), NEW c \in S
    PROVE  /\ Rank(S, c) \in 0 .. Cardinality(S) - 1
           /\ \A d \in S : c < d => Rank(S, c) < Rank(S, d)
           /\ \A d \in S : Rank(S, c) = Rank(S, d) => c = d
<1> DEFINE Below(x) == {d \in S : d < x}
<1>1. \A x : IsFiniteSet(Below(x)) /\ Cardinality(Below(x)) \in Nat
  <2> TAKE x
  <2>1. Below(x) \in SUBSET S
    OBVIOUS
  <2> HIDE DEF Below
  <2>2. IsFiniteSet(Below(x))
    BY <2>1, FS_Subset
  <2> QED
    BY <2>2, FS_CardinalityType
<1>2. ASSUME NEW U, IsFiniteSet(U), NEW T \in SUBSET U, NEW x \in U, x \notin T
      PROVE  Cardinality(T) < Cardinality(U)
  <2>1. IsFiniteSet(T) /\ Cardinality(T) <= Cardinality(U) /\ (Cardinality(T) = Cardinality(U) => T = U)
    BY <1>2, FS_Subset
  <2>2. T # U
    BY <1>2
  <2>3. Cardinality(T) \in Nat /\ Cardinality(U) \in Nat
    BY <1>2, <2>1, FS_CardinalityType
  <2> QED
    BY <2>1, <2>2, <2>3
<1>3. Cardinality(Below(c)) < Cardinality(S)
  <2>1. Below(c) \in SUBSET S /\ c \notin Below(c)
    OBVIOUS
  <2> HIDE DEF Below
  <2> QED
    BY <1>2, <2>1
<1>4. ASSUME NEW x \in S, NEW d \in S, x < d PROVE Cardinality(Below(x)) < Cardinality(Below(d))
  <2>0. x \in Nat /\ d \in Nat /\ \A y \in S : y \in Nat
    OBVIOUS
  <2>1. ASSUME NEW y \in Below(x) PROVE y \in Below(d)
    BY <1>4, <2>0
  <2>2. x \in Below(d) /\ x \notin Below(x)
    BY <1>4, <2>0
  <2>3. IsFiniteSet(Below(d)) /\ Below(x) \in SUBSET Below(d)
    BY <1>1, <2>1
  <2> HIDE DEF Below
  <2> QED
    BY <1>2, <2>2, <2>3
<1>5. \A x : Rank(S, x) = Cardinality(Below(x))
  BY DEF Rank
<1>6. Cardinality(S) \in Nat
  BY FS_CardinalityType
<1> HIDE DEF Below
<1>7. Rank(S, c) \in 0 .. Cardinality(S) - 1
  BY <1>1, <1>3, <1>5, <1>6
<1>8. \A d \in S : c < d => Rank(S, c) < Rank(S, d)
  BY <1>4, <1>5
<1>9. ASSUME NEW d \in S, Rank(S, c) = Rank(S, d) PROVE c = d
  <2>1. Rank(S, c) \in Nat
    BY <1>7
  <2>2. ~(c < d)
    BY <1>8, <1>9, <2>1
  <2>3. ~(d < c)
    BY <1>4, <1>5, <1>9, <2>1
  <2> QED
    BY <2>2, <2>3
<1> QED
  BY <1>7, <1>8, <1>9

\* Every rank is taken: a set in order is a sequence of all its members, each once.
LEMMA OrderIsComplete ==
    ASSUME NEW S \in SUBSET Nat, IsFiniteSet(S)
    PROVE  /\ InOrder(S) \in [1 .. Cardinality(S) -> S]
           /\ \A c \in S : \E i \in 1 .. Cardinality(S) : InOrder(S)[i] = c
           /\ \A i, j \in 1 .. Cardinality(S) : InOrder(S)[i] = InOrder(S)[j] => i = j
           /\ \A i \in 1 .. Cardinality(S) : Rank(S, InOrder(S)[i]) = i - 1
<1> DEFINE n == Cardinality(S)
           I == 0 .. n - 1
           f == [c \in S |-> Rank(S, c)]
<1>0. n \in Nat
  BY FS_CardinalityType
<1>1. f \in [S -> I]
  BY Ranks
<1>2. \A c, d \in S : f[c] = f[d] => c = d
  BY Ranks
<1>3. f \in Injection(S, I)
  BY <1>1, <1>2 DEF Injection, IsInjective
<1>4. IsFiniteSet(I) /\ Cardinality(I) = n
  <2> HIDE DEF n
  <2>1. 0 \in Int /\ n - 1 \in Int
    BY <1>0
  <2>2. IsFiniteSet(0 .. n - 1) /\ Cardinality(0 .. n - 1) = IF 0 > n - 1 THEN 0 ELSE n - 1 - 0 + 1
    BY <2>1, FS_Interval
  <2> QED
    BY <1>0, <2>2
<1>5. f \in Surjection(S, I)
  BY <1>3, <1>4, FS_Injection
<1>6. \A k \in I : \E c \in S : Rank(S, c) = k
  BY <1>5 DEF Surjection
<1>7. \A i \in 1 .. n : i - 1 \in I
  BY <1>0
<1>8. \A i \in 1 .. n : InOrder(S)[i] \in S /\ Rank(S, InOrder(S)[i]) = i - 1
  BY <1>6, <1>7 DEF InOrder
<1>9. \A c \in S : Rank(S, c) + 1 \in 1 .. n
  BY <1>0, Ranks
<1>10. ASSUME NEW c \in S PROVE InOrder(S)[Rank(S, c) + 1] = c
  <2>a. PICK m : m = Rank(S, c)
    OBVIOUS
  <2>b. m \in Nat /\ m + 1 \in 1 .. n
    BY <1>0, <2>a, Ranks
  <2>c. PICK k : k = m + 1
    OBVIOUS
  <2>0. k \in 1 .. n /\ k = Rank(S, c) + 1 /\ k - 1 = Rank(S, c)
    BY <2>a, <2>b, <2>c
  <2>1. PICK d : d = InOrder(S)[k]
    OBVIOUS
  <2>2. d \in S /\ Rank(S, d) = k - 1
    BY <1>8, <2>0, <2>1
  <2>3. d = c
    BY <2>0, <2>2, Ranks
  <2> QED
    BY <2>0, <2>1, <2>3
<1>11. \A i, j \in 1 .. n : InOrder(S)[i] = InOrder(S)[j] => i = j
  BY <1>0, <1>8
<1>12. InOrder(S) \in [1 .. n -> S]
  BY <1>8 DEF InOrder
<1> QED
  BY <1>8, <1>9, <1>10, <1>11, <1>12

\* Only keeps what is in a set, in order, each once.
LEMMA OnlyDoes ==
    ASSUME NEW S, NEW bin \in Seq(S), IsInjective(bin), NEW ids, NEW q, q = Only(bin, ids)
    PROVE  /\ q \in Seq(S) /\ Len(q) <= Len(bin) /\ IsInjective(q)
           /\ Range(q) = Range(bin) \cap ids
           /\ \A x \in Range(bin) : x \notin ids => Len(q) < Len(bin)
<1> DEFINE I == {i \in DOMAIN bin : bin[i] \in ids}
           n == Cardinality(I)
<1>1. DOMAIN bin = 1 .. Len(bin) /\ Len(bin) \in Nat /\ I \in SUBSET (1 .. Len(bin))
  OBVIOUS
<1>2. IsFiniteSet(1 .. Len(bin)) /\ Cardinality(1 .. Len(bin)) = Len(bin)
  <2>1. 1 \in Int /\ Len(bin) \in Int
    BY <1>1
  <2>2. IsFiniteSet(1 .. Len(bin)) /\ Cardinality(1 .. Len(bin)) = IF 1 > Len(bin) THEN 0 ELSE Len(bin) - 1 + 1
    BY <2>1, FS_Interval
  <2> QED
    BY <1>1, <2>2
<1>3. /\ I \in SUBSET Nat /\ IsFiniteSet(I) /\ n \in Nat /\ n <= Len(bin)
      /\ n = Len(bin) => I = 1 .. Len(bin)
  <2> HIDE DEF I
  <2>1. /\ IsFiniteSet(I) /\ Cardinality(I) <= Cardinality(1 .. Len(bin))
        /\ Cardinality(I) = Cardinality(1 .. Len(bin)) => I = 1 .. Len(bin)
    BY <1>1, <1>2, FS_Subset
  <2>2. I \in SUBSET Nat
    BY <1>1
  <2> QED
    BY <1>2, <2>1, <2>2, FS_CardinalityType
<1>4. PICK at : at = InOrder(I)
  OBVIOUS
<1>5. /\ at \in [1 .. n -> I]
      /\ \A i \in I : \E k \in 1 .. n : at[k] = i
      /\ \A k, l \in 1 .. n : at[k] = at[l] => k = l
  <2> HIDE DEF I
  <2> QED
    BY <1>3, <1>4, OrderIsComplete
<1>6. q = [k \in 1 .. n |-> bin[at[k]]]
  <2>1. q = [k \in DOMAIN at |-> bin[at[k]]]
    BY <1>4 DEF Only
  <2> HIDE DEF I, n
  <2> QED
    BY <1>5, <2>1
<1>7. \A k \in 1 .. n : at[k] \in I /\ bin[at[k]] \in S /\ bin[at[k]] \in ids /\ at[k] \in DOMAIN bin
  BY <1>1, <1>5
<1> HIDE DEF I, n
<1>8. q \in Seq(S) /\ Len(q) = n /\ DOMAIN q = 1 .. n
  BY <1>3, <1>6, <1>7
<1>9. IsInjective(q)
  BY <1>5, <1>6, <1>7, <1>8 DEF IsInjective
<1>10. Range(q) = Range(bin) \cap ids
  <2>1. \A x \in Range(q) : x \in Range(bin) \cap ids
    BY <1>6, <1>7, <1>8 DEF Range
  <2>2. \A x \in Range(bin) \cap ids : x \in Range(q)
    BY <1>5, <1>6, <1>8 DEF Range, I
  <2> QED
    BY <2>1, <2>2
<1>11. ASSUME NEW x \in Range(bin), x \notin ids PROVE Len(q) < Len(bin)
  <2>1. PICK i \in DOMAIN bin : bin[i] = x
    BY DEF Range
  <2>2. i \notin I /\ i \in 1 .. Len(bin)
    BY <1>1, <1>11, <2>1 DEF I
  <2>3. PICK m : m = Len(bin)
    OBVIOUS
  <2>4. n # m /\ n <= m /\ n \in Nat /\ m \in Nat /\ Len(q) = n
    BY <1>1, <1>3, <1>8, <2>2, <2>3
  <2>5. n < m
    BY <2>4
  <2> QED
    BY <2>3, <2>4, <2>5
<1> QED
  BY <1>3, <1>8, <1>9, <1>10, <1>11

-----------------------------------------------------------------------------
(* The leaves *)

\* Leaves within the id space.
Leaves == {l \in (0 .. Bits) \X Space : (l[2] + 1) * Pow2[Bits - l[1]] <= Pow2[Bits]}

\* The ids of a leaf are an interval.
LEMMA CoversInterval ==
    ASSUME NEW level \in 0 .. Bits, NEW i \in Nat, NEW d \in Nat, NEW w, w = Pow2[Bits - level]
    PROVE  w \in Nat \ {0} /\ (Covers(<<level, i>>, d) <=> i * w <= d /\ d < (i + 1) * w)
<1>1. Bits \in Nat /\ Bits - level \in 0 .. Bits
  BY TableAssumption
<1>2. w \in Nat \ {0}
  BY <1>1, Powers
<1>3. d \div w = i <=> i * w <= d /\ d < (i + 1) * w
  BY <1>2
<1>4. Covers(<<level, i>>, d) <=> d \div w = i
  BY DEF Covers
<1> QED
  BY <1>2, <1>3, <1>4

\* A leaf is what its halves are, and the next bit tells which.
LEMMA HalvesCover ==
    ASSUME NEW level \in 0 .. Bits - 1, NEW i \in Nat, <<level, i>> \in Leaves
    PROVE  /\ <<level + 1, 2 * i>> \in Leaves /\ <<level + 1, 2 * i + 1>> \in Leaves
           /\ \A d \in Nat :
                /\ Covers(<<level, i>>, d) <=>
                      Covers(<<level + 1, 2 * i>>, d) \/ Covers(<<level + 1, 2 * i + 1>>, d)
                /\ Covers(<<level + 1, 2 * i>>, d) => Bit(d, level) = 0
                /\ Covers(<<level + 1, 2 * i + 1>>, d) => Bit(d, level) = 1
<1> DEFINE v == Pow2[Bits - (level + 1)]
           w == Pow2[Bits - level]
           all == Pow2[Bits]
<1>1. Bits \in Nat \ {0} /\ level + 1 \in 0 .. Bits /\ level \in 0 .. Bits
  BY TableAssumption
<1>2. v \in Nat \ {0} /\ w = 2 * v /\ all \in Nat \ {0}
  <2>1. Bits - level \in 1 .. Bits /\ (Bits - level) - 1 = Bits - (level + 1) /\ Bits - (level + 1) \in 0 .. Bits
        /\ Bits \in 0 .. Bits
    BY <1>1
  <2> QED
    BY <2>1, Powers
<1>3. (i + 1) * w <= all
  BY DEF Leaves
<1>4. v = Pow2[Bits - 1 - level]
  <2>1. Bits - 1 - level = Bits - (level + 1)
    BY <1>1
  <2> QED
    BY <2>1
<1>5. /\ Space = 0 .. all - 1
      /\ \A l, j \in Nat : <<l, j>> \in Leaves <=> l \in 0 .. Bits /\ j \in Space /\ (j + 1) * Pow2[Bits - l] <= all
  BY DEF Space, Leaves
<1>6. ASSUME NEW d \in Nat
      PROVE  /\ Covers(<<level, i>>, d) <=> i * w <= d /\ d < (i + 1) * w
             /\ Covers(<<level + 1, 2 * i>>, d) <=> (2 * i) * v <= d /\ d < (2 * i + 1) * v
             /\ Covers(<<level + 1, 2 * i + 1>>, d) <=> (2 * i + 1) * v <= d /\ d < (2 * i + 1 + 1) * v
  <2>1. 2 * i \in Nat /\ 2 * i + 1 \in Nat
    OBVIOUS
  <2> QED
    BY <1>1, <2>1, CoversInterval
<1>7. ASSUME NEW d \in Nat, NEW x \in {2 * i, 2 * i + 1}, Covers(<<level + 1, x>>, d) PROVE Bit(d, level) = x % 2
  BY <1>4, <1>7 DEF Bit, Covers
<1> HIDE DEF v, w, all
<1>8. PICK z : z = i * v
  OBVIOUS
<1>9. /\ z \in Nat /\ i * w = 2 * z /\ (i + 1) * w = 2 * z + 2 * v /\ (2 * i) * v = 2 * z
      /\ (2 * i + 1) * v = 2 * z + v /\ (2 * i + 1 + 1) * v = 2 * z + 2 * v
  BY <1>2, <1>8
<1>10. 2 * i \in Space /\ 2 * i + 1 \in Space
  <2>1. 2 * i + 2 <= all
    <3>1. (2 * i + 1 + 1) * v >= 2 * i + 1 + 1
      BY <1>2
    <3> QED
      BY <1>2, <1>3, <1>9, <3>1
  <2> QED
    BY <1>2, <1>5, <2>1
<1>11. <<level + 1, 2 * i>> \in Leaves /\ <<level + 1, 2 * i + 1>> \in Leaves
  <2>1. (2 * i + 1) * v <= all /\ (2 * i + 1 + 1) * v <= all
    BY <1>2, <1>3, <1>9
  <2> QED
    BY <1>1, <1>5, <1>10, <2>1 DEF v
<1>12. ASSUME NEW d \in Nat
       PROVE  Covers(<<level, i>>, d) <=>
                 Covers(<<level + 1, 2 * i>>, d) \/ Covers(<<level + 1, 2 * i + 1>>, d)
  BY <1>2, <1>6, <1>9
<1>13. (2 * i) % 2 = 0 /\ (2 * i + 1) % 2 = 1
  OBVIOUS
<1> QED
  BY <1>7, <1>11, <1>12, <1>13

-----------------------------------------------------------------------------
(* The trees *)

\* The bins b are an exact index of the ids `known`.
Exact(b, known) ==
    /\ \A d \in Space : \E l \in DOMAIN b : Covers(l, d)
    /\ \A d \in Space : \A l, m \in DOMAIN b : Covers(l, d) /\ Covers(m, d) => l = m
    /\ \A l \in DOMAIN b : /\ Len(b[l]) <= K /\ IsInjective(b[l])
                           /\ Range(b[l]) = {d \in known : Covers(l, d)}

\* The trees with an exact index of `known`.
Trees(known) ==
    {b \in UNION {[D -> Seq(Ids)] : D \in SUBSET Leaves} : Exact(b, known)}

\* What it takes to be a tree.
LEMMA TreeParts ==
    ASSUME NEW known, NEW b
    PROVE  b \in Trees(known) <=>
             /\ DOMAIN b \in SUBSET Leaves /\ b \in [DOMAIN b -> Seq(Ids)] /\ Exact(b, known)
<1>1. ASSUME b \in Trees(known)
      PROVE  DOMAIN b \in SUBSET Leaves /\ b \in [DOMAIN b -> Seq(Ids)] /\ Exact(b, known)
  <2>1. PICK D \in SUBSET Leaves : b \in [D -> Seq(Ids)]
    BY <1>1 DEF Trees
  <2>2. Exact(b, known)
    BY <1>1 DEF Trees
  <2> QED
    BY <2>1, <2>2
<1>2. ASSUME DOMAIN b \in SUBSET Leaves, b \in [DOMAIN b -> Seq(Ids)], Exact(b, known)
      PROVE  b \in Trees(known)
  BY <1>2 DEF Trees
<1> QED
  BY <1>1, <1>2

\* A leaf is a pair of a level and an index.
LEMMA LeafParts ==
    ASSUME NEW l \in Leaves
    PROVE  l[1] \in 0 .. Bits /\ l[2] \in Nat /\ l = <<l[1], l[2]>> /\ l \in (0 .. Bits) \X Space
<1>1. l \in (0 .. Bits) \X Space /\ Space \subseteq Nat
  BY DEF Leaves, Space
<1>2. ASSUME NEW A, NEW B, NEW p \in A \X B PROVE p[1] \in A /\ p[2] \in B /\ p = <<p[1], p[2]>>
  OBVIOUS
<1> QED
  BY <1>1, <1>2

\* Ids are of the id space.
LEMMA IdsAreNat == Ids \subseteq Space /\ Space \subseteq Nat
  BY TableAssumption DEF Space

\* The halves of a leaf.
LEMMA HalvesOf ==
    ASSUME NEW leaf \in Leaves, leaf[1] < Bits, NEW zero, NEW one,
           zero = <<leaf[1] + 1, 2 * leaf[2]>>, one = <<leaf[1] + 1, 2 * leaf[2] + 1>>
    PROVE  /\ zero \in Leaves /\ one \in Leaves
           /\ \A d \in Nat :
                /\ Covers(leaf, d) <=> Covers(zero, d) \/ Covers(one, d)
                /\ Covers(zero, d) => Bit(d, leaf[1]) = 0
                /\ Covers(one, d) => Bit(d, leaf[1]) = 1
<1>1. PICK level, i : level = leaf[1] /\ i = leaf[2]
  OBVIOUS
<1>2. level \in 0 .. Bits - 1 /\ i \in Nat /\ leaf = <<level, i>>
  BY <1>1, LeafParts, TableAssumption
<1>3. zero = <<level + 1, 2 * i>> /\ one = <<level + 1, 2 * i + 1>>
  BY <1>1
<1>4. <<level, i>> \in Leaves
  BY <1>2
<1>5. /\ <<level + 1, 2 * i>> \in Leaves /\ <<level + 1, 2 * i + 1>> \in Leaves
      /\ \A d \in Nat :
                /\ Covers(<<level, i>>, d) <=>
                      Covers(<<level + 1, 2 * i>>, d) \/ Covers(<<level + 1, 2 * i + 1>>, d)
                /\ Covers(<<level + 1, 2 * i>>, d) => Bit(d, level) = 0
                /\ Covers(<<level + 1, 2 * i + 1>>, d) => Bit(d, level) = 1
  BY <1>2, <1>4, HalvesCover
<1>6. /\ zero \in Leaves /\ one \in Leaves
      /\ \A d \in Nat :
                /\ Covers(leaf, d) <=> Covers(zero, d) \/ Covers(one, d)
                /\ Covers(zero, d) => Bit(d, level) = 0
                /\ Covers(one, d) => Bit(d, level) = 1
  BY <1>2, <1>3, <1>5, Zenon
<1> QED
  BY <1>1, <1>6, Zenon

\* Zone::split loses and misplaces nobody.
LEMMA SplitKeeps ==
    ASSUME NEW known \in SUBSET Ids, NEW b \in Trees(known), NEW leaf \in DOMAIN b, leaf[1] < Bits
    PROVE  Split(b, leaf) \in Trees(known)
<1> DEFINE level == leaf[1]
           i == leaf[2]
           zero == <<level + 1, 2 * i>>
           one == <<level + 1, 2 * i + 1>>
           Bin(x) == {d \in Ids : Bit(d, level) = x}
           c == Split(b, leaf)
<1>1. DOMAIN b \in SUBSET Leaves /\ b \in [DOMAIN b -> Seq(Ids)] /\ Exact(b, known)
  BY TreeParts
<1>2. level \in 0 .. Bits - 1 /\ i \in Nat /\ leaf = <<level, i>> /\ leaf \in Leaves
  <2>1. leaf \in Leaves /\ Bits \in Nat
    BY <1>1, TableAssumption
  <2> QED
    BY <2>1, LeafParts
<1>3. /\ zero \in Leaves /\ one \in Leaves
      /\ \A d \in Nat : /\ Covers(leaf, d) <=> Covers(zero, d) \/ Covers(one, d)
                        /\ Covers(zero, d) => Bit(d, level) = 0
                        /\ Covers(one, d) => Bit(d, level) = 1
  <2>0. zero = <<leaf[1] + 1, 2 * leaf[2]>> /\ one = <<leaf[1] + 1, 2 * leaf[2] + 1>> /\ leaf[1] < Bits
    OBVIOUS
  <2> HIDE DEF zero, one
  <2>1. leaf \in Leaves
    BY <1>2
  <2> QED
    BY <2>0, <2>1, HalvesOf
<1>4. c = [l \in (DOMAIN b \ {leaf}) \cup {zero, one} |->
              IF l = zero THEN Only(b[leaf], Bin(0)) ELSE IF l = one THEN Only(b[leaf], Bin(1)) ELSE b[l]]
  BY DEF Split
<1>5. zero # one /\ leaf # zero /\ leaf # one
  BY <1>2
<1>6. /\ b[leaf] \in Seq(Ids) /\ IsInjective(b[leaf]) /\ Len(b[leaf]) <= K
      /\ Range(b[leaf]) = {d \in known : Covers(leaf, d)}
  BY <1>1 DEF Exact
<1>7. PICK p : p = Only(b[leaf], Bin(0))
  OBVIOUS
<1>8. PICK q : q = Only(b[leaf], Bin(1))
  OBVIOUS
<1> HIDE DEF c
<1>9. DOMAIN c = (DOMAIN b \ {leaf}) \cup {zero, one}
      /\ c[zero] = p /\ c[one] = q /\ \A l \in DOMAIN b \ {leaf, zero, one} : c[l] = b[l]
  BY <1>4, <1>5, <1>7, <1>8
<1>10. c = [l \in DOMAIN c |-> c[l]]
  BY <1>4
<1> HIDE DEF zero, one, level, i
<1>11. /\ p \in Seq(Ids) /\ Len(p) <= Len(b[leaf]) /\ IsInjective(p) /\ Range(p) = Range(b[leaf]) \cap Bin(0)
       /\ q \in Seq(Ids) /\ Len(q) <= Len(b[leaf]) /\ IsInjective(q) /\ Range(q) = Range(b[leaf]) \cap Bin(1)
  <2> HIDE DEF Bin
  <2> QED
    BY <1>6, <1>7, <1>8, OnlyDoes
<1>12. Len(p) <= K /\ Len(q) <= K
  <2>1. Len(p) \in Nat /\ Len(q) \in Nat /\ Len(b[leaf]) \in Nat /\ K \in Nat
    BY <1>6, <1>11, TableAssumption
  <2> QED
    BY <1>6, <1>11, <2>1
<1>13. known \subseteq Ids /\ Ids \subseteq Nat /\ Space \subseteq Nat
  BY IdsAreNat
<1>14. Range(p) = {d \in known : Covers(zero, d)} /\ Range(q) = {d \in known : Covers(one, d)}
  <2>1. 0 # 1
    OBVIOUS
  <2>2. ASSUME NEW d \in known
        PROVE  (d \in Range(p) <=> Covers(zero, d)) /\ (d \in Range(q) <=> Covers(one, d))
    BY <1>3, <1>6, <1>11, <1>13, <2>1
  <2>3. Range(p) \subseteq known /\ Range(q) \subseteq known
    BY <1>6, <1>11
  <2> QED
    BY <2>2, <2>3
<1>15. /\ DOMAIN c \in SUBSET Leaves
       /\ \A l \in DOMAIN c : l = zero \/ l = one \/ l \in DOMAIN b \ {leaf, zero, one}
  BY <1>1, <1>3, <1>9
<1>16. \A l \in DOMAIN c : /\ c[l] \in Seq(Ids) /\ Len(c[l]) <= K /\ IsInjective(c[l])
                           /\ Range(c[l]) = {d \in known : Covers(l, d)}
  <2>1. \A l \in DOMAIN b : /\ b[l] \in Seq(Ids) /\ Len(b[l]) <= K /\ IsInjective(b[l])
                           /\ Range(b[l]) = {d \in known : Covers(l, d)}
    BY <1>1 DEF Exact
  <2> SUFFICES ASSUME NEW l \in DOMAIN c
               PROVE  /\ c[l] \in Seq(Ids) /\ Len(c[l]) <= K /\ IsInjective(c[l])
                      /\ Range(c[l]) = {d \in known : Covers(l, d)}
    OBVIOUS
  <2>2. CASE l = zero
    BY <1>9, <1>11, <1>12, <1>14, <2>2
  <2>3. CASE l = one
    BY <1>9, <1>11, <1>12, <1>14, <2>3
  <2>4. CASE l \in DOMAIN b \ {leaf, zero, one}
    BY <1>9, <2>1, <2>4
  <2> QED
    BY <1>15, <2>2, <2>3, <2>4
<1>17. ASSUME NEW d \in Space PROVE \E l \in DOMAIN c : Covers(l, d)
  <2>1. PICK l \in DOMAIN b : Covers(l, d)
    BY <1>1 DEF Exact
  <2>2. CASE l = leaf
    BY <1>3, <1>9, <1>13, <2>1, <2>2
  <2>3. CASE l # leaf
    BY <1>9, <2>1, <2>3
  <2> QED
    BY <2>2, <2>3
<1>18. ASSUME NEW d \in Space, NEW l \in DOMAIN c, NEW m \in DOMAIN c, Covers(l, d), Covers(m, d)
       PROVE  l = m
  <2>1. d \in Nat
    BY <1>13
  <2>2. \A x, y \in DOMAIN b : Covers(x, d) /\ Covers(y, d) => x = y
    BY <1>1 DEF Exact
  <2>3. ~(Covers(zero, d) /\ Covers(one, d))
    BY <1>3, <2>1
  <2>4. ASSUME NEW x \in DOMAIN c, Covers(x, d), x # zero, x # one
        PROVE ~Covers(zero, d) /\ ~Covers(one, d)
    BY <1>3, <1>15, <2>1, <2>2, <2>4
  <2> QED
    BY <1>15, <1>18, <2>2, <2>3, <2>4
<1>19. Exact(c, known)
  BY <1>16, <1>17, <1>18 DEF Exact
<1>20. c \in [DOMAIN c -> Seq(Ids)]
  BY <1>10, <1>16
<1>21. c \in Trees(known)
  BY <1>15, <1>19, <1>20, TreeParts
<1> QED
  BY <1>21 DEF c

\* The leaf an id descends to.
LEMMA LeafOfCovers ==
    ASSUME NEW known, NEW b \in Trees(known), NEW d \in Space
    PROVE  /\ LeafOf(b, d) \in DOMAIN b /\ Covers(LeafOf(b, d), d)
           /\ \A l \in DOMAIN b : Covers(l, d) => l = LeafOf(b, d)
<1>1. Exact(b, known)
  BY TreeParts
<1>2. \E l \in DOMAIN b : Covers(l, d)
  BY <1>1 DEF Exact
<1>3. LeafOf(b, d) \in DOMAIN b /\ Covers(LeafOf(b, d), d)
  BY <1>2 DEF LeafOf
<1> QED
  BY <1>1, <1>3 DEF Exact

\* Making room keeps the tree exact.
LEMMA MakeRoomKeeps ==
    ASSUME NEW known \in SUBSET Ids, NEW b \in Trees(known), NEW d \in Space
    PROVE  MakeRoom(b, d) \in Trees(known)
<1>1. PICK leaf : leaf = LeafOf(b, d)
  OBVIOUS
<1>2. leaf \in DOMAIN b
  BY <1>1, LeafOfCovers
<1>3. CanSplit(leaf) => leaf[1] < Bits
  BY DEF CanSplit
<1>4. MakeRoom(b, d) = IF Len(b[leaf]) >= K /\ CanSplit(leaf) THEN Split(b, leaf) ELSE b
  BY <1>1 DEF MakeRoom
<1>5. CASE Len(b[leaf]) >= K /\ CanSplit(leaf)
  BY <1>2, <1>3, <1>4, <1>5, SplitKeeps
<1>6. CASE ~(Len(b[leaf]) >= K /\ CanSplit(leaf))
  BY <1>4, <1>6
<1> QED
  BY <1>5, <1>6

\* However often the bins on the way to an id are split.
LEMMA GrownKeeps ==
    ASSUME NEW known \in SUBSET Ids, NEW b \in Trees(known), NEW d \in Space
    PROVE  Grown(b, d) \in Trees(known)
<1> DEFINE S == Trees(known)
           step == [x \in S |-> MakeRoom(x, d)]
           F(f) == [n \in 0 .. Bits |-> IF n = 0 THEN b ELSE MakeRoom(f[n - 1], d)]
           grow == CHOOSE f : f = F(f)
<1>0. Bits \in Nat
  BY TableAssumption
<1>1. step \in [S -> S]
  BY MakeRoomKeeps
<1>2. PICK g : Repeats(S, b, step, Bits, g)
  <2> HIDE DEF step
  <2>1. b \in S
    OBVIOUS
  <2> HIDE DEF S
  <2> QED
    BY <1>0, <1>1, <2>1, Iterates
<1>3. ASSUME NEW k \in 0 .. Bits PROVE g[k] = IF k = 0 THEN b ELSE MakeRoom(g[k - 1], d)
  <2> HIDE DEF S
  <2>0. g \in [0 .. Bits -> S] /\ g[0] = b /\ \A n \in 1 .. Bits : g[n] = step[g[n - 1]]
    BY <1>2 DEF Repeats
  <2>1. CASE k = 0
    BY <2>0, <2>1
  <2>2. CASE k # 0
    <3>1. k \in 1 .. Bits /\ k - 1 \in 0 .. Bits
      BY <1>0, <2>2
    <3>2. g[k - 1] \in S
      BY <2>0, <3>1
    <3>3. g[k] = step[g[k - 1]]
      BY <2>0, <3>1
    <3> QED
      BY <2>2, <3>2, <3>3
  <2> QED
    BY <2>1, <2>2
<1>4. g = F(g)
  <2>1. g \in [0 .. Bits -> S]
    BY <1>2 DEF Repeats
  <2> HIDE DEF S
  <2> QED
    BY <1>3, <2>1
<1>5. grow = F(grow)
  BY <1>4
<1>6. Grown(b, d) = grow[Bits]
  BY DEF Grown
<1> HIDE DEF grow
<1>7. \A k \in 0 .. Bits : grow[k] = IF k = 0 THEN b ELSE MakeRoom(grow[k - 1], d)
  BY <1>5
<1>8. \A k \in 0 .. Bits : grow[k] \in S
  <2> DEFINE T == {k \in 0 .. Bits : grow[k] \notin S}
  <2> SUFFICES ASSUME T # {} PROVE FALSE
    OBVIOUS
  <2>1. PICK x \in T : \A y \in T : x <= y
    <3>1. T \in SUBSET Nat
      BY <1>0
    <3> HIDE DEF T
    <3> QED
      BY <3>1, LeastNat
  <2>2. x # 0
    BY <1>0, <1>7, <2>1
  <2>3. x - 1 \in 0 .. Bits /\ x - 1 \notin T
    BY <1>0, <2>1, <2>2
  <2>4. grow[x - 1] \in S /\ grow[x] = MakeRoom(grow[x - 1], d)
    BY <1>7, <2>1, <2>2, <2>3
  <2> QED
    BY <2>1, <2>4, MakeRoomKeeps
<1> QED
  BY <1>0, <1>6, <1>8

\* The bins of the same leaves, with other ids.
LEMMA Refilled ==
    ASSUME NEW known, NEW b \in Trees(known), NEW now,
           NEW c, c = [l \in DOMAIN b |-> c[l]],
           \A l \in DOMAIN b : /\ c[l] \in Seq(Ids) /\ Len(c[l]) <= K /\ IsInjective(c[l])
                               /\ Range(c[l]) = {d \in now : Covers(l, d)}
    PROVE  c \in Trees(now)
<1>1. DOMAIN b \in SUBSET Leaves /\ Exact(b, known)
  BY TreeParts
<1>2. DOMAIN c = DOMAIN b
  OBVIOUS
<1>3. Exact(c, now)
  BY <1>1, <1>2 DEF Exact
<1>4. c \in [DOMAIN c -> Seq(Ids)]
  OBVIOUS
<1> QED
  BY <1>1, <1>2, <1>3, <1>4, TreeParts

\* A new id at the back of a bin.
LEMMA AppendDoes ==
    ASSUME NEW S, NEW s \in Seq(S), IsInjective(s), NEW x \in S, x \notin Range(s)
    PROVE  /\ Append(s, x) \in Seq(S) /\ Len(Append(s, x)) = Len(s) + 1
           /\ IsInjective(Append(s, x)) /\ Range(Append(s, x)) = Range(s) \cup {x}
<1>0. PICK r : r = Append(s, x)
  OBVIOUS
<1>1. /\ r \in Seq(S) /\ Len(r) = Len(s) + 1 /\ Len(s) \in Nat /\ DOMAIN s = 1 .. Len(s)
      /\ DOMAIN r = 1 .. Len(s) + 1 /\ r[Len(s) + 1] = x
      /\ \A i \in 1 .. Len(s) : r[i] = s[i]
  BY <1>0
<1>2. \A i \in DOMAIN r : i \in 1 .. Len(s) \/ i = Len(s) + 1
  BY <1>1
<1>3. \A i \in 1 .. Len(s) : s[i] # x /\ i \in DOMAIN r
  BY <1>1 DEF Range
<1>4. Len(s) + 1 \in DOMAIN r
  BY <1>1
<1>5. \A i, j \in DOMAIN r : r[i] = r[j] => i = j
  BY <1>1, <1>2, <1>3 DEF IsInjective
<1>6. Range(r) = Range(s) \cup {x}
  <2>1. \A y \in Range(r) : y \in Range(s) \cup {x}
    BY <1>1, <1>2 DEF Range
  <2>2. \A y \in Range(s) \cup {x} : y \in Range(r)
    BY <1>1, <1>3, <1>4 DEF Range
  <2> QED
    BY <2>1, <2>2
<1>7. r \in Seq(S) /\ Len(r) = Len(s) + 1 /\ IsInjective(r) /\ Range(r) = Range(s) \cup {x}
  BY <1>1, <1>5, <1>6 DEF IsInjective
<1> QED
  BY <1>0, <1>7, Zenon

\* The front of a bin moved to its back.
LEMMA RotateDoes ==
    ASSUME NEW S, NEW s \in Seq(S), IsInjective(s), s # <<>>,
           NEW r, r = Append(Tail(s), Head(s))
    PROVE  r \in Seq(S) /\ Len(r) = Len(s) /\ IsInjective(r) /\ Range(r) = Range(s)
<1>0. PICK n : n = Len(s)
  OBVIOUS
<1>1. n \in Nat \ {0} /\ DOMAIN s = 1 .. n
  BY <1>0
<1>2. /\ r \in Seq(S) /\ Len(r) = n /\ DOMAIN r = 1 .. n
      /\ \A i \in 1 .. n : r[i] = IF i = n THEN s[1] ELSE s[i + 1]
  <2>1. /\ Tail(s) \in Seq(S) /\ Len(Tail(s)) = n - 1 /\ Head(s) = s[1] /\ Head(s) \in S
        /\ \A i \in 1 .. n - 1 : Tail(s)[i] = s[i + 1]
    BY <1>0, <1>1
  <2>2. PICK t : t = Tail(s)
    OBVIOUS
  <2>3. PICK h : h = Head(s)
    OBVIOUS
  <2>4. t \in Seq(S) /\ h \in S /\ Len(t) = n - 1 /\ r = Append(t, h)
    BY <2>1, <2>2, <2>3
  <2>5. /\ r \in Seq(S) /\ Len(r) = Len(t) + 1 /\ r[Len(t) + 1] = h
        /\ \A i \in 1 .. Len(t) : r[i] = t[i]
    <3>1. /\ Append(t, h) \in Seq(S) /\ Len(Append(t, h)) = Len(t) + 1
          /\ Append(t, h)[Len(t) + 1] = h /\ \A i \in 1 .. Len(t) : Append(t, h)[i] = t[i]
      BY <2>4, AppendProperties
    <3> QED
      BY <2>4, <3>1, Zenon
  <2>6. r \in Seq(S) /\ Len(r) = n /\ DOMAIN r = 1 .. n /\ r[n] = h
    BY <1>1, <2>4, <2>5
  <2>7. ASSUME NEW i \in 1 .. n, i # n PROVE r[i] = s[i + 1]
    <3>1. i \in 1 .. n - 1
      BY <1>1, <2>7
    <3>2. r[i] = t[i]
      BY <2>4, <2>5, <3>1
    <3> QED
      BY <2>1, <2>2, <3>1, <3>2
  <2> QED
    BY <2>1, <2>3, <2>6, <2>7
<1>3. \A i \in 1 .. n : i # n => i + 1 \in 1 .. n /\ i + 1 # 1
  BY <1>1
<1>4. \A i \in 1 .. n : i # 1 => i - 1 \in 1 .. n /\ i - 1 # n /\ (i - 1) + 1 = i
  BY <1>1
<1>5. 1 \in 1 .. n /\ n \in 1 .. n
  BY <1>1
<1>6. ASSUME NEW i \in DOMAIN r, NEW j \in DOMAIN r, r[i] = r[j] PROVE i = j
  <2>1. \A x, y \in 1 .. n : s[x] = s[y] => x = y
    BY <1>1 DEF IsInjective
  <2>2. i \in 1 .. n /\ j \in 1 .. n
    BY <1>2
  <2>3. CASE i = n
    BY <1>2, <1>3, <1>5, <1>6, <2>1, <2>2, <2>3
  <2>4. CASE j = n
    BY <1>2, <1>3, <1>5, <1>6, <2>1, <2>2, <2>4
  <2>5. CASE i # n /\ j # n
    <3>1. r[i] = s[i + 1] /\ r[j] = s[j + 1] /\ i + 1 \in 1 .. n /\ j + 1 \in 1 .. n
      BY <1>2, <1>3, <2>2, <2>5
    <3>2. i + 1 = j + 1
      BY <1>6, <2>1, <3>1
    <3> QED
      BY <2>2, <3>2
  <2> QED
    BY <2>3, <2>4, <2>5
<1>7. Range(r) = Range(s)
  <2>1. ASSUME NEW y \in Range(r) PROVE y \in Range(s)
    <3>1. PICK i \in 1 .. n : y = r[i]
      BY <1>2 DEF Range
    <3>2. \E j \in 1 .. n : y = s[j]
      BY <1>2, <1>3, <1>5, <3>1
    <3> QED
      BY <1>1, <3>2 DEF Range
  <2>2. ASSUME NEW y \in Range(s) PROVE y \in Range(r)
    <3>1. PICK i \in 1 .. n : y = s[i]
      BY <1>1 DEF Range
    <3>2. CASE i = 1
      <4>1. r[n] = y
        BY <1>2, <1>5, <3>1, <3>2
      <4> QED
        BY <1>2, <1>5, <4>1 DEF Range
    <3>3. CASE i # 1
      <4>1. r[i - 1] = y /\ i - 1 \in 1 .. n
        BY <1>2, <1>4, <3>1, <3>3
      <4> QED
        BY <1>2, <4>1 DEF Range
    <3> QED
      BY <3>2, <3>3
  <2> QED
    BY <2>1, <2>2
<1> QED
  BY <1>0, <1>2, <1>6, <1>7 DEF IsInjective

\* Zone::add of a new id to a bin with room.
LEMMA ArrivalKeeps ==
    ASSUME NEW known \in SUBSET Ids, NEW b \in Trees(known), NEW id \in Ids, id \notin known,
           NEW leaf, leaf = LeafOf(b, id), ~(Len(b[leaf]) >= K),
           NEW c, c = [b EXCEPT ![leaf] = Append(@, id)]
    PROVE  c \in Trees(known \cup {id})
<1>1. id \in Space /\ b \in [DOMAIN b -> Seq(Ids)] /\ Exact(b, known)
  BY IdsAreNat, TreeParts
<1>2. /\ leaf \in DOMAIN b /\ Covers(leaf, id) /\ \A l \in DOMAIN b : Covers(l, id) => l = leaf
  BY <1>1, LeafOfCovers
<1>3. \A l \in DOMAIN b : /\ b[l] \in Seq(Ids) /\ Len(b[l]) <= K /\ IsInjective(b[l])
                          /\ Range(b[l]) = {d \in known : Covers(l, d)}
  BY <1>1 DEF Exact
<1>4. PICK s : s = b[leaf]
  OBVIOUS
<1>5. PICK q : q = Append(s, id)
  OBVIOUS
<1>6. s \in Seq(Ids) /\ IsInjective(s) /\ id \notin Range(s) /\ ~(Len(s) >= K)
  BY <1>2, <1>3, <1>4
<1>7. q \in Seq(Ids) /\ Len(q) = Len(s) + 1 /\ IsInjective(q) /\ Range(q) = Range(s) \cup {id}
  <2>1. /\ Append(s, id) \in Seq(Ids) /\ Len(Append(s, id)) = Len(s) + 1
        /\ IsInjective(Append(s, id)) /\ Range(Append(s, id)) = Range(s) \cup {id}
    BY <1>6, AppendDoes
  <2> QED
    BY <1>5, <2>1, Zenon
<1>8. Len(q) <= K
  <2>1. Len(s) \in Nat /\ K \in Nat
    BY <1>6, TableAssumption
  <2> QED
    BY <1>6, <1>7, <2>1
<1>9. c = [l \in DOMAIN b |-> IF l = leaf THEN q ELSE b[l]]
  BY <1>1, <1>2, <1>4, <1>5
<1>10. c = [l \in DOMAIN b |-> c[l]]
  BY <1>9
<1>11. ASSUME NEW l \in DOMAIN b
       PROVE  /\ c[l] \in Seq(Ids) /\ Len(c[l]) <= K /\ IsInjective(c[l])
              /\ Range(c[l]) = {d \in known \cup {id} : Covers(l, d)}
  <2>1. CASE l = leaf
    <3>1. c[l] = q
      BY <1>9, <2>1
    <3>2. Range(q) = {d \in known \cup {id} : Covers(l, d)}
      BY <1>2, <1>3, <1>4, <1>7, <2>1
    <3> QED
      BY <1>7, <1>8, <3>1, <3>2
  <2>2. CASE l # leaf
    <3>1. c[l] = b[l]
      BY <1>9, <2>2
    <3>2. {d \in known \cup {id} : Covers(l, d)} = {d \in known : Covers(l, d)}
      BY <1>2, <2>2
    <3> QED
      BY <1>3, <3>1, <3>2
  <2> QED
    BY <2>1, <2>2
<1> QED
  BY <1>10, <1>11, Refilled

\* Zone::set_alive moves an id to the back of its bin.
LEMMA RenewalKeeps ==
    ASSUME NEW known \in SUBSET Ids, NEW b \in Trees(known), NEW id \in known,
           NEW leaf, leaf = LeafOf(b, id),
           NEW c, c = [b EXCEPT ![leaf] = Append(Only(@, Ids \ {id}), id)]
    PROVE  c \in Trees(known)
<1>1. id \in Ids /\ id \in Space /\ b \in [DOMAIN b -> Seq(Ids)] /\ Exact(b, known)
  BY IdsAreNat, TreeParts
<1>2. leaf \in DOMAIN b /\ Covers(leaf, id)
  BY <1>1, LeafOfCovers
<1>3. \A l \in DOMAIN b : /\ b[l] \in Seq(Ids) /\ Len(b[l]) <= K /\ IsInjective(b[l])
                          /\ Range(b[l]) = {d \in known : Covers(l, d)}
  BY <1>1 DEF Exact
<1>4. PICK s : s = b[leaf]
  OBVIOUS
<1>5. PICK others : others = Ids \ {id}
  OBVIOUS
<1>6. PICK p : p = Only(s, others)
  OBVIOUS
<1>7. PICK q : q = Append(p, id)
  OBVIOUS
<1>8. s \in Seq(Ids) /\ IsInjective(s) /\ Len(s) <= K /\ id \in Range(s)
  BY <1>2, <1>3, <1>4
<1>9. /\ p \in Seq(Ids) /\ IsInjective(p) /\ Range(p) = Range(s) \cap others
      /\ \A x \in Range(s) : x \notin others => Len(p) < Len(s)
  BY <1>6, <1>8, OnlyDoes
<1>10. id \notin Range(p) /\ Len(p) < Len(s)
  BY <1>5, <1>8, <1>9
<1>11. q \in Seq(Ids) /\ Len(q) = Len(p) + 1 /\ IsInjective(q) /\ Range(q) = Range(p) \cup {id}
  <2>1. /\ Append(p, id) \in Seq(Ids) /\ Len(Append(p, id)) = Len(p) + 1
        /\ IsInjective(Append(p, id)) /\ Range(Append(p, id)) = Range(p) \cup {id}
    BY <1>1, <1>9, <1>10, AppendDoes
  <2> QED
    BY <1>7, <2>1, Zenon
<1>12. Len(q) <= K
  <2>1. Len(s) \in Nat /\ Len(p) \in Nat /\ K \in Nat
    BY <1>8, <1>9, TableAssumption
  <2> QED
    BY <1>8, <1>10, <1>11, <2>1
<1>13. Range(q) = Range(s)
  <2>1. Range(s) \subseteq Ids
    BY <1>2, <1>3, <1>4
  <2> QED
    BY <1>5, <1>8, <1>9, <1>11, <2>1
<1>14. c = [l \in DOMAIN b |-> IF l = leaf THEN q ELSE b[l]]
  BY <1>1, <1>2, <1>4, <1>5, <1>6, <1>7
<1>15. c = [l \in DOMAIN b |-> c[l]]
  BY <1>14
<1>16. ASSUME NEW l \in DOMAIN b
       PROVE  /\ c[l] \in Seq(Ids) /\ Len(c[l]) <= K /\ IsInjective(c[l])
              /\ Range(c[l]) = {d \in known : Covers(l, d)}
  <2>1. CASE l = leaf
    <3>1. c[l] = q /\ Range(q) = {d \in known : Covers(l, d)}
      BY <1>2, <1>3, <1>4, <1>13, <1>14, <2>1
    <3> QED
      BY <1>11, <1>12, <3>1
  <2>2. CASE l # leaf
    <3>1. c[l] = b[l]
      BY <1>14, <2>2
    <3> QED
      BY <1>3, <3>1
  <2> QED
    BY <2>1, <2>2
<1> QED
  BY <1>15, <1>16, Refilled

\* gated_add_contact keeps the tree exact, whatever it decides.
LEMMA GatedAddKeepsTree ==
    ASSUME contact \in [Ids -> Shape \cup {Absent}], bins \in Trees(Known(contact)),
           NEW id \in Ids, NEW a \in Addr, NEW verified \in BOOLEAN, NEW alive \in BOOLEAN,
           NEW r, r = GatedAdd(Table, id, a, verified, alive)
    PROVE  r.t.bins \in Trees(Known(r.t.contact))
<1> DEFINE t == Table
           capped == ~IsRefresh(t, id, a) /\
                  \/ Sharing(t, Known(t.contact), LAMBDA x : Ip[x], a) >= MaxPerIp
                  \/ Sharing(t, Known(t.contact), LAMBDA x : Net[x], a) >= MaxPerSubnet
           full16  == ~IsRefresh(t, id, a) /\ ~Starved(t) /\
                   Sharing(t, Known(t.contact), LAMBDA x : Net16[x], a) >= MaxPer16
           added == Add(t, id, a, verified)
           known == Known(contact)
<1>1. t.contact = contact /\ t.bins = bins /\ t = [bins |-> bins, contact |-> contact]
  BY DEF Table
<1>2. known \in SUBSET Ids /\ id \in Space
  BY IdsAreNat DEF Known
<1>3. ASSUME NEW u \in Shape PROVE Known([contact EXCEPT ![id] = u]) = known \cup {id}
  <2>1. u # Absent
    BY ShapeIsPresent
  <2> QED
    BY <2>1 DEF Known
<1>4. ASSUME NEW l \in BOOLEAN PROVE Updated(contact[id], a, verified, l) \in Shape
  <2>1. PICK u : u = Updated(contact[id], a, verified, l)
    OBVIOUS
  <2>2. contact[id] \in Shape \cup {Absent}
    OBVIOUS
  <2>3. KeepsEarned(u, contact[id], a, verified, l)
    BY <2>1, <2>2, UpdatedKeeps
  <2> QED
    BY <2>1, <2>3 DEF KeepsEarned
<1>5. /\ added.t.bins \in Trees(Known(added.t.contact))
      /\ id \in known => added.t.bins = bins
  <2>1. CASE id = 0 \/ full16
    <3>1. added = [t |-> [t EXCEPT !.bins = t.bins], ok |-> FALSE]
      BY <2>1 DEF Add
    <3> HIDE DEF t, added, full16
    <3>2. added.t.bins = bins /\ added.t.contact = contact
      BY <1>1, <3>1
    <3> QED
      BY <3>2
  <2>2. CASE id # 0 /\ ~full16 /\ id \in known
    <3>0. id \in Known(t.contact)
      BY <1>1, <2>2
    <3>1. CASE Frozen(t.contact[id], a)
      <4>1. added = [t |-> [t EXCEPT !.bins = t.bins], ok |-> FALSE]
        BY <2>2, <3>0, <3>1 DEF Add
      <4> HIDE DEF t, added, full16
      <4>2. added.t.bins = bins /\ added.t.contact = contact
        BY <1>1, <4>1
      <4> QED
        BY <4>2
    <3>2. CASE ~Frozen(t.contact[id], a)
      <4>1. added = [t |-> [t EXCEPT !.contact[id] = Refreshed(@, a, verified)], ok |-> TRUE]
        BY <2>2, <3>0, <3>2 DEF Add
      <4>2. contact[id] # Absent
        BY <2>2 DEF Known
      <4>3. Updated(contact[id], a, verified, FALSE) = Refreshed(contact[id], a, verified)
        BY <4>2 DEF Updated
      <4> HIDE DEF t, added, full16, known
      <4>4. added.t = [bins |-> bins, contact |-> [contact EXCEPT ![id] = Refreshed(contact[id], a, verified)]]
        BY <1>1, <4>1
      <4>5. Refreshed(contact[id], a, verified) \in Shape
        BY <1>4, <4>3
      <4>6. Known(added.t.contact) = known \cup {id} /\ added.t.bins = bins
        <5>1. PICK u : u = Refreshed(contact[id], a, verified)
          OBVIOUS
        <5>2. u \in Shape /\ added.t.bins = bins /\ added.t.contact = [contact EXCEPT ![id] = u]
          BY <4>4, <4>5, <5>1
        <5> QED
          BY <1>3, <5>2
      <4>7. known \cup {id} = known
        BY <2>2
      <4> QED
        BY <4>6, <4>7 DEF known
    <3> QED
      BY <3>1, <3>2
  <2>3. CASE id # 0 /\ ~full16 /\ id \notin known
    <3> DEFINE grown == Grown(t.bins, id)
               leaf == LeafOf(grown, id)
               no == Len(grown[leaf]) >= K \/ BinCapped(t, leaf, grown, a)
    <3>1. id \notin Known(t.contact)
      BY <1>1, <2>3
    <3>2. grown \in Trees(known)
      BY <1>1, <1>2, GrownKeeps
    <3>3. CASE no
      <4>1. added = [t |-> [t EXCEPT !.bins = grown], ok |-> FALSE]
        BY <2>3, <3>1, <3>3 DEF Add
      <4> HIDE DEF t, added, full16, grown
      <4>2. added.t.bins = grown /\ added.t.contact = contact
        BY <1>1, <4>1
      <4> QED
        BY <2>3, <3>2, <4>2
    <3>4. CASE ~no
      <4>1. added = [t |-> [bins |-> [grown EXCEPT ![leaf] = Append(@, id)],
                            contact |-> [t.contact EXCEPT ![id] = Fresh(a, verified)]], ok |-> TRUE]
        BY <2>3, <3>1, <3>4 DEF Add
      <4>2. Fresh(a, verified) \in Shape
        BY DEF Fresh, Shape, New, Unset
      <4>3. ~(Len(grown[leaf]) >= K)
        BY <3>4
      <4> HIDE DEF t, added, full16, grown, no, known
      <4>4. PICK c : c = [grown EXCEPT ![leaf] = Append(@, id)]
        OBVIOUS
      <4>5. c \in Trees(known \cup {id})
        <5>1. PICK lf : lf = leaf
          OBVIOUS
        <5>2. lf = LeafOf(grown, id) /\ ~(Len(grown[lf]) >= K) /\ c = [grown EXCEPT ![lf] = Append(@, id)]
          BY <4>3, <4>4, <5>1
        <5> QED
          BY <1>2, <2>3, <3>2, <5>2, ArrivalKeeps
      <4> HIDE DEF leaf
      <4>6. added.t.bins = c /\ added.t.contact = [contact EXCEPT ![id] = Fresh(a, verified)]
        BY <1>1, <4>1, <4>4
      <4> QED
        BY <1>3, <2>3, <4>2, <4>5, <4>6
    <3> QED
      BY <3>3, <3>4
  <2> QED
    BY <2>1, <2>2, <2>3
<1>6. r = IF capped THEN [t |-> t, ok |-> FALSE]
          ELSE IF Promotes(t, id, alive, added.ok) THEN [t |-> SetAlive(added.t, id), ok |-> TRUE]
          ELSE added
  BY DEF GatedAdd
<1>7. Promotes(t, id, alive, added.ok) => alive /\ id \in known
  BY <1>1 DEF Promotes
<1> HIDE DEF t, capped, full16, added
<1>8. CASE capped
  BY <1>1, <1>6, <1>8
<1>9. CASE ~capped /\ ~Promotes(t, id, alive, added.ok)
  BY <1>5, <1>6, <1>9
<1>10. CASE ~capped /\ Promotes(t, id, alive, added.ok)
  <2>1. r.ok = TRUE /\ r.t = SetAlive(added.t, id) /\ id \in known /\ added.t.bins = bins
    BY <1>5, <1>6, <1>7, <1>10
  <2>2. PICK leaf : leaf = LeafOf(bins, id)
    OBVIOUS
  <2>3. r.t.bins = [bins EXCEPT ![leaf] = Append(Only(@, Ids \ {id}), id)]
    BY <2>1, <2>2 DEF SetAlive
  <2>4. r.t.bins \in Trees(known)
    <3> HIDE DEF known
    <3>1. bins \in Trees(known)
      BY DEF known
    <3>2. PICK c : c = r.t.bins
      OBVIOUS
    <3>3. c = [bins EXCEPT ![leaf] = Append(Only(@, Ids \ {id}), id)]
      BY <2>3, <3>2
    <3>4. c \in Trees(known)
      BY <1>2, <2>1, <2>2, <3>1, <3>3, RenewalKeeps, Zenon
    <3> QED
      BY <3>2, <3>4
  <2>5. Outcome(r, id, a, verified, alive)
    BY GatedAddDoes
  <2>6. r.t.contact = [contact EXCEPT ![id] = Updated(contact[id], a, verified, alive)]
    BY <2>1, <2>5 DEF Outcome
  <2>7. Known(r.t.contact) = known \cup {id}
    BY <1>3, <1>4, <2>6
  <2>8. known \cup {id} = known
    BY <2>1
  <2> QED
    BY <2>4, <2>7, <2>8
<1> QED
  BY <1>8, <1>9, <1>10

-----------------------------------------------------------------------------
(* The sweep *)

\* No lease is longer than the longest.
LeasesBounded == \A d \in Known(contact) : contact[d].expires \in Unset .. Lease

\* What the sweep makes of one contact: it stays unless it is dead, with a lease
\* within the bound.
LEMMA SweepLeaves ==
    ASSUME TableInv, LeasesBounded, Sweep, NEW d \in Ids
    PROVE  /\ contact'[d] # Absent <=> contact[d] # Absent /\ ~Dead(Older[d])
           /\ Stamped[d] # Absent <=> contact[d] # Absent /\ ~Dead(Older[d])
           /\ Stamped[d] # Absent => Stamped[d].addr \in Addr
           /\ contact'[d] # Absent => contact'[d].expires \in Unset .. Lease
<1> DEFINE c == contact[d]
           o == Older[d]
           s == Stamped[d]
<1>0. c \in Shape \cup {Absent}
  BY DEF TableInv, ContactsTyped
<1>1. contact'[d] = IF IsProbed(d) THEN [s EXCEPT !.expires = Window, !.kad_type = @ + 1] ELSE s
  BY DEF Sweep
<1>2. IsProbed(d) => s # Absent /\ Due(s)
  BY DEF IsProbed, Probing, FrontDue
<1>3. o = IF c = Absent \/ c.expires < 0 THEN c ELSE [c EXCEPT !.expires = c.expires - 1]
  BY DEF Older
<1>4. s = IF o = Absent \/ Dead(o) THEN Absent
          ELSE IF o.expires = Unset THEN [o EXCEPT !.expires = 0] ELSE o
  BY DEF Stamped
<1>5. c # Absent => c \in Shape /\ c.expires \in Unset .. Lease
  BY <1>0 DEF LeasesBounded, Known
<1>6. Lease \in Nat \ {0} /\ Window \in Nat \ {0} /\ Window <= Lease
  BY TableAssumption
<1>7. c # Absent => o \in Shape /\ o.expires \in Unset .. Lease /\ o # Absent
  <2> SUFFICES ASSUME c # Absent PROVE o \in Shape /\ o.expires \in Unset .. Lease /\ o # Absent
    OBVIOUS
  <2> HIDE DEF c, o
  <2>1. CASE c.expires < 0
    BY <1>3, <1>5, <2>1
  <2>2. CASE ~(c.expires < 0)
    <3>1. o = [c EXCEPT !.expires = c.expires - 1] /\ c \in Shape /\ c.expires \in Int /\ c.expires - 1 \in Unset .. Lease
      BY <1>3, <1>5, <1>6, <2>2 DEF Unset
    <3>2. o \in Shape /\ o.expires = c.expires - 1
      BY <3>1 DEF Shape
    <3> QED
      BY <3>1, <3>2, ShapeIsPresent
  <2> QED
    BY <2>1, <2>2
<1>8. c = Absent => o = Absent
  BY <1>3
<1>9. c # Absent /\ ~Dead(o) => s \in Shape /\ s # Absent /\ s.expires \in Unset .. Lease /\ s.addr \in Addr
  <2> SUFFICES ASSUME c # Absent, ~Dead(o)
               PROVE  s \in Shape /\ s # Absent /\ s.expires \in Unset .. Lease /\ s.addr \in Addr
    OBVIOUS
  <2> HIDE DEF c, o, s
  <2>1. o \in Shape /\ o.expires \in Unset .. Lease /\ (s = o \/ s = [o EXCEPT !.expires = 0])
    BY <1>4, <1>7
  <2>2. 0 \in Unset .. Lease
    BY <1>6 DEF Unset
  <2>3. s \in Shape /\ s.expires \in Unset .. Lease
    BY <2>1, <2>2 DEF Shape
  <2>4. s.addr \in Addr
    BY <2>3 DEF Shape
  <2> QED
    BY <2>3, <2>4, ShapeIsPresent
<1>10. s # Absent <=> c # Absent /\ ~Dead(o)
  <2> HIDE DEF c, o, s
  <2> QED
    BY <1>4, <1>8, <1>9
<1>11. CASE ~IsProbed(d)
  <2>1. contact'[d] = s
    BY <1>1, <1>11
  <2> HIDE DEF c, o, s
  <2>2. /\ contact'[d] # Absent <=> c # Absent /\ ~Dead(o)
        /\ s # Absent => s.addr \in Addr
        /\ contact'[d] # Absent => contact'[d].expires \in Unset .. Lease
    BY <1>9, <1>10, <2>1
  <2> QED
    BY <1>10, <2>2 DEF c, o, s
<1>12. CASE IsProbed(d)
  <2> HIDE DEF c, o, s
  <2>1. s # Absent /\ s \in Shape /\ Due(s) /\ c # Absent /\ ~Dead(o) /\ s.addr \in Addr
    BY <1>2, <1>9, <1>10, <1>12
  <2>2. s.kad_type \in {Alive, New, Probed} /\ s.kad_type # Probed
    BY <2>1 DEF Shape, Due
  <2>3. contact'[d] = [s EXCEPT !.expires = Window, !.kad_type = s.kad_type + 1]
    BY <1>1, <1>12
  <2>4. s.kad_type + 1 \in {Alive, New, Probed} /\ Window \in Int
    BY <1>6, <2>2 DEF Alive, New, Probed
  <2>5. contact'[d] \in Shape /\ contact'[d].expires = Window
    BY <2>1, <2>3, <2>4 DEF Shape
  <2>6. Window \in Unset .. Lease
    BY <1>6 DEF Unset
  <2>7. contact'[d] # Absent
    BY <2>5, ShapeIsPresent
  <2> QED
    BY <1>10, <2>1, <2>5, <2>6, <2>7 DEF c, o, s
<1> QED
  BY <1>11, <1>12

\* The ids the sweep leaves in a bin.
LEMMA LeftDoes ==
    ASSUME bins \in Trees(Known(contact)), NEW l \in DOMAIN bins, NEW q, q = Left(l)
    PROVE  /\ q \in Seq(Ids) /\ Len(q) <= K /\ IsInjective(q)
           /\ Range(q) = {d \in Known(contact) : Covers(l, d) /\ ~Dead(Older[d])}
<1>1. PICK stay : stay = {d \in Known(contact) : ~Dead(Older[d])}
  OBVIOUS
<1>2. PICK s : s = bins[l]
  OBVIOUS
<1>3. PICK known : known = Known(contact)
  OBVIOUS
<1>4. bins \in [DOMAIN bins -> Seq(Ids)] /\ Exact(bins, known)
  BY <1>3, TreeParts
<1>5. s \in Seq(Ids) /\ Len(s) <= K /\ IsInjective(s) /\ Range(s) = {d \in known : Covers(l, d)}
  BY <1>2, <1>4 DEF Exact
<1>6. q = Only(s, stay)
  BY <1>1, <1>2 DEF Left
<1>7. q \in Seq(Ids) /\ Len(q) <= Len(s) /\ IsInjective(q) /\ Range(q) = Range(s) \cap stay
  BY <1>5, <1>6, OnlyDoes
<1>8. Len(q) <= K
  <2>1. Len(s) \in Nat /\ Len(q) \in Nat /\ K \in Nat
    BY <1>5, <1>7, TableAssumption
  <2> QED
    BY <1>5, <1>7, <2>1
<1>9. Range(q) = {d \in Known(contact) : Covers(l, d) /\ ~Dead(Older[d])}
  BY <1>1, <1>3, <1>5, <1>7
<1> QED
  BY <1>7, <1>8, <1>9

\* Zone::sweep keeps the tree exact.
LEMMA SweepKeepsTree ==
    ASSUME TableInv, LeasesBounded, bins \in Trees(Known(contact)), Sweep
    PROVE  bins' \in Trees(Known(contact'))
<1> DEFINE stay == {d \in Known(contact) : ~Dead(Older[d])}
<1>1. Known(contact') = stay
  <2>1. ASSUME NEW d \in Ids PROVE d \in Known(contact') <=> d \in stay
    BY SweepLeaves DEF Known
  <2>2. Known(contact') \subseteq Ids /\ stay \subseteq Ids
    BY DEF Known
  <2> QED
    BY <2>1, <2>2
<1>2. /\ DOMAIN bins' = DOMAIN bins /\ bins' = [l \in DOMAIN bins |-> bins'[l]]
      /\ \A l \in DOMAIN bins :
            bins'[l] = Left(l) \/ (Left(l) # <<>> /\ bins'[l] = Append(Tail(Left(l)), Head(Left(l))))
  BY DEF Sweep
<1>3. ASSUME NEW l \in DOMAIN bins
      PROVE  /\ bins'[l] \in Seq(Ids) /\ Len(bins'[l]) <= K /\ IsInjective(bins'[l])
             /\ Range(bins'[l]) = {d \in stay : Covers(l, d)}
  <2>1. PICK q : q = Left(l)
    OBVIOUS
  <2>2. PICK now : now = bins'[l]
    OBVIOUS
  <2>3. /\ q \in Seq(Ids) /\ Len(q) <= K /\ IsInjective(q)
        /\ Range(q) = {d \in Known(contact) : Covers(l, d) /\ ~Dead(Older[d])}
    BY <2>1, LeftDoes
  <2>4. Range(q) = {d \in stay : Covers(l, d)}
    BY <2>3
  <2>5. now = q \/ (q # <<>> /\ now = Append(Tail(q), Head(q)))
    BY <1>2, <2>1, <2>2
  <2>6. now \in Seq(Ids) /\ Len(now) = Len(q) /\ IsInjective(now) /\ Range(now) = Range(q)
    <3>1. CASE now = q
      BY <2>3, <3>1
    <3>2. CASE q # <<>> /\ now = Append(Tail(q), Head(q))
      BY <2>3, <3>2, RotateDoes, Zenon
    <3> QED
      BY <2>5, <3>1, <3>2
  <2> HIDE DEF stay
  <2> QED
    BY <2>2, <2>3, <2>4, <2>6
<1>4. PICK c : c = bins'
  OBVIOUS
<1> HIDE DEF stay
<1>5. c \in Trees(stay)
  <2>1. /\ c = [l \in DOMAIN bins |-> c[l]]
        /\ \A l \in DOMAIN bins : /\ c[l] \in Seq(Ids) /\ Len(c[l]) <= K /\ IsInjective(c[l])
                                  /\ Range(c[l]) = {d \in stay : Covers(l, d)}
    BY <1>2, <1>3, <1>4
  <2> QED
    BY <2>1, Refilled
<1> QED
  BY <1>1, <1>4, <1>5

ProbesTyped == probes \in Seq(Ids \X Addr) /\ Len(probes) <= MaxProbes

\* The first id of a leaf is an id of it.
LEMMA FirstIdCovered ==
    ASSUME NEW l \in Leaves
    PROVE  FirstId(l) \in Space /\ Covers(l, FirstId(l))
<1>1. PICK level, i, w : level = l[1] /\ i = l[2] /\ w = Pow2[Bits - level]
  OBVIOUS
<1>2. level \in 0 .. Bits /\ i \in Nat /\ l = <<level, i>>
  BY <1>1, LeafParts
<1>3. (i + 1) * w <= Pow2[Bits]
  BY <1>1 DEF Leaves
<1>4. Bits \in Nat /\ w \in Nat \ {0} /\ Pow2[Bits] \in Nat
  <2>1. Bits \in Nat /\ Bits - level \in 0 .. Bits /\ Bits \in 0 .. Bits
    BY <1>2, TableAssumption
  <2> QED
    BY <1>1, <2>1, Powers
<1>5. FirstId(l) = i * w
  BY <1>1 DEF FirstId
<1>6. PICK d : d = i * w
  OBVIOUS
<1>7. d \in Nat /\ i * w <= d /\ d < (i + 1) * w
  BY <1>2, <1>4, <1>6
<1>8. (i + 1) * w \in Nat
  BY <1>2, <1>4
<1>9. d \in Space
  <2>1. d \in 0 .. Pow2[Bits] - 1
    BY <1>3, <1>4, <1>7, <1>8
  <2> QED
    BY <2>1 DEF Space
<1>10. Covers(<<level, i>>, d)
  BY <1>1, <1>2, <1>7, CoversInterval
<1>11. Covers(l, d)
  BY <1>2, <1>10, Zenon
<1> QED
  BY <1>5, <1>6, <1>9, <1>11

\* The tree has finitely many leaves.
LEMMA LeavesFinite == \A D \in SUBSET Leaves : IsFiniteSet(D)
<1>1. Bits \in Int /\ Pow2[Bits] - 1 \in Int /\ 0 \in Int
  <2>1. Bits \in Nat /\ Bits \in 0 .. Bits
    BY TableAssumption
  <2> QED
    BY <2>1, Powers
<1>2. IsFiniteSet(0 .. Bits) /\ IsFiniteSet(Space)
  BY <1>1, FS_Interval DEF Space
<1>3. IsFiniteSet((0 .. Bits) \X Space)
  BY <1>2, FS_Product
<1>4. Leaves \in SUBSET ((0 .. Bits) \X Space)
  BY DEF Leaves
<1>5. IsFiniteSet(Leaves)
  BY <1>3, <1>4, FS_Subset
<1> QED
  BY <1>5, FS_Subset

\* A set has no more first ids than leaves.
LEMMA FirstIdsOf ==
    ASSUME NEW D \in SUBSET Leaves, NEW F, F = {FirstId(l) : l \in D}
    PROVE  /\ IsFiniteSet(F) /\ IsFiniteSet(D) /\ F \in SUBSET Space
           /\ Cardinality(F) \in Nat /\ Cardinality(D) \in Nat /\ Cardinality(F) <= Cardinality(D)
<1> DEFINE f == [l \in D |-> FirstId(l)]
<1>1. f \in Surjection(D, F)
  BY DEF Surjection
<1>2. IsFiniteSet(D)
  BY LeavesFinite
<1>3. IsFiniteSet(F) /\ Cardinality(F) <= Cardinality(D)
  <2> HIDE DEF f
  <2> QED
    BY <1>1, <1>2, FS_Surjection
<1>4. F \in SUBSET Space
  BY FirstIdCovered
<1> QED
  BY <1>2, <1>3, <1>4, FS_CardinalityType

\* A sweep probes no more contacts than it may.
LEMMA ProbingBounded ==
    ASSUME bins \in Trees(Known(contact)), NEW F, F = {FirstId(l) : l \in Probing}
    PROVE  IsFiniteSet(F) /\ F \in SUBSET Nat /\ Cardinality(F) \in Nat /\ Cardinality(F) <= MaxProbes
<1>1. DOMAIN bins \in SUBSET Leaves
  BY TreeParts
<1>2. Probing \in SUBSET Leaves
  BY <1>1 DEF Probing
<1>3. IsFiniteSet(F) /\ F \in SUBSET Space /\ Cardinality(F) \in Nat
  BY <1>2, FirstIdsOf
<1>4. F \in SUBSET Nat /\ MaxProbes \in Nat
  BY <1>3, IdsAreNat, TableAssumption
<1>5. PICK n : n = Cardinality(F)
  OBVIOUS
<1>6. ASSUME n > MaxProbes PROVE FALSE
  <2>1. n \in Nat /\ n \in 1 .. n /\ n - 1 \in Nat
    BY <1>3, <1>4, <1>5, <1>6
  <2>2. PICK m : m = InOrder(F)[n]
    OBVIOUS
  <2>3. m \in F /\ Rank(F, m) = n - 1
    <3>1. /\ InOrder(F) \in [1 .. Cardinality(F) -> F]
          /\ \A i \in 1 .. Cardinality(F) : Rank(F, InOrder(F)[i]) = i - 1
      BY <1>3, <1>4, OrderIsComplete
    <3>2. n \in 1 .. Cardinality(F)
      BY <1>5, <2>1
    <3> QED
      BY <2>2, <3>1, <3>2
  <2>4. PICK leaf \in Probing : m = FirstId(leaf)
    BY <2>3
  <2>5. PICK D : D = {l \in DOMAIN bins : Nearer(l, leaf) /\ FrontDue(l)}
    OBVIOUS
  <2>6. ~(Cardinality(D) >= MaxProbes) /\ D \in SUBSET Leaves
    BY <1>1, <2>4, <2>5 DEF Probing, Spent
  <2>7. PICK G : G = {FirstId(l) : l \in D}
    OBVIOUS
  <2>8. IsFiniteSet(G) /\ Cardinality(G) \in Nat /\ Cardinality(D) \in Nat /\ Cardinality(G) <= Cardinality(D)
    BY <2>6, <2>7, FirstIdsOf
  <2>9. PICK B : B = {j \in F : j < m}
    OBVIOUS
  <2>10. B \in SUBSET G
    <3> SUFFICES ASSUME NEW j \in B PROVE j \in G
      OBVIOUS
    <3>1. j \in F /\ j < m
      BY <2>9
    <3>2. PICK l \in Probing : j = FirstId(l)
      BY <3>1
    <3>3. l \in DOMAIN bins /\ FrontDue(l) /\ Nearer(l, leaf)
      BY <2>4, <3>1, <3>2 DEF Probing, Nearer
    <3> QED
      BY <2>5, <2>7, <3>2, <3>3
  <2>11. Cardinality(B) = n - 1
    BY <2>3, <2>9 DEF Rank
  <2>12. Cardinality(B) <= Cardinality(G)
    BY <2>8, <2>10, FS_Subset
  <2> QED
    BY <1>4, <1>6, <2>1, <2>6, <2>8, <2>11, <2>12
<1> QED
  BY <1>3, <1>4, <1>5, <1>6

\* The probes of a sweep go to contacts it left in the table.
LEMMA SweepProbes ==
    ASSUME TableInv, LeasesBounded, bins \in Trees(Known(contact)), Sweep
    PROVE  ProbesTyped'
<1>1. PICK F : F = {FirstId(l) : l \in Probing}
  OBVIOUS
<1>2. IsFiniteSet(F) /\ F \in SUBSET Nat /\ Cardinality(F) \in Nat /\ Cardinality(F) <= MaxProbes
  BY <1>1, ProbingBounded
<1>3. PICK order, n : order = InOrder(F) /\ n = Cardinality(F)
  OBVIOUS
<1>4. order \in [1 .. n -> F] /\ n \in Nat
  BY <1>2, <1>3, OrderIsComplete
<1> DEFINE First(d) == Head(Left(LeafOf(bins, d)))
<1>5. probes' = [i \in DOMAIN order |-> <<First(order[i]), Stamped[First(order[i])].addr>>]
  BY <1>1, <1>3 DEF Sweep
<1>6. ASSUME NEW d \in F PROVE First(d) \in Ids /\ Stamped[First(d)].addr \in Addr
  <2>1. PICK l \in Probing : d = FirstId(l)
    BY <1>1
  <2>2. l \in DOMAIN bins /\ l \in Leaves /\ Left(l) # <<>>
    BY <2>1, TreeParts DEF Probing, FrontDue
  <2>3. d \in Space /\ Covers(l, d)
    BY <2>1, <2>2, FirstIdCovered
  <2>4. l = LeafOf(bins, d)
    BY <2>2, <2>3, LeafOfCovers
  <2>5. PICK q : q = Left(l)
    OBVIOUS
  <2>6. /\ q \in Seq(Ids) /\ q # <<>>
        /\ Range(q) = {e \in Known(contact) : Covers(l, e) /\ ~Dead(Older[e])}
    BY <2>2, <2>5, LeftDoes
  <2>7. PICK h : h = Head(q)
    OBVIOUS
  <2>8. h \in Range(q)
    <3>1. h = q[1] /\ 1 \in DOMAIN q
      BY <2>6, <2>7
    <3> QED
      BY <3>1 DEF Range
  <2>9. h \in Ids /\ contact[h] # Absent /\ ~Dead(Older[h])
    BY <2>6, <2>8 DEF Known
  <2>10. Stamped[h].addr \in Addr
    BY <2>9, SweepLeaves
  <2>11. First(d) = h
    BY <2>4, <2>5, <2>7
  <2> QED
    BY <2>9, <2>10, <2>11
<1> HIDE DEF First
<1>7. \A i \in 1 .. n : order[i] \in F
  BY <1>4
<1>8. \A i \in 1 .. n : <<First(order[i]), Stamped[First(order[i])].addr>> \in Ids \X Addr
  BY <1>6, <1>7
<1>9. probes' \in Seq(Ids \X Addr) /\ Len(probes') = n
  <2>1. probes' = [i \in 1 .. n |-> <<First(order[i]), Stamped[First(order[i])].addr>>]
    BY <1>4, <1>5
  <2>2. probes' \in [1 .. n -> Ids \X Addr]
    BY <1>8, <2>1
  <2> QED
    BY <1>4, <2>1, <2>2
<1> QED
  BY <1>2, <1>3, <1>9 DEF ProbesTyped

-----------------------------------------------------------------------------
(* The invariant of the tree *)

\* Where the reading of nodes.dat stands.
SeedsLeft == \E full \in Stored : \E n \in 0 .. Len(full) : seeds = SubSeq(full, n + 1, Len(full))

AsksTyped == hello_res_sent \subseteq {Ip[a] : a \in Addr}

TreeInv ==
    /\ LeasesBounded /\ bins \in Trees(Known(contact))
    /\ AsksTyped /\ SeedsLeft /\ ProbesTyped

\* The tree and the leases, through an update.
LEMMA UpdateKeepsTree ==
    ASSUME TableInv, TreeInv, NEW id \in Ids, NEW a \in Addr, NEW v \in BOOLEAN, NEW alive \in BOOLEAN,
           Store(GatedAdd(Table, id, a, v, alive).t)
    PROVE  LeasesBounded' /\ bins' \in Trees(Known(contact'))
<1>1. PICK r : r = GatedAdd(Table, id, a, v, alive)
  OBVIOUS
<1>2. bins' = r.t.bins /\ contact' = r.t.contact
  BY <1>1 DEF Store
<1>3. contact \in [Ids -> Shape \cup {Absent}] /\ bins \in Trees(Known(contact))
  BY DEF TableInv, ContactsTyped, TreeInv
<1>4. Outcome(r, id, a, v, alive) /\ r.t.bins \in Trees(Known(r.t.contact))
  BY <1>1, <1>3, GatedAddDoes, GatedAddKeepsTree
<1>5. PICK u : u = Updated(contact[id], a, v, alive)
  OBVIOUS
<1>6. contact' = contact \/ contact' = [contact EXCEPT ![id] = u]
  BY <1>2, <1>4, <1>5 DEF Outcome
<1>7. contact[id] # Absent => contact[id].expires \in Unset .. Lease
  BY DEF TreeInv, LeasesBounded, Known
<1>8. u.expires \in Unset .. Lease
  <2> DEFINE old == contact[id]
             base == IF old = Absent THEN Fresh(a, v) ELSE Refreshed(old, a, v)
  <2>1. Unset \in Unset .. Lease /\ Lease \in Unset .. Lease /\ Lease \in Int
    BY TableAssumption DEF Unset
  <2>2. Fresh(a, v).expires \in Unset .. Lease
    BY <2>1 DEF Fresh
  <2>3. base \in Shape /\ base.expires \in Unset .. Lease
    <3>0. Fresh(a, v) \in Shape
      BY DEF Fresh, Shape, New, Unset
    <3>1. CASE old = Absent \/ Ip[old.addr] # Ip[a]
      BY <2>2, <3>0, <3>1 DEF Refreshed
    <3>2. CASE old # Absent /\ Ip[old.addr] = Ip[a]
      <4>1. base = [old EXCEPT !.addr = a, !.verified = @ \/ v] /\ old \in Shape
        BY <1>3, <3>2 DEF Refreshed
      <4>2. old.expires \in Unset .. Lease
        BY <1>7, <3>2
      <4> HIDE DEF base, old
      <4>3. base \in Shape /\ base.expires = old.expires
        BY <4>1 DEF Shape
      <4> QED
        BY <4>2, <4>3
    <3> QED
      BY <3>1, <3>2
  <2>4. u = IF alive /\ old # Absent THEN [base EXCEPT !.kad_type = Alive, !.expires = Lease] ELSE base
    BY <1>5 DEF Updated
  <2> HIDE DEF base, old
  <2>5. [base EXCEPT !.kad_type = Alive, !.expires = Lease].expires = Lease
    BY <2>3 DEF Shape
  <2> QED
    BY <2>1, <2>3, <2>4, <2>5
<1>9. ASSUME NEW d \in Known(contact') PROVE contact'[d].expires \in Unset .. Lease
  <2>1. d \in Ids /\ contact'[d] # Absent
    BY DEF Known
  <2>2. CASE contact'[d] = contact[d]
    BY <2>1, <2>2 DEF TreeInv, LeasesBounded, Known
  <2>3. CASE contact'[d] = u
    BY <1>8, <2>3
  <2>4. contact'[d] = contact[d] \/ contact'[d] = u
    BY <1>3, <1>6, <2>1
  <2> QED
    BY <2>2, <2>3, <2>4
<1> QED
  BY <1>2, <1>4, <1>9 DEF LeasesBounded

\* They survive a mark on a contact.
LEMMA MarkKeepsTree ==
    ASSUME TreeInv, bins' = bins,
           \A d \in Ids : /\ contact'[d] = Absent <=> contact[d] = Absent
                          /\ contact[d] # Absent => contact'[d].expires = contact[d].expires
    PROVE  LeasesBounded' /\ bins' \in Trees(Known(contact'))
<1>1. Known(contact') = Known(contact)
  BY DEF Known
<1>2. \A d \in Known(contact) : d \in Ids /\ contact[d] # Absent
  BY DEF Known
<1>3. \A d \in Known(contact') : contact'[d].expires \in Unset .. Lease
  BY <1>1, <1>2 DEF TreeInv, LeasesBounded
<1> QED
  BY <1>1, <1>3 DEF TreeInv, LeasesBounded

\* The rest of a queue of probes.
LEMMA ProbesRest ==
    ASSUME ProbesTyped, probes # <<>>, probes' = Tail(probes)
    PROVE  ProbesTyped'
<1>1. PICK S : S = Ids \X Addr
  OBVIOUS
<1>2. probes \in Seq(S) /\ Len(probes) <= MaxProbes
  BY <1>1 DEF ProbesTyped
<1>3. Tail(probes) \in Seq(S) /\ Len(Tail(probes)) = Len(probes) - 1
  BY <1>2
<1>4. Len(probes) \in Nat /\ MaxProbes \in Nat
  BY <1>2, TableAssumption
<1>5. Len(Tail(probes)) <= MaxProbes
  BY <1>2, <1>3, <1>4
<1> QED
  BY <1>1, <1>3, <1>5 DEF ProbesTyped

\* The rest of nodes.dat.
LEMMA SeedsRest ==
    ASSUME SeedsLeft, seeds # <<>>, seeds' = Tail(seeds)
    PROVE  SeedsLeft'
<1>1. PICK S : S = Ids \X Addr \X BOOLEAN \X BOOLEAN
  OBVIOUS
<1>0. PICK full \in Stored : \E n \in 0 .. Len(full) : seeds = SubSeq(full, n + 1, Len(full))
  BY DEF SeedsLeft
<1>2. PICK n \in 0 .. Len(full) : seeds = SubSeq(full, n + 1, Len(full))
  BY <1>0
<1>3. full \in Seq(S)
  BY <1>1, TableAssumption
<1>4. PICK m : m = Len(full)
  OBVIOUS
<1>5. m \in Nat /\ n \in 0 .. m
  BY <1>3, <1>4
<1>6. n # m
  <2> SUFFICES ASSUME n = m PROVE FALSE
    OBVIOUS
  <2>1. n + 1 \in Int /\ m \in Int /\ m < n + 1
    BY <1>5
  <2>2. SubSeq(full, n + 1, m) = <<>>
    BY <2>1, SubSeqEmpty
  <2> QED
    BY <1>2, <1>4, <2>2
<1>7. n + 1 \in 1 .. m /\ m \in n + 1 .. m /\ n + 1 \in 0 .. m
  BY <1>5, <1>6
<1>8. Tail(SubSeq(full, n + 1, m)) = SubSeq(full, (n + 1) + 1, m)
  BY <1>3, <1>4, <1>7, HeadTailOfSubSeq
<1>9. seeds' = SubSeq(full, (n + 1) + 1, Len(full)) /\ n + 1 \in 0 .. Len(full)
  BY <1>2, <1>4, <1>7, <1>8
<1> QED
  BY <1>9 DEF SeedsLeft

\* The messages of the network.
LEMMA NetworkKeepsTree == ASSUME TableInv, TreeInv, Network PROVE TreeInv'
<1>0. /\ Speakers \subseteq Claims /\ Claims \subseteq Ids \X Addr
      /\ \A k \in Keys : k[1] \in BOOLEAN /\ k[2] \in BOOLEAN
  BY TableAssumption DEF Keys
<1>1. \A p \in Claims : p[1] \in Ids /\ p[2] \in Addr
  BY <1>0
<1>2. /\ seeds' = seeds => SeedsLeft'
      /\ probes' = probes => ProbesTyped'
      /\ hello_res_sent' = hello_res_sent => AsksTyped'
  BY DEF TreeInv, SeedsLeft, ProbesTyped, AsksTyped
<1>3. ASSUME NEW p \in Claims, Hearsay(p[1], p[2]) PROVE TreeInv'
  <2>1. Store(GatedAdd(Table, p[1], p[2], FALSE, FALSE).t) /\ UNCHANGED <<hello_res_sent, seeds, probes>>
    BY <1>3 DEF Hearsay
  <2>2. LeasesBounded' /\ bins' \in Trees(Known(contact'))
    BY <1>1, <2>1, UpdateKeepsTree
  <2> QED
    BY <1>2, <2>1, <2>2 DEF TreeInv
<1>4. ASSUME NEW p \in Speakers, NEW k \in Keys, NEW l \in BOOLEAN,
             Responder(p[1], p[2], k[1], k[2], l)
      PROVE  TreeInv'
  <2>1. Store(GatedAdd(Table, p[1], p[2], k[1], l).t) /\ UNCHANGED <<hello_res_sent, seeds, probes>>
    BY <1>4 DEF Responder
  <2>2. p[1] \in Ids /\ p[2] \in Addr /\ k[1] \in BOOLEAN
    BY <1>0, <1>1
  <2>3. LeasesBounded' /\ bins' \in Trees(Known(contact'))
    BY <2>1, <2>2, UpdateKeepsTree
  <2> QED
    BY <1>2, <2>1, <2>3 DEF TreeInv
<1>5. ASSUME NEW p \in Speakers, NEW k \in Keys, HelloReq(p[1], p[2], k[1], k[2])
      PROVE  TreeInv'
  <2>1. /\ Store(GatedAdd(Table, p[1], p[2], k[1], TRUE).t) /\ UNCHANGED <<seeds, probes>>
        /\ hello_res_sent' = IF k[1] THEN hello_res_sent ELSE hello_res_sent \cup {Ip[p[2]]}
    BY <1>5 DEF HelloReq
  <2>2. p[1] \in Ids /\ p[2] \in Addr /\ k[1] \in BOOLEAN
    BY <1>0, <1>1
  <2>3. LeasesBounded' /\ bins' \in Trees(Known(contact'))
    BY <2>1, <2>2, UpdateKeepsTree
  <2>4. AsksTyped'
    BY <2>1, <2>2 DEF TreeInv, AsksTyped
  <2> QED
    BY <1>2, <2>1, <2>3, <2>4 DEF TreeInv
<1>6. ASSUME NEW p \in Speakers, NEW v \in BOOLEAN, HelloResAck(p[1], Ip[p[2]], v)
      PROVE  TreeInv'
  <2>1. /\ UNCHANGED <<bins, seeds, probes>> /\ hello_res_sent' \subseteq hello_res_sent
        /\ \/ contact' = contact
           \/ StillAt(p[1], Ip[p[2]]) /\ contact' = [contact EXCEPT ![p[1]].verified = TRUE]
    BY <1>6 DEF HelloResAck, VerifyContact
  <2>2. p[1] \in Ids
    BY <1>0, <1>1
  <2>3. contact \in [Ids -> Shape \cup {Absent}]
    BY DEF TableInv, ContactsTyped
  <2>4. ASSUME NEW d \in Ids
        PROVE  /\ contact'[d] = Absent <=> contact[d] = Absent
               /\ contact[d] # Absent => contact'[d].expires = contact[d].expires
    <3>1. \/ contact'[d] = contact[d]
          \/ contact[d] \in Shape /\ contact'[d] = [contact[d] EXCEPT !.verified = TRUE]
      BY <2>1, <2>2, <2>3 DEF StillAt
    <3>2. contact[d] \in Shape => /\ [contact[d] EXCEPT !.verified = TRUE] \in Shape
                                  /\ [contact[d] EXCEPT !.verified = TRUE].expires = contact[d].expires
      BY DEF Shape
    <3> QED
      BY <3>1, <3>2, ShapeIsPresent
  <2>5. LeasesBounded' /\ bins' \in Trees(Known(contact'))
    BY <2>1, <2>4, MarkKeepsTree
  <2>6. AsksTyped'
    BY <2>1 DEF TreeInv, AsksTyped
  <2> QED
    BY <1>2, <2>1, <2>5, <2>6 DEF TreeInv
<1>7. ASSUME NEW k \in Keys, ProbeAnswered(k[1], k[2]) PROVE TreeInv'
  <2> DEFINE p == Head(probes)
  <2>1. /\ Store(GatedAdd(Table, p[1], p[2], k[1], TRUE).t) /\ UNCHANGED <<hello_res_sent, seeds>>
        /\ p \in Speakers /\ probes # <<>> /\ probes' = Tail(probes)
    BY <1>7 DEF ProbeAnswered
  <2> HIDE DEF p
  <2>2. p[1] \in Ids /\ p[2] \in Addr /\ k[1] \in BOOLEAN
    BY <1>0, <1>1, <2>1
  <2>3. LeasesBounded' /\ bins' \in Trees(Known(contact'))
    BY <2>1, <2>2, UpdateKeepsTree
  <2>4. ProbesTyped'
    BY <2>1, ProbesRest DEF TreeInv
  <2> QED
    BY <1>2, <2>1, <2>3, <2>4 DEF TreeInv
<1> QED
  BY <1>3, <1>4, <1>5, <1>6, <1>7 DEF Network

\* The table starts as one empty bin.
LEMMA TreeInit == Init => TreeInv
<1> SUFFICES ASSUME Init PROVE TreeInv
  OBVIOUS
<1>0. /\ bins = [l \in {<<0, 0>>} |-> <<>>] /\ contact = [d \in Ids |-> Absent]
      /\ hello_res_sent = {} /\ seeds \in Stored /\ probes = <<>>
  BY DEF Init
<1>1. Known(contact) = {}
  BY <1>0 DEF Known
<1>2. Bits \in Nat \ {0} /\ Bits \in 0 .. Bits /\ Pow2[Bits] \in Nat \ {0}
  <2>1. Bits \in Nat \ {0} /\ Bits \in 0 .. Bits
    BY TableAssumption
  <2> QED
    BY <2>1, Powers
<1>3. PICK root : root = <<0, 0>>
  OBVIOUS
<1>4. root \in Leaves
  <2>1. 0 \in 0 .. Bits /\ 0 \in Space /\ Bits - 0 = Bits /\ (0 + 1) * Pow2[Bits] <= Pow2[Bits]
    BY <1>2 DEF Space
  <2>2. root \in (0 .. Bits) \X Space /\ root[1] = 0 /\ root[2] = 0
    BY <1>3, <2>1
  <2> QED
    BY <2>1, <2>2 DEF Leaves
<1>5. ASSUME NEW d \in Space PROVE Covers(root, d)
  <2>1. d \in Nat /\ d < Pow2[Bits]
    BY <1>2 DEF Space
  <2>2. 0 \in 0 .. Bits /\ 0 \in Nat /\ Pow2[Bits] = Pow2[Bits - 0]
    BY <1>2
  <2>3. Covers(<<0, 0>>, d) <=> 0 * Pow2[Bits] <= d /\ d < (0 + 1) * Pow2[Bits]
    BY <2>1, <2>2, CoversInterval
  <2>4. Covers(<<0, 0>>, d)
    BY <1>2, <2>1, <2>3
  <2> QED
    BY <1>3, <2>4, Zenon
<1>6. DOMAIN bins = {root} /\ bins[root] = <<>> /\ bins = [l \in {root} |-> <<>>]
  BY <1>0, <1>3
<1>7. <<>> \in Seq(Ids) /\ Len(<<>>) <= K /\ IsInjective(<<>>) /\ Range(<<>>) = {}
  BY TableAssumption DEF IsInjective, Range
<1>8. Exact(bins, {})
  BY <1>5, <1>6, <1>7 DEF Exact
<1>9. bins \in Trees(Known(contact))
  <2>1. DOMAIN bins \in SUBSET Leaves /\ bins \in [DOMAIN bins -> Seq(Ids)]
    BY <1>4, <1>6, <1>7
  <2> QED
    BY <1>1, <1>8, <2>1, TreeParts
<1>10. LeasesBounded /\ AsksTyped
  BY <1>0, <1>1 DEF LeasesBounded, AsksTyped
<1>11. ProbesTyped
  BY <1>0, TableAssumption DEF ProbesTyped
<1>12. SeedsLeft
  <2>1. PICK S : S = Ids \X Addr \X BOOLEAN \X BOOLEAN
    OBVIOUS
  <2>2. seeds \in Seq(S)
    BY <1>0, <2>1, TableAssumption
  <2>3. SubSeq(seeds, 1, Len(seeds)) = seeds /\ Len(seeds) \in Nat
    BY <2>2, SubSeqFull
  <2>4. 0 \in 0 .. Len(seeds) /\ 0 + 1 = 1
    BY <2>3
  <2> QED
    BY <1>0, <2>3, <2>4 DEF SeedsLeft
<1> QED
  BY <1>9, <1>10, <1>11, <1>12 DEF TreeInv

\* Every step keeps the tree exact.
LEMMA TreeStep == TableInv /\ TreeInv /\ [Next]_vars => TreeInv'
<1> SUFFICES ASSUME TableInv, TreeInv, [Next]_vars PROVE TreeInv'
  OBVIOUS
<1>0. /\ seeds' = seeds => SeedsLeft'
      /\ probes' = probes => ProbesTyped'
      /\ hello_res_sent' = hello_res_sent => AsksTyped'
      /\ bins' = bins /\ contact' = contact => LeasesBounded' /\ bins' \in Trees(Known(contact'))
  BY DEF TreeInv, SeedsLeft, ProbesTyped, AsksTyped, LeasesBounded
<1>1. CASE Network
  BY <1>1, NetworkKeepsTree
<1>2. ASSUME NEW w \in Writers, NoteVerifyKey(w) PROVE TreeInv'
  <2>1. noting[w] \in Ids \X {Ip[a] : a \in Addr} \X BOOLEAN
    BY <1>2 DEF NoteVerifyKey, TableInv, QueuesTyped
  <2>2. noting[w][1] \in Ids /\ noting[w][3] \in BOOLEAN
    BY <2>1
  <2>3. /\ contact' = IF StillAt(noting[w][1], noting[w][2])
                      THEN [contact EXCEPT ![noting[w][1]].key = noting[w][3]] ELSE contact
        /\ UNCHANGED <<bins, hello_res_sent, seeds, probes>>
    BY <1>2 DEF NoteVerifyKey
  <2>4. contact \in [Ids -> Shape \cup {Absent}]
    BY DEF TableInv, ContactsTyped
  <2>5. ASSUME NEW d \in Ids
        PROVE  /\ contact'[d] = Absent <=> contact[d] = Absent
               /\ contact[d] # Absent => contact'[d].expires = contact[d].expires
    <3>1. \/ contact'[d] = contact[d]
          \/ contact[d] \in Shape /\ contact'[d] = [contact[d] EXCEPT !.key = noting[w][3]]
      BY <2>2, <2>3, <2>4 DEF StillAt
    <3>2. contact[d] \in Shape => /\ [contact[d] EXCEPT !.key = noting[w][3]] \in Shape
                                  /\ [contact[d] EXCEPT !.key = noting[w][3]].expires = contact[d].expires
      BY <2>2 DEF Shape
    <3> QED
      BY <3>1, <3>2, ShapeIsPresent
  <2>6. LeasesBounded' /\ bins' \in Trees(Known(contact'))
    BY <2>3, <2>5, MarkKeepsTree
  <2> QED
    BY <1>0, <2>3, <2>6 DEF TreeInv
<1>3. CASE Seed
  <2> DEFINE h == Head(seeds)
             S == Ids \X Addr \X BOOLEAN \X BOOLEAN
  <2>1. seeds \in Seq(S) /\ seeds # <<>> /\ seeds' = Tail(seeds) /\ UNCHANGED <<hello_res_sent, probes>>
    BY <1>3 DEF TableInv, QueuesTyped, Seed
  <2>2. Store(GatedAdd(Table, h[1], h[2], h[3], FALSE).t)
    BY <1>3 DEF Seed
  <2>3. h \in S
    <3> HIDE DEF S
    <3> QED
      BY <2>1
  <2>4. h[1] \in Ids /\ h[2] \in Addr /\ h[3] \in BOOLEAN
    BY <2>3
  <2> HIDE DEF h
  <2>5. LeasesBounded' /\ bins' \in Trees(Known(contact'))
    BY <2>2, <2>4, UpdateKeepsTree
  <2>6. SeedsLeft'
    BY <2>1, SeedsRest DEF TreeInv
  <2> QED
    BY <1>0, <2>1, <2>5, <2>6 DEF TreeInv
<1>4. CASE Sweep
  <2>1. bins' \in Trees(Known(contact')) /\ ProbesTyped'
    BY <1>4, SweepKeepsTree, SweepProbes DEF TreeInv
  <2>2. LeasesBounded'
    BY <1>4, SweepLeaves DEF TreeInv, LeasesBounded, Known
  <2>3. UNCHANGED <<hello_res_sent, seeds>>
    BY <1>4 DEF Sweep
  <2> QED
    BY <1>0, <2>1, <2>2, <2>3 DEF TreeInv
<1>5. CASE ProbeLost
  <2>1. probes # <<>> /\ probes' = Tail(probes) /\ UNCHANGED <<bins, contact, hello_res_sent, seeds>>
    BY <1>5 DEF ProbeLost
  <2>2. ProbesTyped'
    BY <2>1, ProbesRest DEF TreeInv
  <2> QED
    BY <1>0, <2>1, <2>2 DEF TreeInv
<1>6. CASE UNCHANGED vars
  BY <1>0, <1>6 DEF TreeInv, vars
<1> QED
  BY <1>1, <1>2, <1>3, <1>4, <1>5, <1>6 DEF Next, Upkeep

\* The invariants give the property.
LEMMA TreeInvImplies == ASSUME TableInv, TreeInv PROVE TreeIsExact
<1>1. DOMAIN bins \in SUBSET Leaves /\ bins \in [DOMAIN bins -> Seq(Ids)] /\ Exact(bins, Known(contact))
  BY TreeParts DEF TreeInv
<1>2. contact \in [Ids -> Contact \cup {Absent}]
  <2>1. contact \in [Ids -> Shape \cup {Absent}]
    BY DEF TableInv, ContactsTyped
  <2>2. ASSUME NEW d \in Ids PROVE contact[d] \in Contact \cup {Absent}
    <3>1. CASE contact[d] = Absent
      BY <3>1
    <3>2. CASE contact[d] # Absent
      <4>1. contact[d] \in Shape /\ contact[d].expires \in Unset .. Lease
        BY <2>1, <3>2 DEF TreeInv, LeasesBounded, Known
      <4> QED
        BY <4>1 DEF Shape, Contact
    <3> QED
      BY <3>1, <3>2
  <2> QED
    BY <2>1, <2>2
<1>3. TypeOK
  <2>1. DOMAIN bins \subseteq (0 .. Bits) \X Space
    BY <1>1 DEF Leaves
  <2>2. \A leaf \in DOMAIN bins : bins[leaf] \in Seq(Ids) /\ Len(bins[leaf]) <= K
    BY <1>1 DEF Exact
  <2>3. noting \in [Writers -> Note] /\ unanswered \in [Ids -> 0 .. 2]
    BY DEF TableInv, QueuesTyped, ContactsTyped, Note
  <2> QED
    BY <1>2, <2>1, <2>2, <2>3 DEF TypeOK, TreeInv, AsksTyped, SeedsLeft, ProbesTyped
<1>4. ASSUME NEW d \in Space PROVE Cardinality({leaf \in DOMAIN bins : Covers(leaf, d)}) = 1
  <2>1. PICK l \in DOMAIN bins : Covers(l, d)
    BY <1>1 DEF Exact
  <2>2. {leaf \in DOMAIN bins : Covers(leaf, d)} = {l}
    BY <1>1, <2>1 DEF Exact
  <2> QED
    BY <2>2, FS_Singleton
<1>5. \A leaf \in DOMAIN bins :
          Range(bins[leaf]) = {d \in Known(contact) : Covers(leaf, d)} /\ IsInjective(bins[leaf])
  BY <1>1 DEF Exact
<1> QED
  BY <1>3, <1>4, <1>5 DEF TreeIsExact

\* The table's tree is exact in every reachable state: its leaves partition the id
\* space and each bin holds, once, exactly the contacts a descent would look for in
\* it, through splits, renewals, rotations and evictions (Zone::add, split,
\* set_alive, sweep).
THEOREM TreeStaysExact == Spec => []TreeIsExact
<1>1. Spec => [](TableInv /\ TreeInv)
  BY TableInit, TreeInit, TableStep, TreeStep, PTL DEF Spec
<1>2. TableInv /\ TreeInv => TreeIsExact
  BY TreeInvImplies
<1> QED
  BY <1>1, <1>2, PTL
=============================================================================
