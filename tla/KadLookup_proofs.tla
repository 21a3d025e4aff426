-------------------------- MODULE KadLookup_proofs --------------------------
(* Proofs about module KadLookup, for any network, budgets, answers and panics. *)
EXTENDS KadLookup, FiniteSetTheorems, WellFoundedInduction, TLAPS

(* The inductive invariant *)

Seqs(requests) == {r.seq : r \in requests}
FindTasks == {r \in Tasks : r.kind = "find"}
Asked(kind) == {c \in Contact : sent[<<kind, c>>] > 0}
Queued == {queue[i] : i \in DOMAIN queue}

\* Outside a pass nothing is being sent; between lookups nothing is left.
Places ==
    /\ phase \in {"idle", "top", "select"} => queue = <<>> /\ NoSend
    /\ phase = "idle" => inflight = {} /\ guard = {} /\ pending = {}
    /\ \A r \in inflight \ Tasks : r.kind = SendKind
    /\ \A r, s \in inflight \ Tasks : r = s

\* The numbers of requests and slots: the guard's, each used once; an answered
\* request has no slot, and a slot without a request is a panicked task's.
Numbers ==
    /\ IsFiniteSet(inflight)
    /\ IsFiniteSet(guard) /\ guard = 1 .. Cardinality(guard)
    /\ Seqs(inflight) \subseteq guard /\ PendingSeqs \subseteq guard
    /\ \A r, s \in inflight : r.seq = s.seq => r = s
    /\ \A p, q \in pending : p.seq = q.seq => p = q
    /\ \A r \in inflight : r.st \in {"early", "answered"} => r.seq \notin PendingSeqs
    /\ Cardinality(PendingSeqs \ Seqs(inflight)) <= panics.total

\* What is counted as in flight, and what the pass under way may still add.
Counts ==
    /\ finds_inflight <= Alpha
    /\ phase # "idle" => finds_inflight <= Cardinality(FindTasks)
    /\ Cardinality(FindTasks) <= finds_inflight + panics.total
    /\ phase \in {"finds", "jump"} =>
          finds_inflight + Len(queue) + (IF NoSend THEN 0 ELSE 1) <= Alpha

\* FIND_NODEs go to contacts marked tried, once each, within the budget.
Finds ==
    /\ Cardinality(tried) + find_budget <= FindBudget
    /\ Asked("find") \subseteq tried
    /\ \A r \in inflight : r.kind = "find" => r.to \in tried
    /\ phase \in {"finds", "jump"} => Queued \subseteq tried \ Asked("find")

\* Value requests go to contacts the walk consumed, once each, within the budget.
AskOrAsked == Asked("value") \cup (IF phase = "asks" THEN Queued ELSE {})
Values ==
    /\ Cardinality(AskOrAsked) + value_budget <= ValueBudget
    /\ AskOrAsked \subseteq tried \ possible
    /\ phase = "asks" => Queued \cap Asked("value") = {}

\* Nobody is asked twice, and nobody is queued twice.
Once ==
    /\ \A k \in Kind \X Contact : sent[k] <= 1
    /\ \A i, j \in DOMAIN queue : queue[i] = queue[j] => i = j

\* The walk consumed only what was resolved.
Walked == tried \ possible \subseteq responded \cup failed

\* What the pass under way still owes the candidates: after the walk the closest
\* one left is in flight or can be dispatched; after the refill it was.
Owed ==
    /\ phase # "idle" => ~exhausted
    /\ phase = "asks" /\ possible # {} =>
          \E c \in possible : WalkStops(c) /\ \A d \in possible : c <= d
    /\ phase = "finds" /\ possible # {} =>
          unsent \/ queue # <<>> \/ inflight # {} \/ panics.finds # {}

LookupInv ==
    /\ TypeOK /\ Places /\ Numbers /\ Counts
    /\ Finds /\ Values /\ Once /\ Walked
    /\ NoLimbo /\ ClosestFirst /\ Owed /\ NothingStranded

-----------------------------------------------------------------------------
(* The order of a finite set of distances *)

\* A non-empty set of naturals has a least element.
LEMMA LeastNat ==
    ASSUME NEW T \in SUBSET Nat, T # {}
    PROVE  \E x \in T : \A y \in T : x <= y
<1>1. PICK x \in T : \A y \in T : ~(<<y, x>> \in OpToRel(<, Nat))
  BY NatLessThanWellFounded, WFMin
<1>2. \A y \in T : ~(y < x)
  BY <1>1 DEF OpToRel
<1> QED
  BY <1>2

\* Sets of contacts are finite sets of naturals.
LEMMA ContactsFinite ==
    ASSUME NEW S \in SUBSET Contact
    PROVE  S \in SUBSET Nat /\ IsFiniteSet(S) /\ Cardinality(S) \in Nat
<1>1. N \in Nat /\ Contact \in SUBSET Nat
  BY LookupAssumption DEF Contact
<1>2. IsFiniteSet(Contact)
  BY <1>1, FS_Interval DEF Contact
<1>3. IsFiniteSet(S)
  BY <1>2, FS_Subset
<1> QED
  BY <1>1, <1>3, FS_CardinalityType

\* Ranks count from 0 and grow with the distance.
LEMMA Ranks ==
    ASSUME NEW S \in SUBSET Nat, IsFiniteSet(S), NEW c \in S
    PROVE  /\ Rank(S, c) \in 0 .. Cardinality(S) - 1
           /\ \A d \in S : c < d => Rank(S, c) < Rank(S, d)
           /\ \A d \in S : Rank(S, c) = Rank(S, d) => c = d
<1> DEFINE Below(x) == {d \in S : d < x}
<1>1. \A x : IsFiniteSet(Below(x)) /\ Cardinality(Below(x)) \in Nat
  <2> TAKE x
  <2>1. Below(x) \in SUBSET S
    OBVIOUS
  <2> HIDE DEF Below
  <2>2. IsFiniteSet(Below(x))
    BY <2>1, FS_Subset
  <2> QED
    BY <2>2, FS_CardinalityType
<1>2. ASSUME NEW U, IsFiniteSet(U), NEW T \in SUBSET U, NEW x \in U, x \notin T
      PROVE  Cardinality(T) < Cardinality(U)
  <2>1. IsFiniteSet(T) /\ Cardinality(T) <= Cardinality(U) /\ (Cardinality(T) = Cardinality(U) => T = U)
    BY <1>2, FS_Subset
  <2>2. T # U
    BY <1>2
  <2>3. Cardinality(T) \in Nat /\ Cardinality(U) \in Nat
    BY <1>2, <2>1, FS_CardinalityType
  <2> QED
    BY <2>1, <2>2, <2>3
<1>3. Cardinality(Below(c)) < Cardinality(S)
  <2>1. Below(c) \in SUBSET S /\ c \notin Below(c)
    OBVIOUS
  <2> HIDE DEF Below
  <2> QED
    BY <1>2, <2>1
<1>4. ASSUME NEW x \in S, NEW d \in S, x < d PROVE Cardinality(Below(x)) < Cardinality(Below(d))
  <2>0. x \in Nat /\ d \in Nat /\ \A y \in S : y \in Nat
    OBVIOUS
  <2>1. ASSUME NEW y \in Below(x) PROVE y \in Below(d)
    BY <1>4, <2>0
  <2>2. x \in Below(d) /\ x \notin Below(x)
    BY <1>4, <2>0
  <2>3. IsFiniteSet(Below(d)) /\ Below(x) \in SUBSET Below(d)
    BY <1>1, <2>1
  <2> HIDE DEF Below
  <2> QED
    BY <1>2, <2>2, <2>3
<1>5. \A x : Rank(S, x) = Cardinality(Below(x))
  BY DEF Rank
<1>6. Cardinality(S) \in Nat
  BY FS_CardinalityType
<1> HIDE DEF Below
<1>7. Rank(S, c) \in 0 .. Cardinality(S) - 1
  BY <1>1, <1>3, <1>5, <1>6
<1>8. \A d \in S : c < d => Rank(S, c) < Rank(S, d)
  BY <1>4, <1>5
<1>9. ASSUME NEW d \in S, Rank(S, c) = Rank(S, d) PROVE c = d
  <2>1. Rank(S, c) \in Nat
    BY <1>7
  <2>2. ~(c < d)
    BY <1>8, <1>9, <2>1
  <2>3. ~(d < c)
    BY <1>4, <1>5, <1>9, <2>1
  <2> QED
    BY <2>2, <2>3
<1> QED
  BY <1>7, <1>8, <1>9

\* Every rank is taken: a set in order is a sequence of all its members, each once.
LEMMA OrderIsComplete ==
    ASSUME NEW S \in SUBSET Nat, IsFiniteSet(S)
    PROVE  /\ InOrder(S) \in [1 .. Cardinality(S) -> S]
           /\ \A c \in S : \E i \in 1 .. Cardinality(S) : InOrder(S)[i] = c
           /\ \A i, j \in 1 .. Cardinality(S) : InOrder(S)[i] = InOrder(S)[j] => i = j
<1> DEFINE n == Cardinality(S)
           I == 0 .. n - 1
           f == [c \in S |-> Rank(S, c)]
<1>0. n \in Nat
  BY FS_CardinalityType
<1>1. f \in [S -> I]
  BY Ranks
<1>2. \A c, d \in S : f[c] = f[d] => c = d
  BY Ranks
<1>3. f \in Injection(S, I)
  BY <1>1, <1>2 DEF Injection, IsInjective
<1>4. IsFiniteSet(I) /\ Cardinality(I) = n
  <2> HIDE DEF n
  <2>1. 0 \in Int /\ n - 1 \in Int
    BY <1>0
  <2>2. IsFiniteSet(0 .. n - 1) /\ Cardinality(0 .. n - 1) = IF 0 > n - 1 THEN 0 ELSE n - 1 - 0 + 1
    BY <2>1, FS_Interval
  <2> QED
    BY <1>0, <2>2
<1>5. f \in Surjection(S, I)
  BY <1>3, <1>4, FS_Injection
<1>6. \A k \in I : \E c \in S : Rank(S, c) = k
  BY <1>5 DEF Surjection
<1>7. \A i \in 1 .. n : i - 1 \in I
  BY <1>0
<1>8. \A i \in 1 .. n : InOrder(S)[i] \in S /\ Rank(S, InOrder(S)[i]) = i - 1
  BY <1>6, <1>7 DEF InOrder
<1>9. \A c \in S : Rank(S, c) + 1 \in 1 .. n
  BY <1>0, Ranks
<1>10. ASSUME NEW c \in S PROVE InOrder(S)[Rank(S, c) + 1] = c
  <2>a. PICK m : m = Rank(S, c)
    OBVIOUS
  <2>b. m \in Nat /\ m + 1 \in 1 .. n
    BY <1>0, <2>a, Ranks
  <2>c. PICK k : k = m + 1
    OBVIOUS
  <2>0. k \in 1 .. n /\ k = Rank(S, c) + 1 /\ k - 1 = Rank(S, c)
    BY <2>a, <2>b, <2>c
  <2>1. PICK d : d = InOrder(S)[k]
    OBVIOUS
  <2>2. d \in S /\ Rank(S, d) = k - 1
    BY <1>8, <2>0, <2>1
  <2>3. d = c
    BY <2>0, <2>2, Ranks
  <2> QED
    BY <2>0, <2>1, <2>3
<1>11. \A i, j \in 1 .. n : InOrder(S)[i] = InOrder(S)[j] => i = j
  BY <1>0, <1>8
<1>12. InOrder(S) \in [1 .. n -> S]
  BY <1>8 DEF InOrder
<1> QED
  BY <1>9, <1>10, <1>11, <1>12

\* The closest n are at most n.
LEMMA ClosestAreFew ==
    ASSUME NEW S \in SUBSET Nat, IsFiniteSet(S), NEW n \in Nat
    PROVE  /\ Closest(S, n) \in SUBSET S /\ IsFiniteSet(Closest(S, n))
           /\ Cardinality(Closest(S, n)) \in Nat /\ Cardinality(Closest(S, n)) <= n
<1> DEFINE C == Closest(S, n)
           I == 0 .. n - 1
           f == [c \in C |-> Rank(S, c)]
<1>1. C \in SUBSET S /\ \A c \in C : Rank(S, c) < n
  BY DEF Closest
<1>2. f \in [C -> I]
  <2>1. ASSUME NEW c \in C PROVE Rank(S, c) \in I
    <3>1. c \in S /\ Rank(S, c) < n
      BY <1>1
    <3>2. Rank(S, c) \in 0 .. Cardinality(S) - 1
      BY <3>1, Ranks
    <3> QED
      BY <3>1, <3>2
  <2> QED
    BY <2>1
<1>3. \A c, d \in C : f[c] = f[d] => c = d
  BY <1>1, Ranks
<1>4. f \in Injection(C, I)
  BY <1>2, <1>3 DEF Injection, IsInjective
<1>5. IsFiniteSet(I) /\ Cardinality(I) = n
  <2>1. 0 \in Int /\ n - 1 \in Int
    OBVIOUS
  <2>2. IsFiniteSet(0 .. n - 1) /\ Cardinality(0 .. n - 1) = IF 0 > n - 1 THEN 0 ELSE n - 1 - 0 + 1
    BY <2>1, FS_Interval
  <2> QED
    BY <2>2
<1>6. IsFiniteSet(C) /\ Cardinality(C) <= n
  BY <1>4, <1>5, FS_Injection
<1> QED
  BY <1>1, <1>6, FS_CardinalityType

\* The very closest is among them.
LEMMA ClosestHasTheFirst ==
    ASSUME NEW S \in SUBSET Nat, NEW c \in S, \A d \in S : c <= d, NEW n \in Nat, n > 0
    PROVE  c \in Closest(S, n)
<1>1. {d \in S : d < c} = {}
  <2>1. ASSUME NEW d \in S PROVE ~(d < c)
    <3>1. c \in Nat /\ d \in Nat /\ c <= d
      OBVIOUS
    <3> QED
      BY <3>1
  <2> QED
    BY <2>1
<1>2. Rank(S, c) = 0
  BY <1>1, FS_EmptySet DEF Rank
<1> QED
  BY <1>2 DEF Closest

-----------------------------------------------------------------------------
(* Types *)

\* A function on 1 .. n is a sequence.
LEMMA SequenceOf ==
    ASSUME NEW S, NEW n \in Nat, NEW q \in [1 .. n -> S]
    PROVE  q \in Seq(S) /\ Len(q) = n /\ DOMAIN q = 1 .. n
  OBVIOUS

\* Sending to the members of a set, in order, is sending to contacts.
LEMMA OrderIsTyped ==
    ASSUME NEW S \in SUBSET Contact
    PROVE  InOrder(S) \in Seq(Contact) /\ Len(InOrder(S)) = Cardinality(S)
<1>1. S \in SUBSET Nat /\ IsFiniteSet(S) /\ Cardinality(S) \in Nat
  BY ContactsFinite
<1>2. InOrder(S) \in [1 .. Cardinality(S) -> S]
  BY <1>1, OrderIsComplete
<1>3. InOrder(S) \in [1 .. Cardinality(S) -> Contact]
  BY <1>2
<1> HIDE DEF InOrder
<1> QED
  BY <1>1, <1>3

\* What refill and harvest hand out.
LEMMA RefillIsTyped ==
    ASSUME TypeOK, NEW capacity \in Nat
    PROVE  LET out == Refillable(capacity)
           IN  /\ out \in SUBSET (possible \ tried) /\ IsFiniteSet(out)
               /\ Cardinality(out) \in Nat /\ Cardinality(out) <= find_budget
               /\ Cardinality(out) <= capacity
<1> DEFINE near == Closest(possible, FrontierSize) \ tried
           n == Least(capacity, find_budget)
<1>1. find_budget \in Nat /\ FrontierSize \in Nat /\ FindBudget \in Nat
  BY LookupAssumption DEF TypeOK
<1>2. n \in Nat /\ n <= find_budget /\ n <= capacity
  BY <1>1 DEF Least
<1>3. near \in SUBSET (possible \ tried) /\ near \in SUBSET Contact
  BY DEF Closest, TypeOK
<1>4. near \in SUBSET Nat /\ IsFiniteSet(near)
  BY <1>3, ContactsFinite
<1>5. Refillable(capacity) = Closest(near, n)
  BY DEF Refillable
<1> HIDE DEF near, n
<1>6. /\ Closest(near, n) \in SUBSET near /\ IsFiniteSet(Closest(near, n))
      /\ Cardinality(Closest(near, n)) \in Nat /\ Cardinality(Closest(near, n)) <= n
  BY <1>2, <1>4, ClosestAreFew
<1> QED
  BY <1>1, <1>2, <1>3, <1>5, <1>6

\* What harvest hands out.
LEMMA HarvestIsTyped ==
    ASSUME TypeOK
    PROVE  /\ Harvested \in SUBSET Consumed /\ Consumed \in SUBSET possible
           /\ Harvested \in SUBSET {c \in Contact : c \in tried /\ c \in responded /\ c <= Tolerance}
           /\ IsFiniteSet(Harvested) /\ Cardinality(Harvested) \in Nat
           /\ Cardinality(Harvested) <= value_budget
<1> DEFINE S == {c \in Consumed : c \in tried /\ c \in responded /\ c <= Tolerance}
<1>1. Consumed \in SUBSET possible /\ possible \in SUBSET Contact /\ S \in SUBSET Contact
  BY DEF Consumed, TypeOK
<1>2. value_budget \in Nat /\ Harvested = Closest(S, value_budget)
  BY LookupAssumption DEF TypeOK, Harvested
<1>3. S \in SUBSET Nat /\ IsFiniteSet(S)
  BY <1>1, ContactsFinite
<1>4. S \in SUBSET Consumed /\ S \in SUBSET {c \in Contact : c \in tried /\ c \in responded /\ c <= Tolerance}
  BY <1>1
<1> HIDE DEF S
<1>5. /\ Closest(S, value_budget) \in SUBSET S /\ IsFiniteSet(Closest(S, value_budget))
      /\ Cardinality(Closest(S, value_budget)) \in Nat /\ Cardinality(Closest(S, value_budget)) <= value_budget
  BY <1>2, <1>3, ClosestAreFew
<1> QED
  BY <1>1, <1>2, <1>4, <1>5

\* What an answer dispatches: contacts of the answer that are new, each once, within
\* the room and the budget.
Dispatches(out, a, capacity, q) ==
    /\ out \in SUBSET News(a) /\ IsFiniteSet(out)
    /\ Cardinality(out) \in Nat /\ Cardinality(out) <= find_budget /\ Cardinality(out) <= capacity
    /\ q \in Seq(Contact) /\ Len(q) = Cardinality(out)
    /\ \A n \in DOMAIN q : \E i \in out : q[n] = a[i]
    /\ \A i \in out : \E n \in DOMAIN q : q[n] = a[i]
    /\ \A m, n \in DOMAIN q : q[m] = q[n] => m = n

\* An answer's contacts are at different hosts, and so different.
LEMMA AnswersDiffer ==
    ASSUME NEW from \in Contact, NEW a \in Answers(from)
    PROVE  \E n \in Nat : /\ a \in [1 .. n -> Contact]
                          /\ \A i, j \in 1 .. n : a[i] = a[j] => i = j
<1>1. PICK n \in 0 .. MaxAnswer : a \in [1 .. n -> Contact]
  BY DEF Answers
<1>2. \A i, j \in DOMAIN a : i # j => Ip[a[i]] # Ip[a[j]]
  BY DEF Answers
<1>3. n \in Nat
  BY LookupAssumption
<1> QED
  BY <1>1, <1>2, <1>3

\* CSearch::on_response.
LEMMA DispatchIsTyped ==
    ASSUME TypeOK, NEW from \in Contact, NEW a \in Answers(from), NEW capacity \in Nat,
           NEW out, out = Dispatched(from, a, capacity),
           NEW q, q = [n \in 1 .. Cardinality(out) |-> a[InOrder(out)[n]]]
    PROVE  Dispatches(out, a, capacity, q)
<1>0. PICK n \in Nat : a \in [1 .. n -> Contact] /\ \A i, j \in 1 .. n : a[i] = a[j] => i = j
  BY AnswersDiffer
<1> DEFINE top == Top(from, a)
           room == Least(capacity, find_budget)
<1>1. find_budget \in Nat /\ room \in Nat /\ room <= find_budget /\ room <= capacity
  BY LookupAssumption DEF TypeOK, Least
<1>2. top \in SUBSET News(a) /\ News(a) \in SUBSET (1 .. n)
  BY <1>0 DEF Top, Closer, News
<1>3. top \in SUBSET (1 .. n) /\ top \in SUBSET Nat /\ IsFiniteSet(top)
  <2>1. IsFiniteSet(1 .. n)
    BY FS_Interval
  <2>2. top \in SUBSET (1 .. n) /\ top \in SUBSET Nat
    BY <1>2
  <2> HIDE DEF top
  <2> QED
    BY <2>1, <2>2, FS_Subset
<1>4. out = Closest(top, room)
  BY DEF Dispatched
<1> HIDE DEF top, room
<1>5. /\ out \in SUBSET top /\ IsFiniteSet(out) /\ Cardinality(out) \in Nat /\ Cardinality(out) <= room
  BY <1>1, <1>3, <1>4, ClosestAreFew
<1>6. out \in SUBSET Nat /\ out \in SUBSET (1 .. n)
  BY <1>3, <1>5
<1>7. /\ InOrder(out) \in [1 .. Cardinality(out) -> out]
      /\ \A c \in out : \E i \in 1 .. Cardinality(out) : InOrder(out)[i] = c
      /\ \A i, j \in 1 .. Cardinality(out) : InOrder(out)[i] = InOrder(out)[j] => i = j
  BY <1>5, <1>6, OrderIsComplete
<1> DEFINE m == Cardinality(out)
           o == InOrder(out)
<1>8. /\ o \in [1 .. m -> out] /\ \A c \in out : \E i \in 1 .. m : o[i] = c
      /\ \A i, j \in 1 .. m : o[i] = o[j] => i = j
      /\ m \in Nat /\ q = [k \in 1 .. m |-> a[o[k]]]
  BY <1>5, <1>7
<1> HIDE DEF m, o
<1>11. ASSUME NEW k \in 1 .. m PROVE o[k] \in out /\ o[k] \in 1 .. n /\ q[k] = a[o[k]]
  BY <1>6, <1>8
<1>9. q \in [1 .. m -> Contact]
  <2>1. ASSUME NEW k \in 1 .. m PROVE q[k] \in Contact
    BY <1>0, <1>11
  <2>2. q = [k \in 1 .. m |-> q[k]]
    BY <1>8
  <2> QED
    BY <2>1, <2>2
<1>10. q \in Seq(Contact) /\ Len(q) = m /\ DOMAIN q = 1 .. m
  BY <1>8, <1>9, SequenceOf
<1>12. ASSUME NEW k \in DOMAIN q, NEW l \in DOMAIN q, q[k] = q[l] PROVE k = l
  <2>1. k \in 1 .. m /\ l \in 1 .. m
    BY <1>10
  <2>2. a[o[k]] = a[o[l]] /\ o[k] \in 1 .. n /\ o[l] \in 1 .. n
    BY <1>11, <1>12, <2>1
  <2>3. o[k] = o[l]
    BY <1>0, <2>2
  <2> QED
    BY <1>8, <2>1, <2>3
<1>13. \A k \in DOMAIN q : \E i \in out : q[k] = a[i]
  BY <1>10, <1>11
<1>14. ASSUME NEW i \in out PROVE \E k \in DOMAIN q : q[k] = a[i]
  <2>1. PICK k \in 1 .. m : o[k] = i
    BY <1>8
  <2>2. q[k] = a[i] /\ k \in DOMAIN q
    BY <1>10, <1>11, <2>1
  <2> QED
    BY <2>2
<1>15. Cardinality(out) = m
  BY DEF m
<1>16. Cardinality(out) <= find_budget /\ Cardinality(out) <= capacity
  BY <1>1, <1>5
<1> QED
  BY <1>2, <1>5, <1>10, <1>12, <1>13, <1>14, <1>15, <1>16 DEF Dispatches

-----------------------------------------------------------------------------
(* What steps do to the requests that are out *)

Requests == Places /\ Numbers /\ Counts

\* A request moves on: sent, answered or expired, it keeps its number, its kind and
\* its contact.
Swapped(r, s) ==
    /\ r \in inflight /\ s \in Request
    /\ s.seq = r.seq /\ s.kind = r.kind /\ s.to = r.to
    /\ inflight' = (inflight \ {r}) \cup {s}

\* Among the slots a datagram may settle one came first.
LEMMA FirstIsOne ==
    ASSUME NEW S, S # {}, \A p \in S : p.seq \in Nat
    PROVE  First(S) \in S
<1>1. PICK n \in {p.seq : p \in S} : \A m \in {p.seq : p \in S} : n <= m
  <2>1. {p.seq : p \in S} \in SUBSET Nat /\ {p.seq : p \in S} # {}
    OBVIOUS
  <2> QED
    BY <2>1, LeastNat
<1>2. PICK p \in S : n = p.seq
  BY <1>1
<1>3. \A q \in S : p.seq <= q.seq
  BY <1>1, <1>2
<1> QED
  BY <1>3 DEF First

\* The read loop settles one slot, and moves on at most the one request it is of.
LEMMA DatagramDoes ==
    ASSUME TypeOK, Numbers, NEW c \in Contact, NEW k \in Kind, NEW e \in BOOLEAN, Datagram(c, k, e)
    PROVE  \E p \in pending :
              /\ pending' = pending \ {p}
              /\ \/ inflight' = inflight
                 \/ \E r, s : Swapped(r, s) /\ s.seq = p.seq /\ (r \in Tasks <=> s.st \notin {"sending", "early"})
<1> DEFINE p == Match(c, k, e)
           Hear(r) == IF r.seq # p.seq THEN r
                      ELSE [r EXCEPT !.st = IF @ = "sending" THEN "early"
                                            ELSE IF @ = "waiting" THEN "answered" ELSE @]
<1>1. p \in pending
  <2>1. Exact(c, k) \in SUBSET pending /\ SameHost(c, k) \in SUBSET pending /\ SameHost(c, k) # {}
    BY DEF Exact, SameHost, Datagram
  <2>2. \A q \in pending : q.seq \in Nat
    BY DEF TypeOK, Slot
  <2>3. CASE e /\ Exact(c, k) # {}
    <3>1. First(Exact(c, k)) \in Exact(c, k)
      BY <2>1, <2>2, <2>3, FirstIsOne
    <3> QED
      BY <2>1, <2>3, <3>1 DEF Match
  <2>4. CASE ~(e /\ Exact(c, k) # {})
    <3>1. First(SameHost(c, k)) \in SameHost(c, k)
      BY <2>1, <2>2, FirstIsOne
    <3> QED
      BY <2>1, <2>4, <3>1 DEF Match
  <2> QED
    BY <2>3, <2>4
<1>2. pending' = pending \ {p} /\ inflight' = {Hear(r) : r \in inflight}
  BY DEF Datagram
<1>3. ASSUME NEW r \in inflight, r.seq = p.seq
      PROVE  /\ Swapped(r, Hear(r)) /\ Hear(r).seq = p.seq
             /\ r \in Tasks <=> Hear(r).st \notin {"sending", "early"}
  <2> DEFINE s == Hear(r)
  <2>1. r \in Request /\ s = [r EXCEPT !.st = IF r.st = "sending" THEN "early"
                                              ELSE IF r.st = "waiting" THEN "answered" ELSE r.st]
    BY <1>3 DEF TypeOK
  <2>2. inflight' = (inflight \ {r}) \cup {s}
    <3>1. \A q \in inflight \ {r} : q.seq # p.seq
      BY <1>3 DEF Numbers
    <3> HIDE DEF p
    <3>2. \A q \in inflight \ {r} : Hear(q) = q
      BY <3>1
    <3> HIDE DEF Hear
    <3> QED
      BY <1>2, <3>2
  <2> HIDE DEF s
  <2>3. s \in Request /\ s.seq = r.seq /\ s.kind = r.kind /\ s.to = r.to
    BY <2>1 DEF Request
  <2>4. r \in Tasks <=> s.st \notin {"sending", "early"}
    <3>1. r.st \in {"sending", "early"} <=> s.st \in {"sending", "early"}
      BY <2>1 DEF Request
    <3> QED
      BY <3>1 DEF Tasks
  <2>5. Swapped(r, s) /\ s.seq = p.seq
    BY <1>3, <2>2, <2>3 DEF Swapped
  <2> QED
    BY <2>4, <2>5 DEF s
<1>4. CASE \E r \in inflight : r.seq = p.seq
  <2>1. PICK r \in inflight : r.seq = p.seq
    BY <1>4
  <2>2. PICK s : s = Hear(r)
    OBVIOUS
  <2>3. Swapped(r, s) /\ s.seq = p.seq /\ (r \in Tasks <=> s.st \notin {"sending", "early"})
    BY <1>3, <2>1, <2>2
  <2> HIDE DEF p, Hear
  <2> QED
    BY <1>1, <1>2, <2>3
<1>5. CASE ~(\E r \in inflight : r.seq = p.seq)
  <2>1. \A r \in inflight : Hear(r) = r
    BY <1>5
  <2>2. inflight' = inflight
    <3> HIDE DEF Hear
    <3> QED
      BY <1>2, <2>1
  <2> QED
    BY <1>1, <1>2, <2>2
<1> QED
  BY <1>4, <1>5

\* Sent and Expire are such moves too.
LEMMA SentDoes ==
    ASSUME TypeOK, NEW r \in inflight, Sent(r)
    PROVE  \E s : /\ Swapped(r, s) /\ r \notin Tasks /\ s.st \in {"waiting", "answered"}
                  /\ s.st = "answered" => r.st = "early"
<1> DEFINE s == [r EXCEPT !.st = IF r.st = "sending" THEN "waiting" ELSE "answered"]
<1>1. r \in Request /\ r.st \in {"sending", "early"} /\ inflight' = (inflight \ {r}) \cup {s}
  BY DEF TypeOK, Sent
<1>2. /\ s \in Request /\ s.seq = r.seq /\ s.kind = r.kind /\ s.to = r.to
      /\ s.st = IF r.st = "sending" THEN "waiting" ELSE "answered"
  BY <1>1 DEF Request
<1> HIDE DEF s
<1>3. Swapped(r, s)
  BY <1>1, <1>2 DEF Swapped
<1>4. r \notin Tasks
  BY <1>1 DEF Tasks
<1> QED
  BY <1>1, <1>2, <1>3, <1>4

\* The deadline.
LEMMA ExpireDoes ==
    ASSUME TypeOK, NEW r \in inflight, Expire(r)
    PROVE  \E s : Swapped(r, s) /\ r \in Tasks /\ s.st = "expired"
<1> DEFINE s == [r EXCEPT !.st = "expired"]
<1>1. r \in Request /\ r.st = "waiting" /\ inflight' = (inflight \ {r}) \cup {s}
  BY DEF TypeOK, Expire
<1>2. s \in Request /\ s.seq = r.seq /\ s.kind = r.kind /\ s.to = r.to /\ s.st = "expired"
  BY <1>1 DEF Request
<1> HIDE DEF s
<1>3. Swapped(r, s)
  BY <1>1, <1>2 DEF Swapped
<1>4. r \in Tasks
  BY <1>1 DEF Tasks
<1> QED
  BY <1>2, <1>3, <1>4

\* A finite set of requests with one of them moved on, or removed.
LEMMA CountSwap ==
    ASSUME NEW S, IsFiniteSet(S), NEW x \in S, NEW y, y \notin S \ {x}
    PROVE  IsFiniteSet((S \ {x}) \cup {y}) /\ Cardinality((S \ {x}) \cup {y}) = Cardinality(S)
<1>1. IsFiniteSet(S \ {x}) /\ Cardinality(S \ {x}) = Cardinality(S) - 1
  BY FS_RemoveElement
<1>2. PICK T : T = S \ {x}
  OBVIOUS
<1>3. IsFiniteSet(T \cup {y}) /\ Cardinality(T \cup {y}) = Cardinality(T) + 1
  BY <1>1, <1>2, FS_AddElement
<1>4. Cardinality(S) \in Nat
  BY FS_CardinalityType
<1> QED
  BY <1>1, <1>2, <1>3, <1>4

\* A subset is no larger.
LEMMA CountSubset ==
    ASSUME NEW S, IsFiniteSet(S), NEW T \in SUBSET S
    PROVE  /\ IsFiniteSet(T) /\ Cardinality(T) \in Nat /\ Cardinality(S) \in Nat
           /\ Cardinality(T) <= Cardinality(S)
  BY FS_Subset, FS_CardinalityType

\* With nothing being sent, a request cannot be in the wrong place.
LEMMA PlacesQuiet ==
    ASSUME NoSend', phase' # "idle", phase' \in {"top", "select"} => queue' = <<>>
    PROVE  Places'
<1>1. (inflight \ Tasks)' = {}
  BY DEF NoSend, Tasks
<1> QED
  BY <1>1 DEF Places

\* A request moves on while the driver stays where it is.
LEMMA PlacesSwap ==
    ASSUME Places, NEW r, NEW s, Swapped(r, s), r \in Tasks => s.st \notin {"sending", "early"},
           phase' = phase, queue' = queue
    PROVE  Places'
<1>1. inflight # {} /\ phase # "idle"
  BY DEF Places, Swapped
<1>2. \A q \in (inflight \ Tasks)' : \/ q \in inflight \ Tasks /\ q # r
                                     \/ q = s /\ r \in inflight \ Tasks
  BY DEF Tasks, Swapped
<1>3. NoSend <=> inflight \ Tasks = {}
  BY DEF NoSend, Tasks
<1>4. NoSend' <=> (inflight \ Tasks)' = {}
  BY DEF NoSend, Tasks
<1>5. \A q \in (inflight \ Tasks)' : q.kind = SendKind'
  BY <1>2 DEF Places, Swapped, SendKind
<1>6. \A q, t \in (inflight \ Tasks)' : q = t
  BY <1>2 DEF Places
<1>7. NoSend => NoSend'
  BY <1>2, <1>3, <1>4
<1> QED
  BY <1>1, <1>5, <1>6, <1>7 DEF Places

\* Numbers when no request is added: a request that goes takes its slot along.
LEMMA NumbersKept ==
    ASSUME Numbers, TypeOK, guard' = guard, pending' \subseteq pending, panics'.total = panics.total,
           IsFiniteSet(inflight'),
           Seqs(inflight') \subseteq Seqs(inflight),
           \A p \in pending' : p.seq \in Seqs(inflight) => p.seq \in Seqs(inflight'),
           \A r, s \in inflight' : r.seq = s.seq => r = s,
           \A r \in inflight' : r.st \in {"early", "answered"} => r.seq \notin PendingSeqs'
    PROVE  Numbers'
<1> DEFINE loose == PendingSeqs \ Seqs(inflight)
<1>1. PendingSeqs' \in SUBSET PendingSeqs /\ loose' \in SUBSET loose
  <2>1. PendingSeqs' \in SUBSET PendingSeqs
    BY DEF PendingSeqs
  <2>2. ASSUME NEW n \in loose' PROVE n \in loose
    <3>1. PICK p \in pending' : n = p.seq /\ p.seq \notin Seqs(inflight')
      BY DEF PendingSeqs, Seqs
    <3> HIDE DEF Seqs
    <3> QED
      BY <2>1, <3>1
  <2> QED
    BY <2>1, <2>2
<1>2. IsFiniteSet(loose)
  BY FS_Subset DEF Numbers
<1>3. Cardinality(loose') <= Cardinality(loose) /\ Cardinality(loose) \in Nat /\ Cardinality(loose') \in Nat
  <2> HIDE DEF loose
  <2> QED
    BY <1>1, <1>2, CountSubset
<1>4. Cardinality(loose) <= panics.total /\ panics.total \in Nat
  BY LookupAssumption DEF Numbers, TypeOK
<1>5. Cardinality(loose') <= panics'.total
  <2> HIDE DEF loose
  <2> QED
    BY <1>3, <1>4
<1>6. \A p, q \in pending' : p.seq = q.seq => p = q
  BY DEF Numbers
<1>7. Seqs(inflight') \subseteq guard' /\ PendingSeqs' \subseteq guard'
  BY <1>1 DEF Numbers
<1>8. IsFiniteSet(guard') /\ guard' = 1 .. Cardinality(guard')
  BY DEF Numbers
<1> HIDE DEF Seqs, PendingSeqs
<1> QED
  BY <1>5, <1>6, <1>7, <1>8 DEF Numbers, Seqs

\* Numbers when a request moves on.
LEMMA NumbersSwap ==
    ASSUME Numbers, TypeOK, NEW r, NEW s, Swapped(r, s), guard' = guard, pending' \subseteq pending,
           panics' = panics, s.st \in {"early", "answered"} => s.seq \notin PendingSeqs'
    PROVE  Numbers'
<1>1. Seqs(inflight') = Seqs(inflight)
  BY DEF Seqs, Swapped
<1>2. IsFiniteSet(inflight')
  <2>1. IsFiniteSet(inflight) /\ r \in inflight
    BY DEF Numbers, Swapped
  <2>2. IsFiniteSet(inflight \ {r})
    BY <2>1, FS_Subset
  <2> QED
    BY <2>2, FS_AddElement DEF Swapped
<1>3. \A q, t \in inflight' : q.seq = t.seq => q = t
  BY DEF Numbers, Swapped
<1>4. PendingSeqs' \in SUBSET PendingSeqs
  BY DEF PendingSeqs
<1>5. \A q \in inflight' : q.st \in {"early", "answered"} => q.seq \notin PendingSeqs'
  BY <1>4 DEF Numbers, Swapped
<1> QED
  BY <1>1, <1>2, <1>3, <1>5, NumbersKept

\* Numbers when a request ends.
LEMMA NumbersRemove ==
    ASSUME Numbers, TypeOK, NEW r \in inflight, inflight' = inflight \ {r}, guard' = guard,
           pending' \subseteq pending, panics' = panics, r.seq \notin PendingSeqs'
    PROVE  Numbers'
<1>1. IsFiniteSet(inflight')
  BY FS_Subset DEF Numbers
<1>2. Seqs(inflight') \subseteq Seqs(inflight)
  BY DEF Seqs
<1>3. ASSUME NEW p \in pending', p.seq \in Seqs(inflight) PROVE p.seq \in Seqs(inflight')
  <2>1. PICK q \in inflight : q.seq = p.seq
    BY <1>3 DEF Seqs
  <2>2. q # r
    BY <2>1 DEF PendingSeqs
  <2> QED
    BY <2>1, <2>2 DEF Seqs
<1>4. PendingSeqs' \in SUBSET PendingSeqs
  BY DEF PendingSeqs
<1>5. \A q \in inflight' : q.st \in {"early", "answered"} => q.seq \notin PendingSeqs'
  BY <1>4 DEF Numbers
<1>6. \A q, t \in inflight' : q.seq = t.seq => q = t
  BY DEF Numbers
<1> QED
  BY <1>1, <1>2, <1>3, <1>5, <1>6, NumbersKept

\* Numbers when a task panics: its slot stays behind.
LEMMA NumbersPanic ==
    ASSUME Numbers, TypeOK, NEW r \in inflight, JoinPanicked(r)
    PROVE  Numbers'
<1> DEFINE loose == PendingSeqs \ Seqs(inflight)
<1>1. inflight' = inflight \ {r} /\ guard' = guard /\ pending' = pending /\ panics'.total = panics.total + 1
  BY DEF JoinPanicked
<1>2. IsFiniteSet(inflight')
  BY <1>1, FS_Subset DEF Numbers
<1>3. PendingSeqs' = PendingSeqs /\ Seqs(inflight') \in SUBSET Seqs(inflight)
  BY <1>1 DEF PendingSeqs, Seqs
<1>4. loose' \in SUBSET (loose \cup {r.seq})
  <2>1. \A q \in inflight : q # r => q.seq \in Seqs(inflight')
    BY <1>1 DEF Seqs
  <2>2. Seqs(inflight) \in SUBSET (Seqs(inflight') \cup {r.seq})
    BY <2>1 DEF Seqs
  <2> HIDE DEF Seqs, PendingSeqs
  <2> QED
    BY <1>3, <2>2
<1>5. IsFiniteSet(loose) /\ Cardinality(loose) \in Nat
  BY FS_Subset, FS_CardinalityType DEF Numbers
<1>6. Cardinality(loose) <= panics.total /\ panics.total \in Nat
  BY LookupAssumption DEF Numbers, TypeOK
<1> HIDE DEF loose
<1>7. /\ IsFiniteSet(loose \cup {r.seq})
      /\ Cardinality(loose \cup {r.seq}) = Cardinality(loose) \/ Cardinality(loose \cup {r.seq}) = Cardinality(loose) + 1
  BY <1>5, FS_AddElement
<1>8. Cardinality(loose') <= Cardinality(loose \cup {r.seq}) /\ Cardinality(loose') \in Nat
  BY <1>4, <1>7, CountSubset
<1>9. Cardinality(loose') <= panics'.total
  BY <1>1, <1>5, <1>6, <1>7, <1>8
<1>10. Cardinality(PendingSeqs' \ Seqs(inflight')) <= panics'.total
  BY <1>9 DEF loose
<1>11. /\ IsFiniteSet(guard') /\ guard' = 1 .. Cardinality(guard')
       /\ Seqs(inflight') \subseteq guard' /\ PendingSeqs' \subseteq guard'
  BY <1>1, <1>3 DEF Numbers
<1>12. /\ \A q, t \in inflight' : q.seq = t.seq => q = t
       /\ \A p, q \in pending' : p.seq = q.seq => p = q
       /\ \A q \in inflight' : q.st \in {"early", "answered"} => q.seq \notin PendingSeqs'
  BY <1>1, <1>3 DEF Numbers
<1> HIDE DEF Seqs, PendingSeqs
<1> QED
  BY <1>2, <1>10, <1>11, <1>12 DEF Numbers, Seqs

\* Numbers when a request begins: the next one is new to the guard, and so to all.
LEMMA NumbersBegin ==
    ASSUME Numbers, TypeOK, BeginRequest
    PROVE  Numbers'
<1>1. PICK n : n = FreshSeq
  OBVIOUS
<1>2. PICK p : p = [seq |-> n, kind |-> SendKind, to |-> Head(queue)]
  OBVIOUS
<1>3. PICK s : s = [seq |-> n, kind |-> SendKind, to |-> Head(queue), st |-> "sending"]
  OBVIOUS
<1>4. /\ pending' = pending \cup {p} /\ guard' = guard \cup {n} /\ inflight' = inflight \cup {s}
      /\ panics' = panics
  BY <1>1, <1>2, <1>3 DEF BeginRequest, historyVars
<1>5. p.seq = n /\ s.seq = n /\ s.st = "sending"
  BY <1>2, <1>3
<1>6. PICK g : g = Cardinality(guard)
  OBVIOUS
<1>7. g \in Nat /\ guard = 1 .. g /\ n = g + 1 /\ IsFiniteSet(guard)
  BY <1>1, <1>6, FS_CardinalityType DEF Numbers, FreshSeq
<1>8. n \notin guard
  BY <1>7
<1>9. IsFiniteSet(guard') /\ Cardinality(guard') = g + 1
  BY <1>4, <1>6, <1>7, <1>8, FS_AddElement
<1>10. guard' = 1 .. Cardinality(guard')
  BY <1>4, <1>7, <1>9
<1>11. IsFiniteSet(inflight')
  BY <1>4, FS_AddElement DEF Numbers
<1>12. Seqs(inflight') = Seqs(inflight) \cup {n} /\ PendingSeqs' = PendingSeqs \cup {n}
  BY <1>4, <1>5 DEF Seqs, PendingSeqs
<1>13. n \notin Seqs(inflight) /\ n \notin PendingSeqs
  BY <1>8 DEF Numbers
<1>14. (\A q \in inflight : q.seq # n) /\ (\A q \in pending : q.seq # n)
  BY <1>13 DEF Seqs, PendingSeqs
<1>15. /\ Seqs(inflight') \subseteq guard' /\ PendingSeqs' \subseteq guard'
  BY <1>4, <1>12 DEF Numbers
<1>16. \A q, t \in inflight' : q.seq = t.seq => q = t
  BY <1>4, <1>5, <1>14 DEF Numbers
<1>17. \A q, t \in pending' : q.seq = t.seq => q = t
  BY <1>4, <1>5, <1>14 DEF Numbers
<1>18. \A q \in inflight' : q.st \in {"early", "answered"} => q.seq \notin PendingSeqs'
  BY <1>4, <1>5, <1>12, <1>14 DEF Numbers
<1>19. PendingSeqs' \ Seqs(inflight') = PendingSeqs \ Seqs(inflight)
  BY <1>12, <1>13
<1>20. Cardinality(PendingSeqs' \ Seqs(inflight')) <= panics'.total
  BY <1>4, <1>19 DEF Numbers
<1> HIDE DEF Seqs, PendingSeqs
<1> QED
  BY <1>9, <1>10, <1>11, <1>15, <1>16, <1>17, <1>18, <1>20 DEF Numbers, Seqs

\* What the guard drops is all there is.
LEMMA DropLeavesNothing ==
    ASSUME Numbers, TypeOK, DropLookup, panics' = panics
    PROVE  /\ phase' = "idle" /\ inflight' = {} /\ guard' = {} /\ pending' = {} /\ queue' = <<>>
           /\ Places' /\ Numbers'
<1>1. phase' = "idle" /\ inflight' = {} /\ guard' = {} /\ queue' = <<>> /\ pending' = Without(pending, guard)
  BY DEF DropLookup
<1>2. \A p \in pending : p.seq \in guard
  BY DEF Numbers, PendingSeqs
<1>3. pending' = {}
  BY <1>1, <1>2 DEF Without
<1>4. Places'
  BY <1>1, <1>3 DEF Places, NoSend
<1>5. Seqs(inflight') = {} /\ PendingSeqs' = {} /\ PendingSeqs' \ Seqs(inflight') = {}
  BY <1>1, <1>3 DEF Seqs, PendingSeqs
<1>6. IsFiniteSet({}) /\ Cardinality({}) = 0
  BY FS_EmptySet
<1>7. guard' = 1 .. Cardinality(guard')
  <2>1. 1 .. 0 = {}
    OBVIOUS
  <2> QED
    BY <1>1, <1>6, <2>1
<1>8. Cardinality(PendingSeqs' \ Seqs(inflight')) <= panics'.total
  <2>1. panics'.total \in Nat
    BY LookupAssumption DEF TypeOK
  <2> QED
    BY <1>5, <1>6, <2>1
<1> HIDE DEF Seqs, PendingSeqs
<1>9. Numbers'
  BY <1>1, <1>3, <1>5, <1>6, <1>7, <1>8 DEF Numbers, Seqs
<1> QED
  BY <1>1, <1>3, <1>4, <1>9

\* How many FIND_NODEs are out.
LEMMA FindTasksAre ==
    ASSUME Numbers
    PROVE  IsFiniteSet(FindTasks) /\ Cardinality(FindTasks) \in Nat
<1>1. FindTasks \in SUBSET inflight
  BY DEF FindTasks, Tasks
<1> QED
  BY <1>1, CountSubset DEF Numbers

\* A FIND_NODE joins them, moves on among them, or leaves them.
LEMMA FindTasksSwap ==
    ASSUME Numbers, NEW r, NEW s, Swapped(r, s)
    PROVE  /\ (r \in Tasks <=> s.st \notin {"sending", "early"}) => Cardinality(FindTasks') = Cardinality(FindTasks)
           /\ r \notin Tasks /\ s.st \notin {"sending", "early"} =>
                 Cardinality(FindTasks') = IF r.kind = "find" THEN Cardinality(FindTasks) + 1
                                           ELSE Cardinality(FindTasks)
<1>1. IsFiniteSet(FindTasks) /\ Cardinality(FindTasks) \in Nat
  BY FindTasksAre
<1>2. r \in inflight /\ s.seq = r.seq /\ s.kind = r.kind /\ inflight' = (inflight \ {r}) \cup {s}
  BY DEF Swapped
<1>3. s \notin FindTasks \ {r}
  <2>1. \A q \in inflight \ {r} : q.seq # r.seq
    BY <1>2 DEF Numbers
  <2> QED
    BY <1>2, <2>1 DEF FindTasks, Tasks
<1>4. CASE r \in FindTasks /\ s.st \notin {"sending", "early"}
  <2>1. FindTasks' = (FindTasks \ {r}) \cup {s}
    BY <1>2, <1>4 DEF FindTasks, Tasks
  <2>2. r \in Tasks
    BY <1>4 DEF FindTasks
  <2> HIDE DEF FindTasks, Tasks
  <2> QED
    BY <1>1, <1>3, <1>4, <2>1, <2>2, CountSwap
<1>5. CASE r \notin Tasks /\ s.st \notin {"sending", "early"} /\ r.kind = "find"
  <2>1. FindTasks' = FindTasks \cup {s} /\ s \notin FindTasks
    BY <1>2, <1>3, <1>5 DEF FindTasks, Tasks
  <2> HIDE DEF FindTasks, Tasks
  <2> QED
    BY <1>1, <1>5, <2>1, FS_AddElement
<1>6. CASE r.kind # "find" \/ (r \notin Tasks /\ s.st \in {"sending", "early"})
  <2>1. FindTasks' = FindTasks
    BY <1>2, <1>6 DEF FindTasks, Tasks
  <2> HIDE DEF FindTasks, Tasks
  <2> QED
    BY <1>6, <2>1
<1>7. CASE r \in Tasks /\ s.st \in {"sending", "early"}
  BY <1>7
<1>8. r \in Tasks /\ r.kind = "find" => r \in FindTasks
  BY DEF FindTasks
<1> QED
  BY <1>4, <1>5, <1>6, <1>7, <1>8

\* A request ends.
LEMMA FindTasksRemove ==
    ASSUME Numbers, NEW r \in inflight, inflight' = inflight \ {r}
    PROVE  /\ r \in FindTasks => Cardinality(FindTasks') = Cardinality(FindTasks) - 1 /\ Cardinality(FindTasks) > 0
           /\ r \notin FindTasks => Cardinality(FindTasks') = Cardinality(FindTasks)
<1>1. IsFiniteSet(FindTasks) /\ Cardinality(FindTasks) \in Nat
  BY FindTasksAre
<1>2. FindTasks' = FindTasks \ {r}
  BY DEF FindTasks, Tasks
<1> HIDE DEF FindTasks
<1>3. r \in FindTasks => Cardinality(FindTasks \ {r}) = Cardinality(FindTasks) - 1
  BY <1>1, FS_RemoveElement
<1>4. r \in FindTasks => Cardinality(FindTasks) > 0
  <2>1. FindTasks # {} => Cardinality(FindTasks) # 0
    BY <1>1, FS_EmptySet
  <2> QED
    BY <1>1, <2>1
<1>5. r \notin FindTasks => FindTasks \ {r} = FindTasks
  OBVIOUS
<1> QED
  BY <1>2, <1>3, <1>4, <1>5

\* The counts stay right when what is out does not change in number.
LEMMA CountsSame ==
    ASSUME Counts, TypeOK, Numbers, phase # "idle",
           Cardinality(FindTasks') = Cardinality(FindTasks),
           finds_inflight' = finds_inflight, panics' = panics,
           phase' \in {"finds", "jump"} => phase' = phase /\ queue' = queue /\ (NoSend => NoSend')
    PROVE  Counts'
<1>1. /\ finds_inflight' <= Alpha
      /\ finds_inflight' <= Cardinality(FindTasks')
      /\ Cardinality(FindTasks') <= finds_inflight' + panics'.total
  BY DEF Counts
<1>2. ASSUME phase' \in {"finds", "jump"}
      PROVE  (finds_inflight + Len(queue) + (IF NoSend THEN 0 ELSE 1))' <= Alpha
  <2>1. finds_inflight + Len(queue) + (IF NoSend THEN 0 ELSE 1) <= Alpha
    BY <1>2 DEF Counts
  <2>2. finds_inflight' = finds_inflight /\ queue' = queue /\ (NoSend => NoSend')
    BY <1>2
  <2>3. finds_inflight \in Nat /\ Len(queue) \in Nat /\ Alpha \in Nat
    BY LookupAssumption DEF TypeOK
  <2> HIDE DEF NoSend
  <2>4. CASE NoSend'
    <3>1. finds_inflight + Len(queue) <= Alpha
      BY <2>1, <2>3
    <3> QED
      BY <2>2, <2>3, <2>4, <3>1
  <2>5. CASE ~NoSend'
    <3>1. ~NoSend
      BY <2>2, <2>5
    <3> QED
      BY <2>1, <2>2, <2>3, <2>5, <3>1
  <2> QED
    BY <2>4, <2>5
<1> QED
  BY <1>1, <1>2 DEF Counts

\* A FIND_NODE that is done frees its place.
LEMMA CountsDone ==
    ASSUME Counts, TypeOK, TypeOK', Numbers, phase # "idle", NEW r \in inflight, r \in FindTasks,
           inflight' = inflight \ {r}, finds_inflight' = Minus(finds_inflight, 1), panics' = panics,
           phase' \in {"finds", "jump"} => NoSend' /\ finds_inflight' + Len(queue') <= Alpha
    PROVE  Counts'
<1>1. Cardinality(FindTasks') = Cardinality(FindTasks) - 1 /\ Cardinality(FindTasks) > 0
  BY FindTasksRemove
<1>2. finds_inflight \in Nat /\ Cardinality(FindTasks) \in Nat /\ Alpha \in Nat /\ panics.total \in Nat
  BY FindTasksAre, LookupAssumption DEF TypeOK
<1>3. /\ finds_inflight <= Alpha /\ finds_inflight <= Cardinality(FindTasks)
      /\ Cardinality(FindTasks) <= finds_inflight + panics.total
  BY DEF Counts
<1>4. /\ finds_inflight' <= Alpha /\ finds_inflight' <= Cardinality(FindTasks')
      /\ Cardinality(FindTasks') <= finds_inflight' + panics'.total
  BY <1>1, <1>2, <1>3 DEF Minus
<1>5. phase' \in {"finds", "jump"} =>
        (finds_inflight + Len(queue) + (IF NoSend THEN 0 ELSE 1))' <= Alpha
  <2>1. SUFFICES ASSUME phase' \in {"finds", "jump"}
                 PROVE  finds_inflight' + Len(queue') + (IF NoSend' THEN 0 ELSE 1) <= Alpha
    OBVIOUS
  <2>2. NoSend' /\ finds_inflight' + Len(queue') <= Alpha
    BY <2>1
  <2>3. finds_inflight' + Len(queue') + 0 <= Alpha
    <3>1. finds_inflight' \in Nat /\ Len(queue') \in Nat
      BY DEF TypeOK
    <3> QED
      BY <2>2, <3>1
  <2> QED
    BY <2>2, <2>3
<1> QED
  BY <1>4, <1>5 DEF Counts

-----------------------------------------------------------------------------
(* Types *)

\* What a request that moves on, is withdrawn or is dropped leaves is typed.
SearchTyped ==
    /\ possible \subseteq Contact /\ tried \subseteq Contact
    /\ responded \subseteq Contact /\ failed \subseteq Contact /\ best \subseteq Contact
    /\ find_budget \in 0 .. FindBudget /\ value_budget \in 0 .. ValueBudget
DriverTyped ==
    /\ phase \in {"idle", "top", "asks", "finds", "jump", "select"}
    /\ refresh \in BOOLEAN
    /\ queue \in Seq(Contact)
    /\ finds_inflight \in Nat /\ results \in 0 .. Stop
RequestsTyped ==
    /\ inflight \subseteq Request /\ guard \subseteq Nat
    /\ pending \subseteq Slot
HistoryTyped ==
    /\ sent \in [Kind \X Contact -> Nat]
    /\ unsent \in BOOLEAN /\ exhausted \in BOOLEAN
    /\ panics \in [finds: SUBSET Contact, total: 0 .. MaxPanics]

\* TypeOK in parts.
LEMMA TypesAre == TypeOK <=> SearchTyped /\ DriverTyped /\ RequestsTyped /\ HistoryTyped
  BY DEF TypeOK, SearchTyped, DriverTyped, RequestsTyped, HistoryTyped

\* Its parts in the next state.
LEMMA TypesNext == TypeOK' <=> SearchTyped' /\ DriverTyped' /\ RequestsTyped' /\ HistoryTyped'
  BY DEF TypeOK, SearchTyped, DriverTyped, RequestsTyped, HistoryTyped

\* Requests and slots.
LEMMA RequestsTypedStep ==
    ASSUME TypeOK, Numbers, [Next]_vars
    PROVE  RequestsTyped'
<1>0. inflight \subseteq Request /\ guard \subseteq Nat /\ pending \subseteq Slot
  BY DEF TypeOK
<1>1. ASSUME inflight' \subseteq Request, guard' = guard \/ guard' = {}, pending' \subseteq pending
      PROVE  RequestsTyped'
  BY <1>0, <1>1 DEF RequestsTyped
<1>2. ASSUME BeginRequest PROVE RequestsTyped'
  <2>1. FreshSeq \in Nat
    BY FS_CardinalityType DEF Numbers, FreshSeq
  <2>2. SendKind \in Kind /\ Head(queue) \in Contact
    <3>1. queue \in Seq(Contact) /\ queue # <<>>
      BY <1>2 DEF TypeOK, BeginRequest
    <3> QED
      BY <3>1 DEF SendKind, Kind
  <2>3. PICK n : n = FreshSeq
    OBVIOUS
  <2>4. PICK p : p = [seq |-> n, kind |-> SendKind, to |-> Head(queue)]
    OBVIOUS
  <2>5. PICK s : s = [seq |-> n, kind |-> SendKind, to |-> Head(queue), st |-> "sending"]
    OBVIOUS
  <2>6. pending' = pending \cup {p} /\ guard' = guard \cup {n} /\ inflight' = inflight \cup {s}
    BY <1>2, <2>3, <2>4, <2>5 DEF BeginRequest
  <2>7. p \in Slot
    BY <2>1, <2>2, <2>3, <2>4 DEF Slot
  <2>8. s \in Request
    BY <2>1, <2>2, <2>3, <2>5 DEF Request
  <2>9. n \in Nat
    BY <2>1, <2>3
  <2> QED
    BY <1>0, <2>6, <2>7, <2>8, <2>9 DEF RequestsTyped
<1>3. ASSUME NEW r, NEW s, Swapped(r, s) PROVE inflight' \subseteq Request
  BY <1>0, <1>3 DEF Swapped
<1>4. ASSUME NEW r \in inflight, Sent(r) PROVE RequestsTyped'
  <2>1. guard' = guard /\ pending' = pending
    BY <1>4 DEF Sent
  <2> QED
    BY <1>1, <1>3, <1>4, <2>1, SentDoes
<1>5. ASSUME NEW r \in inflight, Expire(r) PROVE RequestsTyped'
  <2>1. guard' = guard /\ pending' = pending
    BY <1>5 DEF Expire
  <2> QED
    BY <1>1, <1>3, <1>5, <2>1, ExpireDoes
<1>6. ASSUME NEW c \in Contact, NEW k \in Kind, NEW e \in BOOLEAN, Datagram(c, k, e) PROVE RequestsTyped'
  <2>1. guard' = guard
    BY <1>6 DEF Datagram
  <2>2. PICK p \in pending :
              /\ pending' = pending \ {p}
              /\ \/ inflight' = inflight
                 \/ \E r, s : Swapped(r, s) /\ s.seq = p.seq /\ (r \in Tasks <=> s.st \notin {"sending", "early"})
    BY <1>6, DatagramDoes
  <2>3. inflight' \subseteq Request
    BY <1>0, <1>3, <2>2
  <2> QED
    BY <1>1, <2>1, <2>2, <2>3
<1>7. ASSUME DropLookup PROVE RequestsTyped'
  BY <1>7, <1>1 DEF DropLookup, Without
<1>8. ASSUME inflight' \subseteq inflight, guard' = guard, pending' \subseteq pending PROVE RequestsTyped'
  BY <1>0, <1>1, <1>8
<1>9. CASE Harvest \/ Refill \/ Wait \/ Jumped \/ Tick \/ UNCHANGED vars
  BY <1>8, <1>9 DEF Harvest, Refill, Wait, Jumped, Tick, vars
<1>10. ASSUME NEW seeds, NEW b, Start(seeds, b) PROVE RequestsTyped'
  BY <1>8, <1>10 DEF Start
<1>11. ASSUME NEW r \in inflight, SendFailed(r) \/ JoinExpired(r) \/ JoinUnusable(r) \/ JoinPanicked(r)
       PROVE  RequestsTyped'
  BY <1>8, <1>11 DEF SendFailed, JoinExpired, JoinUnusable, JoinPanicked, Without
<1>12. ASSUME NEW r \in inflight, NEW n, JoinValue(r, n) PROVE RequestsTyped'
  BY <1>8, <1>12 DEF JoinValue
<1>13. ASSUME NEW r \in inflight, NEW a, JoinFound(r, a) PROVE RequestsTyped'
  BY <1>8, <1>13 DEF JoinFound
<1>14. CASE EndWithEnough \/ EndExhausted \/ Cancel
  BY <1>7, <1>14 DEF EndWithEnough, EndExhausted, Cancel
<1> HIDE DEF RequestsTyped
<1> QED
  BY <1>2, <1>4, <1>5, <1>6, <1>9, <1>10, <1>11, <1>12, <1>13, <1>14
     DEF Next, Driver, Join, JoinAnswered, ReadLoop

\* What a budget pays for.
LEMMA BudgetFits ==
    ASSUME NEW b \in Nat, NEW total \in Nat, b <= total, NEW n \in Nat, n <= b
    PROVE  b - n \in 0 .. total
  OBVIOUS

\* The walk and the driver, but for an answer.
LEMMA PassTyped ==
    ASSUME TypeOK, Numbers, Harvest \/ Refill
    PROVE  SearchTyped' /\ DriverTyped'
<1>1. CASE Harvest
  <2>1. /\ Harvested \in SUBSET Contact /\ Cardinality(Harvested) \in Nat
        /\ Cardinality(Harvested) <= value_budget
    BY HarvestIsTyped
  <2>2. value_budget - Cardinality(Harvested) \in 0 .. ValueBudget
    <3>1. value_budget \in Nat /\ ValueBudget \in Nat /\ value_budget <= ValueBudget
      BY LookupAssumption DEF TypeOK
    <3> QED
      BY <2>1, <3>1, BudgetFits
  <2>3. InOrder(Harvested) \in Seq(Contact)
    BY <2>1, OrderIsTyped
  <2>4. /\ possible' = possible \ Consumed /\ value_budget' = value_budget - Cardinality(Harvested)
        /\ queue' = InOrder(Harvested) /\ phase' = "asks"
        /\ UNCHANGED <<tried, responded, failed, best, find_budget, refresh, finds_inflight, results>>
    BY <1>1 DEF Harvest
  <2> HIDE DEF Consumed, Harvested, InOrder
  <2>5. SearchTyped'
    BY <2>2, <2>4 DEF TypeOK, SearchTyped
  <2>6. DriverTyped'
    BY <2>3, <2>4 DEF TypeOK, DriverTyped
  <2> QED
    BY <2>5, <2>6
<1>2. CASE Refill
  <2>0. Minus(Alpha, finds_inflight) \in Nat
    BY LookupAssumption DEF TypeOK, Minus
  <2>1. PICK out : out = Refillable(Minus(Alpha, finds_inflight))
    OBVIOUS
  <2>2. /\ out \in SUBSET (possible \ tried) /\ Cardinality(out) \in Nat
        /\ Cardinality(out) <= find_budget
    BY <2>0, <2>1, RefillIsTyped
  <2>3. out \in SUBSET Contact
    BY <2>2 DEF TypeOK
  <2>4. find_budget - Cardinality(out) \in 0 .. FindBudget
    <3>1. find_budget \in Nat /\ FindBudget \in Nat /\ find_budget <= FindBudget
      BY LookupAssumption DEF TypeOK
    <3> QED
      BY <2>2, <3>1, BudgetFits
  <2>5. InOrder(out) \in Seq(Contact)
    BY <2>3, OrderIsTyped
  <2>6. /\ find_budget' = find_budget - Cardinality(out) /\ tried' = tried \cup out
        /\ queue' = InOrder(out) /\ phase' = "finds"
        /\ UNCHANGED <<possible, responded, failed, best, value_budget, refresh, finds_inflight, results>>
    BY <1>2, <2>1 DEF Refill
  <2> HIDE DEF InOrder
  <2>7. SearchTyped'
    BY <2>3, <2>4, <2>6 DEF TypeOK, SearchTyped
  <2>8. DriverTyped'
    BY <2>5, <2>6 DEF TypeOK, DriverTyped
  <2> QED
    BY <2>7, <2>8
<1> QED
  BY <1>1, <1>2

\* What an answer does, with the contacts it dispatches at once.
Found(r, a, out) ==
    /\ phase = "select" /\ phase' = "jump"
    /\ r.st = "answered" /\ r.kind = "find" /\ r \in inflight
    /\ finds_inflight' = Minus(finds_inflight, 1)
    /\ Dispatches(out, a, Minus(Alpha, finds_inflight'), queue')
    /\ tried' = tried \cup {a[i] : i \in out}
    /\ find_budget' = find_budget - Cardinality(out)
    /\ possible' = possible \cup {a[i] : i \in News(a)}
    /\ best' \subseteq Contact
    /\ responded' = responded \cup {r.to}
    /\ inflight' = inflight \ {r}
    /\ UNCHANGED <<failed, value_budget, refresh, results, guard, pending, sent, historyVars>>

\* JoinFound is that.
LEMMA FoundDoes ==
    ASSUME TypeOK, NEW r \in inflight, NEW a \in Answers(r.to), JoinFound(r, a)
    PROVE  \E out : Found(r, a, out) /\ {a[i] : i \in out} \subseteq Contact
                    /\ {a[i] : i \in News(a)} \subseteq Contact
<1>1. r \in Request /\ r.to \in Contact
  BY DEF TypeOK, Request
<1>2. finds_inflight' = Minus(finds_inflight, 1) /\ Minus(Alpha, finds_inflight') \in Nat
  <2>1. finds_inflight' = Minus(finds_inflight, 1)
    BY DEF JoinFound
  <2>2. finds_inflight' \in Nat
    BY <2>1 DEF TypeOK, Minus
  <2> QED
    BY <2>1, <2>2, LookupAssumption DEF Minus
<1>3. PICK capacity \in Nat : capacity = Minus(Alpha, finds_inflight')
  BY <1>2
<1>4. PICK out : out = Dispatched(r.to, a, capacity)
  OBVIOUS
<1>5. /\ tried' = tried \cup {a[i] : i \in out} /\ find_budget' = find_budget - Cardinality(out)
      /\ queue' = [n \in 1 .. Cardinality(out) |-> a[InOrder(out)[n]]]
  BY <1>3, <1>4 DEF JoinFound
<1>6. Dispatches(out, a, capacity, queue')
  BY <1>1, <1>4, <1>5, DispatchIsTyped
<1>7. PICK n \in Nat : a \in [1 .. n -> Contact]
  BY <1>1, AnswersDiffer
<1>8. News(a) \in SUBSET (1 .. n) /\ Closer(r.to, a) \in SUBSET (1 .. n) /\ out \in SUBSET (1 .. n)
  BY <1>6, <1>7 DEF News, Closer, Dispatches
<1>9. best' \subseteq Contact
  <2>1. best' \subseteq best \cup {a[i] : i \in Closer(r.to, a)}
    BY DEF JoinFound, Best, Closest
  <2>2. {a[i] : i \in Closer(r.to, a)} \subseteq Contact
    BY <1>7, <1>8
  <2> QED
    BY <2>1, <2>2 DEF TypeOK
<1>10. {a[i] : i \in out} \subseteq Contact /\ {a[i] : i \in News(a)} \subseteq Contact
  BY <1>7, <1>8
<1>11. /\ phase = "select" /\ phase' = "jump" /\ r.st = "answered" /\ r.kind = "find"
       /\ possible' = possible \cup {a[i] : i \in News(a)}
       /\ responded' = responded \cup {r.to} /\ inflight' = inflight \ {r}
       /\ UNCHANGED <<failed, value_budget, refresh, results, guard, pending, sent, historyVars>>
  BY DEF JoinFound
<1>12. Found(r, a, out)
  BY <1>2, <1>3, <1>5, <1>6, <1>9, <1>11 DEF Found
<1> QED
  BY <1>10, <1>12

\* The walk and the driver after an answer.
LEMMA FoundTyped ==
    ASSUME TypeOK, NEW r \in inflight, NEW a \in Answers(r.to), JoinFound(r, a)
    PROVE  SearchTyped' /\ DriverTyped'
<1>1. PICK out : Found(r, a, out) /\ {a[i] : i \in out} \subseteq Contact
                 /\ {a[i] : i \in News(a)} \subseteq Contact
  BY FoundDoes
<1>2. /\ Cardinality(out) \in Nat /\ Cardinality(out) <= find_budget /\ queue' \in Seq(Contact)
  BY <1>1 DEF Found, Dispatches
<1>3. find_budget - Cardinality(out) \in 0 .. FindBudget
  <2>1. find_budget \in Nat /\ FindBudget \in Nat /\ find_budget <= FindBudget
    BY LookupAssumption DEF TypeOK
  <2> QED
    BY <1>2, <2>1, BudgetFits
<1>4. r.to \in Contact
  BY DEF TypeOK, Request
<1>5. possible' \subseteq Contact /\ tried' \subseteq Contact /\ responded' \subseteq Contact
  BY <1>1, <1>4 DEF Found, TypeOK
<1>6. SearchTyped'
  BY <1>1, <1>3, <1>5 DEF Found, TypeOK, SearchTyped
<1>7. finds_inflight' \in Nat
  BY <1>1 DEF Found, TypeOK, Minus
<1>8. DriverTyped'
  BY <1>1, <1>2, <1>7 DEF Found, TypeOK, DriverTyped
<1> QED
  BY <1>6, <1>8

\* Every step keeps the types.
LEMMA TypesStep ==
    ASSUME TypeOK, Numbers, [Next]_vars
    PROVE  TypeOK'
<1>0. RequestsTyped'
  BY RequestsTypedStep
<1>a. SearchTyped /\ DriverTyped /\ HistoryTyped
  BY TypesAre
<1>b. ASSUME NEW r \in inflight PROVE r.to \in Contact /\ r.kind \in Kind
  BY DEF TypeOK, Request
<1>c. UNCHANGED searchVars => SearchTyped'
  BY <1>a DEF SearchTyped, searchVars
<1>d. UNCHANGED <<sent, historyVars>> => HistoryTyped'
  BY <1>a DEF HistoryTyped, historyVars
<1>e. ASSUME NEW r \in inflight, failed' = failed \cup ({r.to} \cap tried) \/ failed' = failed,
             UNCHANGED <<possible, tried, responded, best, find_budget, value_budget>>
      PROVE  SearchTyped'
  BY <1>a, <1>e DEF SearchTyped
<1>f. ASSUME UNCHANGED <<refresh, results>>, queue' = queue \/ queue' = <<>>, finds_inflight' \in Nat,
             phase' \in {"idle", "top", "asks", "finds", "jump", "select"}
      PROVE  DriverTyped'
  <2>1. <<>> \in Seq(Contact)
    OBVIOUS
  <2>2. queue' \in Seq(Contact)
    BY <1>a, <1>f, <2>1 DEF DriverTyped
  <2> QED
    BY <1>a, <1>f, <2>2 DEF DriverTyped
<1>g. finds_inflight \in Nat /\ finds_inflight + 1 \in Nat /\ Minus(finds_inflight, 1) \in Nat
  BY DEF TypeOK, Minus
<1>h. phase \in {"idle", "top", "asks", "finds", "jump", "select"}
  BY DEF TypeOK
<1> DEFINE Rest == SearchTyped /\ DriverTyped /\ HistoryTyped
<1>1. ASSUME NEW seeds \in SUBSET Contact, NEW b \in BOOLEAN, Start(seeds, b) PROVE Rest'
  <2>1. SearchTyped'
    <3>1. FindBudget \in 0 .. FindBudget /\ ValueBudget \in 0 .. ValueBudget /\ 0 \in 0 .. ValueBudget
      BY LookupAssumption
    <3>2. value_budget' \in 0 .. ValueBudget
      BY <1>1, <3>1 DEF Start
    <3>3. /\ possible' = seeds /\ tried' = {} /\ responded' = {} /\ failed' = {} /\ best' = {}
          /\ find_budget' = FindBudget
      BY <1>1 DEF Start
    <3> QED
      BY <3>1, <3>2, <3>3 DEF SearchTyped
  <2>2. DriverTyped'
    <3>1. 0 \in 0 .. Stop
      BY LookupAssumption
    <3> QED
      BY <1>1, <1>a, <3>1 DEF Start, DriverTyped
  <2>3. HistoryTyped'
    <3>1. panics' = [panics EXCEPT !.finds = {}] /\ panics \in [finds: SUBSET Contact, total: 0 .. MaxPanics]
      BY <1>1, <1>a DEF Start, HistoryTyped
    <3>2. panics' \in [finds: SUBSET Contact, total: 0 .. MaxPanics]
      BY <3>1
    <3>3. sent' \in [Kind \X Contact -> Nat] /\ unsent' = FALSE /\ exhausted' = FALSE
      BY <1>1 DEF Start
    <3> QED
      BY <3>2, <3>3 DEF HistoryTyped
  <2> QED
    BY <2>1, <2>2, <2>3
<1>2. ASSUME EndWithEnough \/ Cancel PROVE Rest'
  <2>1. UNCHANGED searchVars /\ UNCHANGED <<sent, historyVars>>
    BY <1>2 DEF EndWithEnough, Cancel
  <2>2. UNCHANGED <<refresh, results>> /\ queue' = <<>> /\ finds_inflight' = finds_inflight /\ phase' = "idle"
    BY <1>2 DEF EndWithEnough, Cancel, DropLookup
  <2> QED
    BY <1>c, <1>d, <1>f, <1>g, <2>1, <2>2
<1>3. ASSUME EndExhausted PROVE Rest'
  <2>1. UNCHANGED searchVars
    BY <1>3 DEF EndExhausted
  <2>2. UNCHANGED <<refresh, results>> /\ queue' = <<>> /\ finds_inflight' = finds_inflight /\ phase' = "idle"
    BY <1>3 DEF EndExhausted, DropLookup
  <2>3. HistoryTyped'
    BY <1>3, <1>a DEF EndExhausted, HistoryTyped
  <2> QED
    BY <1>c, <1>f, <1>g, <2>1, <2>2, <2>3
<1>4. ASSUME Harvest \/ Refill PROVE Rest'
  <2>1. SearchTyped' /\ DriverTyped'
    BY <1>4, PassTyped
  <2>2. HistoryTyped'
    BY <1>4, <1>a DEF Harvest, Refill, HistoryTyped, historyVars
  <2> QED
    BY <2>1, <2>2
<1>5. ASSUME Wait \/ Jumped \/ Tick PROVE Rest'
  <2>1. UNCHANGED searchVars /\ UNCHANGED <<sent, historyVars>>
    BY <1>5 DEF Wait, Jumped, Tick
  <2>2. UNCHANGED <<refresh, results, queue, finds_inflight>> /\ phase' \in {"top", "select"}
    BY <1>5 DEF Wait, Jumped, Tick
  <2> QED
    BY <1>c, <1>d, <1>f, <1>g, <2>1, <2>2
<1>6. ASSUME BeginRequest PROVE Rest'
  <2>0. UNCHANGED searchVars /\ UNCHANGED <<phase, refresh, finds_inflight, results, historyVars>>
        /\ queue' = Tail(queue) /\ queue # <<>>
        /\ sent' = [sent EXCEPT ![<<SendKind, Head(queue)>>] = @ + 1]
    BY <1>6 DEF BeginRequest
  <2>1. DriverTyped'
    <3>1. Tail(queue) \in Seq(Contact)
      BY <1>a, <2>0 DEF DriverTyped
    <3> QED
      BY <1>a, <2>0, <3>1 DEF DriverTyped
  <2>2. sent' \in [Kind \X Contact -> Nat]
    <3>1. sent \in [Kind \X Contact -> Nat]
      BY <1>a DEF HistoryTyped
    <3>2. \A x \in Kind \X Contact : sent[x] + 1 \in Nat
      BY <3>1
    <3> QED
      BY <2>0, <3>1, <3>2
  <2>3. HistoryTyped'
    BY <1>a, <2>0, <2>2 DEF HistoryTyped, historyVars
  <2> QED
    BY <1>c, <2>0, <2>1, <2>3
<1>7. ASSUME NEW r \in inflight, Sent(r) \/ Expire(r) PROVE Rest'
  <2>1. UNCHANGED searchVars /\ UNCHANGED <<sent, historyVars>>
    BY <1>7 DEF Sent, Expire
  <2>2. UNCHANGED <<refresh, results, queue, phase>>
    BY <1>7 DEF Sent, Expire
  <2>3. finds_inflight' = finds_inflight \/ finds_inflight' = finds_inflight + 1
    BY <1>7 DEF Sent, Expire
  <2> QED
    BY <1>c, <1>d, <1>f, <1>g, <1>h, <2>1, <2>2, <2>3
<1>8. ASSUME NEW r \in inflight, SendFailed(r) PROVE Rest'
  <2>1. UNCHANGED <<possible, tried, responded, best, find_budget, value_budget>>
    BY <1>8 DEF SendFailed
  <2>2. failed' = failed \cup ({r.to} \cap tried) \/ failed' = failed
    BY <1>8 DEF SendFailed, OnTimeout
  <2>3. UNCHANGED <<refresh, results, queue, phase, finds_inflight>>
    BY <1>8 DEF SendFailed
  <2>4. HistoryTyped'
    BY <1>8, <1>a DEF SendFailed, HistoryTyped
  <2> QED
    BY <1>e, <1>f, <1>g, <1>h, <2>1, <2>2, <2>3, <2>4
<1>9. ASSUME NEW c \in Contact, NEW k \in Kind, NEW e \in BOOLEAN, Datagram(c, k, e) PROVE Rest'
  <2>1. UNCHANGED searchVars /\ UNCHANGED <<sent, historyVars>>
    BY <1>9 DEF Datagram
  <2>2. UNCHANGED <<refresh, results, queue, phase, finds_inflight>>
    BY <1>9 DEF Datagram
  <2> QED
    BY <1>c, <1>d, <1>f, <1>g, <1>h, <2>1, <2>2
<1>10. ASSUME NEW r \in inflight, NEW a \in Answers(r.to), JoinFound(r, a) PROVE Rest'
  <2>1. SearchTyped' /\ DriverTyped'
    BY <1>10, FoundTyped
  <2>2. UNCHANGED <<sent, historyVars>>
    BY <1>10 DEF JoinFound
  <2> QED
    BY <1>d, <2>1, <2>2
<1>11. ASSUME NEW r \in inflight, JoinUnusable(r) \/ JoinExpired(r) PROVE Rest'
  <2>1. UNCHANGED <<possible, tried, responded, best, find_budget, value_budget>>
    BY <1>11 DEF JoinUnusable, JoinExpired
  <2>2. failed' = failed \cup ({r.to} \cap tried) \/ failed' = failed
    BY <1>11 DEF JoinUnusable, JoinExpired, OnTimeout
  <2>3. UNCHANGED <<refresh, results, queue>> /\ phase' = "top"
    BY <1>11 DEF JoinUnusable, JoinExpired
  <2>4. finds_inflight' = finds_inflight \/ finds_inflight' = Minus(finds_inflight, 1)
    BY <1>11 DEF JoinUnusable, JoinExpired
  <2>5. UNCHANGED <<sent, historyVars>>
    BY <1>11 DEF JoinUnusable, JoinExpired
  <2> QED
    BY <1>d, <1>e, <1>f, <1>g, <2>1, <2>2, <2>3, <2>4, <2>5
<1>12. ASSUME NEW r \in inflight, NEW n \in 0 .. 1, JoinValue(r, n) PROVE Rest'
  <2>1. UNCHANGED searchVars /\ UNCHANGED <<sent, historyVars>>
    BY <1>12 DEF JoinValue
  <2>2. results' \in 0 .. Stop
    BY <1>12, <1>a, LookupAssumption DEF JoinValue, DriverTyped, Least
  <2>3. DriverTyped'
    BY <1>12, <1>a, <2>2 DEF JoinValue, DriverTyped
  <2> QED
    BY <1>c, <1>d, <2>1, <2>3
<1>13. ASSUME NEW r \in inflight, JoinPanicked(r) PROVE Rest'
  <2>1. UNCHANGED searchVars
    BY <1>13 DEF JoinPanicked
  <2>2. UNCHANGED <<refresh, results, queue>> /\ phase' = "top" /\ finds_inflight' = Minus(finds_inflight, 1)
    BY <1>13 DEF JoinPanicked
  <2>3. PICK f : f = panics.finds \cup (IF r.kind = "find" THEN {r.to} ELSE {})
    OBVIOUS
  <2>4. f \in SUBSET Contact
    BY <1>a, <1>b, <2>3 DEF HistoryTyped
  <2>5. panics.total + 1 \in 0 .. MaxPanics
    BY <1>13, <1>a, LookupAssumption DEF HistoryTyped, JoinPanicked
  <2>6. panics' = [finds |-> f, total |-> panics.total + 1] /\ UNCHANGED <<sent, unsent, exhausted>>
    BY <1>13, <2>3 DEF JoinPanicked
  <2>7. HistoryTyped'
    BY <1>a, <2>4, <2>5, <2>6 DEF HistoryTyped
  <2> QED
    BY <1>c, <1>f, <1>g, <2>1, <2>2, <2>7
<1>14. ASSUME UNCHANGED vars PROVE Rest'
  <2>1. UNCHANGED searchVars /\ UNCHANGED <<sent, historyVars>>
    BY <1>14 DEF vars
  <2>2. UNCHANGED <<refresh, results, queue, phase, finds_inflight>>
    BY <1>14 DEF vars
  <2> QED
    BY <1>c, <1>d, <1>f, <1>g, <1>h, <2>1, <2>2
<1> HIDE DEF Rest
<1>15. Rest'
  BY <1>1, <1>2, <1>3, <1>4, <1>5, <1>6, <1>7, <1>8, <1>9, <1>10, <1>11, <1>12, <1>13, <1>14
     DEF Next, Driver, Join, JoinAnswered, ReadLoop
<1> QED
  BY <1>0, <1>15, TypesNext DEF Rest

-----------------------------------------------------------------------------
(* Requests, step by step *)

\* Begin a request.
LEMMA RequestsBegin ==
    ASSUME TypeOK, TypeOK', Requests, BeginRequest
    PROVE  Requests'
<1>0. Places /\ Numbers /\ Counts
  BY DEF Requests
<1>1. PICK s : s = [seq |-> FreshSeq, kind |-> SendKind, to |-> Head(queue), st |-> "sending"]
  OBVIOUS
<1>2. /\ inflight' = inflight \cup {s} /\ phase \in {"asks", "finds", "jump"} /\ phase' = phase
      /\ NoSend /\ queue # <<>> /\ queue' = Tail(queue) /\ finds_inflight' = finds_inflight /\ panics' = panics
  BY <1>1 DEF BeginRequest, historyVars
<1>3. s.kind = SendKind /\ s.st = "sending"
  BY <1>1
<1>4. (inflight \ Tasks)' = {s}
  BY <1>2, <1>3 DEF NoSend, Tasks
<1>5. Places'
  <2>1. SendKind' = SendKind
    BY <1>2 DEF SendKind
  <2> QED
    BY <1>2, <1>3, <1>4, <2>1 DEF Places
<1>6. Numbers'
  BY <1>0, NumbersBegin
<1>7. FindTasks' = FindTasks
  BY <1>2, <1>3 DEF FindTasks, Tasks
<1>8. Counts'
  <2>1. /\ finds_inflight' <= Alpha
        /\ phase' # "idle" => finds_inflight' <= Cardinality(FindTasks')
        /\ Cardinality(FindTasks') <= finds_inflight' + panics'.total
    BY <1>0, <1>2, <1>7 DEF Counts
  <2>2. ASSUME phase' \in {"finds", "jump"}
        PROVE  finds_inflight' + Len(queue') + (IF NoSend' THEN 0 ELSE 1) <= Alpha
    <3>1. finds_inflight + Len(queue) + (IF NoSend THEN 0 ELSE 1) <= Alpha
      BY <1>0, <1>2, <2>2 DEF Counts
    <3>2. finds_inflight + Len(queue) + 0 <= Alpha
      BY <1>2, <3>1
    <3>3. finds_inflight \in Nat /\ Alpha \in Nat /\ Len(queue') = Len(queue) - 1 /\ Len(queue) \in Nat
      BY <1>2, LookupAssumption DEF TypeOK
    <3>4. PICK b : b = IF NoSend' THEN 0 ELSE 1
      OBVIOUS
    <3>5. b \in {0, 1}
      BY <3>4
    <3>6. finds_inflight + Len(queue') + b <= Alpha
      BY <3>2, <3>3, <3>5
    <3> QED
      BY <1>2, <3>4, <3>6
  <2> QED
    BY <2>1, <2>2 DEF Counts
<1> QED
  BY <1>5, <1>6, <1>8 DEF Requests

\* The request being sent is the only one, of the kind the pass sends.
LEMMA SendingIs ==
    ASSUME TypeOK, Places, NEW r \in inflight, r.st \in {"sending", "early"}
    PROVE  /\ phase \in {"asks", "finds", "jump"} /\ ~NoSend /\ r \notin Tasks
           /\ r.kind = SendKind /\ \A q \in inflight \ {r} : q.st \notin {"sending", "early"}
<1>1. r \in inflight \ Tasks /\ ~NoSend
  BY DEF Tasks, NoSend
<1>2. \A q \in inflight : q.st \in {"sending", "early"} => q \in inflight \ Tasks
  BY DEF Tasks
<1> QED
  BY <1>1, <1>2 DEF Places, TypeOK

\* The send completes.
LEMMA RequestsSent ==
    ASSUME TypeOK, TypeOK', Requests, NEW r \in inflight, Sent(r)
    PROVE  Requests'
<1>0. Places /\ Numbers /\ Counts
  BY DEF Requests
<1>1. PICK s : /\ Swapped(r, s) /\ r \notin Tasks /\ s.st \in {"waiting", "answered"}
               /\ s.st = "answered" => r.st = "early"
  BY SentDoes
<1>2. /\ r.st \in {"sending", "early"} /\ phase' = phase /\ queue' = queue /\ guard' = guard /\ pending' = pending
      /\ panics' = panics /\ finds_inflight' = IF r.kind = "find" THEN finds_inflight + 1 ELSE finds_inflight
  BY DEF Sent, historyVars
<1>3. /\ phase \in {"asks", "finds", "jump"} /\ ~NoSend /\ r.kind = SendKind
      /\ \A q \in inflight \ {r} : q.st \notin {"sending", "early"}
  BY <1>0, <1>2, SendingIs
<1>4. NoSend'
  BY <1>1, <1>3 DEF NoSend, Swapped
<1>5. Places'
  BY <1>2, <1>3, <1>4, PlacesQuiet
<1>6. Numbers'
  <2>1. s.st \in {"early", "answered"} => s.seq \notin PendingSeqs'
    BY <1>0, <1>1, <1>2 DEF Numbers, PendingSeqs, Swapped
  <2> QED
    BY <1>0, <1>1, <1>2, <2>1, NumbersSwap
<1>7. Cardinality(FindTasks') = IF r.kind = "find" THEN Cardinality(FindTasks) + 1 ELSE Cardinality(FindTasks)
  BY <1>0, <1>1, FindTasksSwap
<1>8. Counts'
  <2>1. CASE r.kind # "find"
    <3>1. phase = "asks"
      BY <1>3, <2>1 DEF SendKind
    <3> QED
      BY <1>0, <1>2, <1>7, <2>1, <3>1, CountsSame
  <2>2. CASE r.kind = "find"
    <3>1. phase \in {"finds", "jump"} /\ phase # "idle"
      BY <1>3, <2>2 DEF SendKind
    <3>2. finds_inflight + Len(queue) + (IF NoSend THEN 0 ELSE 1) <= Alpha
      BY <1>0, <3>1 DEF Counts
    <3>3. finds_inflight + Len(queue) + 1 <= Alpha
      BY <1>3, <3>2
    <3>4. /\ finds_inflight \in Nat /\ Alpha \in Nat /\ Len(queue) \in Nat /\ Cardinality(FindTasks) \in Nat
          /\ panics.total \in Nat
      BY <1>0, FindTasksAre, LookupAssumption DEF TypeOK
    <3>5. finds_inflight <= Cardinality(FindTasks) /\ Cardinality(FindTasks) <= finds_inflight + panics.total
      BY <1>0, <3>1 DEF Counts
    <3>6. /\ finds_inflight' <= Alpha /\ finds_inflight' <= Cardinality(FindTasks')
          /\ Cardinality(FindTasks') <= finds_inflight' + panics'.total
          /\ finds_inflight' + Len(queue') + 0 <= Alpha
      BY <1>2, <1>7, <2>2, <3>3, <3>4, <3>5
    <3>7. finds_inflight' + Len(queue') + (IF NoSend' THEN 0 ELSE 1) <= Alpha
      BY <1>4, <3>6
    <3> QED
      BY <3>6, <3>7 DEF Counts
  <2> QED
    BY <2>1, <2>2
<1> QED
  BY <1>5, <1>6, <1>8 DEF Requests

\* The send fails.
LEMMA RequestsSendFailed ==
    ASSUME TypeOK, TypeOK', Requests, NEW r \in inflight, SendFailed(r)
    PROVE  Requests'
<1>0. Places /\ Numbers /\ Counts
  BY DEF Requests
<1>2. /\ r.st \in {"sending", "early"} /\ phase' = phase /\ queue' = queue /\ guard' = guard
      /\ pending' = Without(pending, {r.seq}) /\ inflight' = inflight \ {r}
      /\ panics' = panics /\ finds_inflight' = finds_inflight
  BY DEF SendFailed
<1>3. /\ phase \in {"asks", "finds", "jump"} /\ ~NoSend /\ r \notin Tasks
      /\ \A q \in inflight \ {r} : q.st \notin {"sending", "early"}
  BY <1>0, <1>2, SendingIs
<1>4. NoSend'
  BY <1>2, <1>3 DEF NoSend
<1>5. Places'
  BY <1>2, <1>3, <1>4, PlacesQuiet
<1>6. Numbers'
  <2>1. pending' \subseteq pending /\ r.seq \notin PendingSeqs'
    BY <1>2 DEF PendingSeqs, Without
  <2> QED
    BY <1>0, <1>2, <2>1, NumbersRemove
<1>7. r \notin FindTasks
  BY <1>3 DEF FindTasks
<1>8. Cardinality(FindTasks') = Cardinality(FindTasks)
  BY <1>0, <1>2, <1>7, FindTasksRemove
<1>9. Counts'
  BY <1>0, <1>2, <1>3, <1>4, <1>8, CountsSame
<1> QED
  BY <1>5, <1>6, <1>9 DEF Requests

\* The deadline passes.
LEMMA RequestsExpire ==
    ASSUME TypeOK, TypeOK', Requests, NEW r \in inflight, Expire(r)
    PROVE  Requests'
<1>0. Places /\ Numbers /\ Counts
  BY DEF Requests
<1>1. PICK s : Swapped(r, s) /\ r \in Tasks /\ s.st = "expired"
  BY ExpireDoes
<1>2. /\ phase' = phase /\ queue' = queue /\ guard' = guard /\ pending' = pending /\ panics' = panics
      /\ finds_inflight' = finds_inflight
  BY DEF Expire, historyVars
<1>3. Places'
  BY <1>0, <1>1, <1>2, PlacesSwap
<1>4. Numbers'
  BY <1>0, <1>1, <1>2, NumbersSwap
<1>5. Cardinality(FindTasks') = Cardinality(FindTasks)
  BY <1>0, <1>1, FindTasksSwap
<1>6. NoSend => NoSend'
  BY <1>1 DEF NoSend, Swapped
<1>7. phase # "idle"
  BY <1>0 DEF Places
<1>8. Counts'
  BY <1>0, <1>2, <1>5, <1>6, <1>7, CountsSame
<1> QED
  BY <1>3, <1>4, <1>8 DEF Requests

\* The read loop settles a slot.
LEMMA RequestsDatagram ==
    ASSUME TypeOK, TypeOK', Requests, NEW c \in Contact, NEW k \in Kind, NEW e \in BOOLEAN, Datagram(c, k, e)
    PROVE  Requests'
<1>0. Places /\ Numbers /\ Counts
  BY DEF Requests
<1>1. PICK p \in pending :
              /\ pending' = pending \ {p}
              /\ \/ inflight' = inflight
                 \/ \E r, s : Swapped(r, s) /\ s.seq = p.seq /\ (r \in Tasks <=> s.st \notin {"sending", "early"})
  BY <1>0, DatagramDoes
<1>2. /\ phase' = phase /\ queue' = queue /\ guard' = guard /\ panics' = panics
      /\ finds_inflight' = finds_inflight
  BY DEF Datagram, historyVars
<1>3. p.seq \notin PendingSeqs' /\ pending' \subseteq pending /\ phase # "idle"
  BY <1>0, <1>1 DEF Numbers, PendingSeqs, Places
<1>4. CASE inflight' = inflight
  <2>1. Places'
    BY <1>0, <1>2, <1>3, <1>4 DEF Places, NoSend, Tasks, SendKind
  <2>2. PendingSeqs' \in SUBSET PendingSeqs
    BY <1>3 DEF PendingSeqs
  <2>3. Numbers'
    <3>1. IsFiniteSet(inflight') /\ panics'.total = panics.total
      BY <1>0, <1>2, <1>4 DEF Numbers
    <3>2. \A r, s \in inflight' : r.seq = s.seq => r = s
      BY <1>0, <1>4 DEF Numbers
    <3>3. \A r \in inflight' : r.st \in {"early", "answered"} => r.seq \notin PendingSeqs'
      BY <1>0, <1>4, <2>2 DEF Numbers
    <3>4. Seqs(inflight') = Seqs(inflight)
      BY <1>4
    <3> QED
      BY <1>0, <1>2, <1>3, <3>1, <3>2, <3>3, <3>4, NumbersKept
  <2>4. FindTasks' = FindTasks /\ (NoSend => NoSend')
    BY <1>4 DEF FindTasks, Tasks, NoSend
  <2>5. Counts'
    BY <1>0, <1>2, <1>3, <2>4, CountsSame
  <2> QED
    BY <2>1, <2>3, <2>5 DEF Requests
<1>5. CASE inflight' # inflight
  <2>1. PICK r, s : Swapped(r, s) /\ s.seq = p.seq /\ (r \in Tasks <=> s.st \notin {"sending", "early"})
    BY <1>1, <1>5
  <2>2. Places'
    BY <1>0, <1>2, <2>1, PlacesSwap
  <2>3. Numbers'
    BY <1>0, <1>2, <1>3, <2>1, NumbersSwap
  <2>4. Cardinality(FindTasks') = Cardinality(FindTasks)
    BY <1>0, <2>1, FindTasksSwap
  <2>5. NoSend => NoSend'
    BY <2>1 DEF NoSend, Swapped, Tasks
  <2>6. Counts'
    BY <1>0, <1>2, <1>3, <2>4, <2>5, CountsSame
  <2> QED
    BY <2>2, <2>3, <2>6 DEF Requests
<1> QED
  BY <1>4, <1>5

\* A request is joined: its answer, its silence or its panic.
LEMMA RequestsJoined ==
    ASSUME TypeOK, TypeOK', Requests, NEW r \in inflight,
           \/ \E a \in Answers(r.to) : JoinFound(r, a)
           \/ JoinUnusable(r)
           \/ \E n \in 0 .. 1 : JoinValue(r, n)
           \/ JoinExpired(r)
    PROVE  Requests'
<1>0. Places /\ Numbers /\ Counts
  BY DEF Requests
<1>1. /\ phase = "select" /\ r.st \in {"answered", "expired"} /\ phase' \in {"top", "jump"}
      /\ guard' = guard /\ panics' = panics /\ inflight' = inflight \ {r}
      /\ (phase' = "jump" \/ queue' = queue)
  BY DEF JoinFound, JoinUnusable, JoinValue, JoinExpired, historyVars
<1>2. queue = <<>> /\ NoSend /\ NoSend'
  BY <1>0, <1>1 DEF Places, NoSend
<1>3. Places'
  BY <1>1, <1>2, PlacesQuiet
<1>4. pending' \subseteq pending /\ r.seq \notin PendingSeqs'
  <2>1. CASE r.st = "answered"
    <3>1. pending' = pending
      BY <2>1 DEF JoinFound, JoinUnusable, JoinValue, JoinExpired
    <3>2. r.seq \notin PendingSeqs
      BY <1>0, <2>1 DEF Numbers
    <3> QED
      BY <3>1, <3>2 DEF PendingSeqs
  <2>2. CASE r.st = "expired"
    <3>1. pending' = Without(pending, {r.seq})
      BY <2>2 DEF JoinFound, JoinUnusable, JoinValue, JoinExpired
    <3> QED
      BY <3>1 DEF PendingSeqs, Without
  <2> QED
    BY <1>1, <2>1, <2>2
<1>5. Numbers'
  BY <1>0, <1>1, <1>4, NumbersRemove
<1>6. r \in Tasks
  BY <1>1 DEF Tasks
<1>7. Counts'
  <2>1. CASE r.kind = "find"
    <3>1. r \in FindTasks
      BY <1>6, <2>1 DEF FindTasks
    <3>2. finds_inflight' = Minus(finds_inflight, 1)
      BY <2>1 DEF JoinFound, JoinUnusable, JoinValue, JoinExpired
    <3>3. phase' \in {"finds", "jump"} => NoSend' /\ finds_inflight' + Len(queue') <= Alpha
      <4>1. SUFFICES ASSUME phase' = "jump" PROVE finds_inflight' + Len(queue') <= Alpha
        BY <1>1, <1>2
      <4>2. PICK a \in Answers(r.to) : JoinFound(r, a)
        BY <4>1 DEF JoinUnusable, JoinValue, JoinExpired
      <4>3. PICK out : Found(r, a, out)
        BY <4>2, FoundDoes
      <4>4. Len(queue') \in Nat /\ Len(queue') <= Minus(Alpha, finds_inflight')
        BY <4>3 DEF Found, Dispatches
      <4>5. finds_inflight' \in Nat /\ finds_inflight' <= Alpha /\ Alpha \in Nat
        BY <1>0, <3>2, LookupAssumption DEF TypeOK, Counts, Minus
      <4> QED
        BY <4>4, <4>5 DEF Minus
    <3> QED
      BY <1>0, <1>1, <3>1, <3>2, <3>3, CountsDone
  <2>2. CASE r.kind # "find"
    <3>1. r \notin FindTasks
      BY <2>2 DEF FindTasks
    <3>2. Cardinality(FindTasks') = Cardinality(FindTasks)
      BY <1>0, <1>1, <3>1, FindTasksRemove
    <3>3. finds_inflight' = finds_inflight /\ phase' = "top"
      BY <2>2 DEF JoinFound, JoinUnusable, JoinValue, JoinExpired
    <3> QED
      BY <1>0, <1>1, <3>2, <3>3, CountsSame
  <2> QED
    BY <2>1, <2>2
<1> QED
  BY <1>3, <1>5, <1>7 DEF Requests

\* A panicked task.
LEMMA RequestsPanicked ==
    ASSUME TypeOK, TypeOK', Requests, NEW r \in inflight, JoinPanicked(r)
    PROVE  Requests'
<1>0. Places /\ Numbers /\ Counts
  BY DEF Requests
<1>1. /\ phase = "select" /\ phase' = "top" /\ queue' = queue /\ inflight' = inflight \ {r}
      /\ finds_inflight' = Minus(finds_inflight, 1) /\ panics'.total = panics.total + 1
  BY DEF JoinPanicked
<1>2. queue = <<>> /\ NoSend'
  BY <1>0, <1>1 DEF Places, NoSend
<1>3. Places'
  BY <1>1, <1>2, PlacesQuiet
<1>4. Numbers'
  BY <1>0, NumbersPanic
<1>5. /\ finds_inflight \in Nat /\ Alpha \in Nat /\ Cardinality(FindTasks) \in Nat /\ panics.total \in Nat
  BY <1>0, FindTasksAre, LookupAssumption DEF TypeOK
<1>6. /\ finds_inflight <= Alpha /\ finds_inflight <= Cardinality(FindTasks)
      /\ Cardinality(FindTasks) <= finds_inflight + panics.total
  BY <1>0, <1>1 DEF Counts
<1>7. \/ Cardinality(FindTasks') = Cardinality(FindTasks) - 1 /\ Cardinality(FindTasks) > 0
      \/ Cardinality(FindTasks') = Cardinality(FindTasks)
  BY <1>0, <1>1, FindTasksRemove
<1>8. /\ finds_inflight' <= Alpha /\ finds_inflight' <= Cardinality(FindTasks')
      /\ Cardinality(FindTasks') <= finds_inflight' + panics'.total
  BY <1>1, <1>5, <1>6, <1>7 DEF Minus
<1>9. Counts'
  BY <1>1, <1>8 DEF Counts
<1> QED
  BY <1>3, <1>4, <1>9 DEF Requests

\* The lookup ends.
LEMMA RequestsDropped ==
    ASSUME TypeOK, TypeOK', Requests, EndWithEnough \/ EndExhausted \/ Cancel
    PROVE  Requests' /\ phase' = "idle" /\ inflight' = {} /\ queue' = <<>>
<1>0. Places /\ Numbers /\ Counts
  BY DEF Requests
<1>1. DropLookup /\ panics' = panics /\ finds_inflight' = finds_inflight
  BY DEF EndWithEnough, EndExhausted, Cancel, historyVars
<1>2. phase' = "idle" /\ inflight' = {} /\ queue' = <<>> /\ Places' /\ Numbers'
  BY <1>0, <1>1, DropLeavesNothing
<1>3. Cardinality(FindTasks') = 0
  BY <1>2, FS_EmptySet DEF FindTasks, Tasks
<1>4. finds_inflight' \in Nat /\ panics'.total \in Nat /\ finds_inflight' <= Alpha
  BY <1>0, <1>1, LookupAssumption DEF TypeOK, Counts
<1>5. Cardinality(FindTasks') <= finds_inflight' + panics'.total
  BY <1>3, <1>4
<1>6. Counts'
  BY <1>2, <1>4, <1>5 DEF Counts
<1> QED
  BY <1>2, <1>6 DEF Requests

\* The driver moves on without touching a request.
LEMMA RequestsQuiet ==
    ASSUME TypeOK, TypeOK', Requests,
           \/ Harvest \/ Refill \/ Wait \/ Jumped \/ Tick
           \/ \E seeds, b : Start(seeds, b)
    PROVE  Requests'
<1>0. Places /\ Numbers /\ Counts
  BY DEF Requests
<1>1. /\ inflight' = inflight /\ guard' = guard /\ pending' = pending /\ panics'.total = panics.total
      /\ phase' # "idle"
  <2>1. ASSUME NEW seeds, NEW b, Start(seeds, b) PROVE panics'.total = panics.total
    <3>1. panics' = [panics EXCEPT !.finds = {}] /\ panics \in [finds: SUBSET Contact, total: 0 .. MaxPanics]
      BY <2>1 DEF Start, TypeOK
    <3> QED
      BY <3>1
  <2>2. CASE Harvest \/ Refill \/ Wait \/ Jumped \/ Tick
    BY <2>2 DEF Harvest, Refill, Wait, Jumped, Tick, historyVars
  <2>3. CASE \E seeds, b : Start(seeds, b)
    <3>1. PICK seeds, b : Start(seeds, b)
      BY <2>3
    <3>2. panics'.total = panics.total
      BY <2>1, <3>1
    <3>3. inflight' = inflight /\ guard' = guard /\ pending' = pending /\ phase' = "top"
      BY <3>1 DEF Start
    <3> QED
      BY <3>2, <3>3
  <2> QED
    BY <2>2, <2>3
<1>2. NoSend'
  BY <1>0, <1>1 DEF Places, NoSend, Harvest, Refill, Wait, Jumped, Tick, Start
<1>3. phase' \in {"top", "select"} => queue' = <<>>
  BY <1>0 DEF Places, Harvest, Refill, Wait, Jumped, Tick, Start
<1>4. Places'
  BY <1>1, <1>2, <1>3, PlacesQuiet
<1>5. Numbers'
  BY <1>0, <1>1 DEF Numbers, Seqs, PendingSeqs
<1>6. FindTasks' = FindTasks
  BY <1>1 DEF FindTasks, Tasks
<1>7. CASE Refill
  <2>0. /\ phase' = "finds" /\ finds_inflight' = finds_inflight /\ phase # "idle" /\ panics' = panics
        /\ queue' = InOrder(Refillable(Minus(Alpha, finds_inflight)))
    BY <1>7 DEF Refill, historyVars
  <2>1. finds_inflight \in Nat /\ Alpha \in Nat /\ Minus(Alpha, finds_inflight) \in Nat
    <3>1. finds_inflight \in Nat /\ Alpha \in Nat
      BY LookupAssumption DEF TypeOK
    <3> QED
      BY <3>1 DEF Minus
  <2>2. PICK out : out = Refillable(Minus(Alpha, finds_inflight))
    OBVIOUS
  <2>3. /\ out \in SUBSET possible /\ Cardinality(out) \in Nat
        /\ Cardinality(out) <= Minus(Alpha, finds_inflight)
    BY <2>1, <2>2, RefillIsTyped
  <2>4. Len(queue') = Cardinality(out)
    <3>1. out \in SUBSET Contact
      BY <2>3 DEF TypeOK
    <3> QED
      BY <2>0, <2>2, <3>1, OrderIsTyped
  <2>5. finds_inflight' + Len(queue') + 0 <= Alpha
    <3>1. finds_inflight <= Alpha
      BY <1>0 DEF Counts
    <3> QED
      BY <2>0, <2>1, <2>3, <2>4, <3>1 DEF Minus
  <2>6. finds_inflight' + Len(queue') + (IF NoSend' THEN 0 ELSE 1) <= Alpha
    BY <1>2, <2>5
  <2>7. Counts'
    BY <1>0, <1>6, <2>0, <2>6 DEF Counts
  <2> QED
    BY <1>4, <1>5, <2>7 DEF Requests
<1>8. CASE Harvest \/ Wait \/ Jumped \/ Tick
  <2>1. /\ phase # "idle" /\ phase' \notin {"finds", "jump"} /\ finds_inflight' = finds_inflight /\ panics' = panics
    BY <1>8 DEF Harvest, Wait, Jumped, Tick, historyVars
  <2>2. Counts'
    BY <1>0, <1>6, <2>1, CountsSame
  <2> QED
    BY <1>4, <1>5, <2>2 DEF Requests
<1>9. CASE \E seeds, b : Start(seeds, b)
  <2>1. phase = "idle" /\ phase' = "top" /\ finds_inflight' = 0
    BY <1>9 DEF Start
  <2>2. FindTasks' = {}
    BY <1>0, <1>1, <2>1 DEF Places, FindTasks, Tasks
  <2>3. Cardinality(FindTasks') = 0
    BY <2>2, FS_EmptySet
  <2>4. panics'.total \in Nat /\ Alpha \in Nat
    BY LookupAssumption DEF TypeOK
  <2>5. /\ finds_inflight' <= Alpha /\ finds_inflight' <= Cardinality(FindTasks')
        /\ Cardinality(FindTasks') <= finds_inflight' + panics'.total
    BY <2>1, <2>3, <2>4
  <2>6. Counts'
    BY <2>1, <2>5 DEF Counts
  <2> QED
    BY <1>4, <1>5, <2>6 DEF Requests
<1> QED
  BY <1>7, <1>8, <1>9

\* Every step keeps what is known of the requests.
LEMMA RequestsStep ==
    ASSUME TypeOK, TypeOK', Requests, [Next]_vars
    PROVE  Requests'
<1>1. CASE UNCHANGED vars
  BY <1>1 DEF vars, searchVars, historyVars, Requests, Places, Numbers, Counts, NoSend, Tasks, FindTasks,
              SendKind, Seqs, PendingSeqs
<1>2. CASE Next
  BY <1>2, RequestsBegin, RequestsSent, RequestsSendFailed, RequestsExpire, RequestsDatagram,
     RequestsJoined, RequestsPanicked, RequestsDropped, RequestsQuiet
     DEF Next, Driver, Join, JoinAnswered, ReadLoop
<1> QED
  BY <1>1, <1>2

-----------------------------------------------------------------------------
(* The search, step by step *)

Search == Finds /\ Values /\ Once /\ Walked /\ NoLimbo /\ ClosestFirst /\ Owed /\ NothingStranded

\* Sets the invariant counts are finite.
LEMMA SetsAreFinite ==
    ASSUME TypeOK
    PROVE  /\ IsFiniteSet(tried) /\ Cardinality(tried) \in Nat
           /\ AskOrAsked \in SUBSET Contact /\ IsFiniteSet(AskOrAsked) /\ Cardinality(AskOrAsked) \in Nat
           /\ find_budget \in Nat /\ value_budget \in Nat /\ FindBudget \in Nat /\ ValueBudget \in Nat
<1>1. tried \in SUBSET Contact
  BY DEF TypeOK
<1>2. Queued \in SUBSET Contact
  BY DEF TypeOK, Queued
<1>3. AskOrAsked \in SUBSET Contact
  BY <1>2 DEF AskOrAsked, Asked
<1>4. find_budget \in Nat /\ value_budget \in Nat /\ FindBudget \in Nat /\ ValueBudget \in Nat
  BY LookupAssumption DEF TypeOK
<1> QED
  BY <1>1, <1>3, <1>4, ContactsFinite

\* Fewer values to ask fit the same budget.
LEMMA ValuesShrink ==
    ASSUME TypeOK, Values, value_budget' = value_budget, AskOrAsked' \in SUBSET AskOrAsked
    PROVE  Cardinality(AskOrAsked') + value_budget' <= ValueBudget
<1>1. /\ IsFiniteSet(AskOrAsked) /\ value_budget \in Nat /\ ValueBudget \in Nat
  BY SetsAreFinite
<1>2. /\ Cardinality(AskOrAsked') \in Nat /\ Cardinality(AskOrAsked) \in Nat
      /\ Cardinality(AskOrAsked') <= Cardinality(AskOrAsked)
  BY <1>1, CountSubset
<1>3. Cardinality(AskOrAsked) + value_budget <= ValueBudget
  BY DEF Values
<1> QED
  BY <1>1, <1>2, <1>3

\* Requests move on, are withdrawn or end in silence; the search learns of no
\* contact.
LEMMA SearchGoesOn ==
    ASSUME TypeOK, Search, phase # "idle", phase' # "idle",
           UNCHANGED <<possible, tried, responded, find_budget, value_budget, sent, exhausted>>,
           failed \subseteq failed', panics.finds \subseteq panics'.finds,
           \/ phase' = phase /\ queue' = queue
           \/ phase' \in {"top", "select"} /\ queue' = <<>> /\ queue = <<>>,
           \A q \in inflight' : \E t \in inflight : t.kind = q.kind /\ t.to = q.to,
           \A q \in inflight : q.kind = "find" =>
              \/ q.to \in failed' \cup panics'.finds
              \/ \E t \in inflight' : t.kind = "find" /\ t.to = q.to,
           phase' = "asks" => failed' = failed,
           phase' = "finds" => unsent' \/ ((unsent => unsent') /\ (inflight # {} => inflight' # {}))
    PROVE  Search'
<1>0. Finds /\ Values /\ Once /\ Walked /\ NoLimbo /\ ClosestFirst /\ Owed /\ NothingStranded
  BY DEF Search
<1>1. \A k : Asked(k)' = Asked(k)
  BY DEF Asked
<1>2. Queued' = Queued
  BY DEF Queued
<1>3. Finds'
  <2>1. Cardinality(tried') + find_budget' <= FindBudget /\ Asked("find")' \subseteq tried'
    BY <1>0, <1>1 DEF Finds
  <2>2. \A q \in inflight' : q.kind = "find" => q.to \in tried'
    <3> SUFFICES ASSUME NEW q \in inflight', q.kind = "find" PROVE q.to \in tried
      OBVIOUS
    <3>1. PICK t \in inflight : t.kind = q.kind /\ t.to = q.to
      OBVIOUS
    <3> QED
      BY <1>0, <3>1 DEF Finds
  <2>3. phase' \in {"finds", "jump"} => Queued' \subseteq tried' \ Asked("find")'
    BY <1>0, <1>1, <1>2 DEF Finds
  <2> QED
    BY <2>1, <2>2, <2>3 DEF Finds
<1>4. Values'
  <2>1. AskOrAsked' \in SUBSET AskOrAsked
    BY <1>1, <1>2 DEF AskOrAsked
  <2>2. Cardinality(AskOrAsked') + value_budget' <= ValueBudget
    BY <1>0, <2>1, ValuesShrink
  <2>3. AskOrAsked' \subseteq tried' \ possible'
    BY <1>0, <2>1 DEF Values
  <2>4. phase' = "asks" => Queued' \cap Asked("value")' = {}
    BY <1>0, <1>1, <1>2 DEF Values
  <2> QED
    BY <2>2, <2>3, <2>4 DEF Values
<1>5. Once'
  BY <1>0 DEF Once
<1>6. Walked'
  BY <1>0 DEF Walked
<1>7. NoLimbo'
  <2> SUFFICES ASSUME NEW c \in tried
               PROVE  \/ c \in responded' \cup failed' \cup panics'.finds
                      \/ phase' \in {"finds", "jump"} /\ \E i \in DOMAIN queue' : queue'[i] = c
                      \/ \E r \in inflight' : r.kind = "find" /\ r.to = c
    BY DEF NoLimbo
  <2>1. \/ c \in responded \cup failed \cup panics.finds
        \/ phase \in {"finds", "jump"} /\ \E i \in DOMAIN queue : queue[i] = c
        \/ \E r \in inflight : r.kind = "find" /\ r.to = c
    BY <1>0 DEF NoLimbo
  <2>2. CASE c \in responded \cup failed \cup panics.finds
    BY <2>2
  <2>3. CASE phase \in {"finds", "jump"} /\ \E i \in DOMAIN queue : queue[i] = c
    <3>1. queue # <<>>
      BY <2>3
    <3> QED
      BY <2>3, <3>1
  <2>4. CASE \E r \in inflight : r.kind = "find" /\ r.to = c
    BY <2>4
  <2> QED
    BY <2>1, <2>2, <2>3, <2>4
<1>8. ClosestFirst'
  BY <1>0 DEF ClosestFirst
<1>9. Owed'
  <2>1. phase' # "idle" => ~exhausted'
    BY <1>0 DEF Owed
  <2>2. ASSUME phase' = "asks", possible' # {}
        PROVE  \E c \in possible' : WalkStops(c)' /\ \A d \in possible' : c <= d
    <3>1. PICK c \in possible : WalkStops(c) /\ \A d \in possible : c <= d
      BY <1>0, <2>2 DEF Owed
    <3>2. WalkStops(c)' <=> WalkStops(c)
      BY <2>2 DEF WalkStops
    <3> QED
      BY <3>1, <3>2
  <2>3. phase' = "finds" /\ possible' # {} => unsent' \/ queue' # <<>> \/ inflight' # {} \/ panics'.finds # {}
    BY <1>0 DEF Owed
  <2> QED
    BY <2>1, <2>2, <2>3 DEF Owed
<1>10. NothingStranded'
  BY DEF NothingStranded
<1> QED
  BY <1>3, <1>4, <1>5, <1>6, <1>7, <1>8, <1>9, <1>10 DEF Search

\* The lookup ends: one that is exhausted owes its candidates nothing.
LEMMA SearchDropped ==
    ASSUME TypeOK, Requests, Search, EndWithEnough \/ EndExhausted \/ Cancel,
           phase' = "idle", inflight' = {}, queue' = <<>>
    PROVE  Search'
<1>0. Finds /\ Values /\ Once /\ Walked /\ NoLimbo /\ ClosestFirst /\ Owed /\ NothingStranded
  BY DEF Search
<1>1. UNCHANGED <<possible, tried, responded, failed, find_budget, value_budget, sent, panics, unsent>>
  BY DEF EndWithEnough, EndExhausted, Cancel, searchVars, historyVars
<1>2. phase # "idle"
  BY DEF EndWithEnough, EndExhausted, Cancel, Requests, Places
<1>3. \A k : Asked(k)' = Asked(k)
  BY <1>1 DEF Asked
<1>4. Finds'
  BY <1>0, <1>1, <1>3 DEF Finds
<1>5. Values'
  <2>1. AskOrAsked' \in SUBSET AskOrAsked
    BY <1>3 DEF AskOrAsked
  <2>2. Cardinality(AskOrAsked') + value_budget' <= ValueBudget
    BY <1>0, <1>1, <2>1, ValuesShrink
  <2> QED
    BY <1>0, <1>1, <2>1, <2>2 DEF Values
<1>6. Once'
  <2>1. DOMAIN queue' = {}
    OBVIOUS
  <2> QED
    BY <1>0, <1>1, <2>1 DEF Once
<1>7. Walked'
  BY <1>0, <1>1 DEF Walked
<1>8. NoLimbo' /\ ClosestFirst' /\ Owed'
  BY DEF NoLimbo, ClosestFirst, Owed
<1>9. NothingStranded'
  <2>1. CASE EndExhausted
    <3>1. phase = "finds" /\ queue = <<>> /\ inflight = {}
      BY <2>1 DEF EndExhausted
    <3>2. possible # {} => unsent \/ panics.finds # {}
      BY <1>0, <3>1 DEF Owed
    <3> QED
      BY <1>1, <3>2 DEF NothingStranded
  <2>2. CASE EndWithEnough \/ Cancel
    <3>1. exhausted' = exhausted
      BY <2>2 DEF EndWithEnough, Cancel, historyVars
    <3>2. ~exhausted
      BY <1>0, <1>2 DEF Owed
    <3> QED
      BY <3>1, <3>2 DEF NothingStranded
  <2> QED
    BY <2>1, <2>2
<1> QED
  BY <1>4, <1>5, <1>6, <1>7, <1>8, <1>9 DEF Search

\* A request moves on.
LEMMA SearchSwap ==
    ASSUME TypeOK, Requests, Search, NEW r, NEW s, Swapped(r, s), phase' = phase, queue' = queue,
           UNCHANGED <<searchVars, sent, historyVars>>
    PROVE  Search'
<1>1. /\ inflight' = (inflight \ {r}) \cup {s} /\ r \in inflight /\ s.kind = r.kind /\ s.to = r.to
  BY DEF Swapped
<1>2. phase # "idle"
  BY <1>1 DEF Requests, Places
<1>3. UNCHANGED <<possible, tried, responded, failed, find_budget, value_budget, sent, exhausted, panics, unsent>>
  BY DEF searchVars, historyVars
<1>4. \A q \in inflight' : \E t \in inflight : t.kind = q.kind /\ t.to = q.to
  BY <1>1
<1>5. \A q \in inflight : \E t \in inflight' : t.kind = q.kind /\ t.to = q.to
  BY <1>1
<1>6. inflight' # {}
  BY <1>1
<1> QED
  BY <1>2, <1>3, <1>4, <1>5, <1>6, SearchGoesOn

\* Sends, deadlines and datagrams.
LEMMA SearchMoves ==
    ASSUME TypeOK, Requests, Search,
           \/ \E r \in inflight : Sent(r) \/ Expire(r)
           \/ \E c \in Contact, k \in Kind, e \in BOOLEAN : Datagram(c, k, e)
    PROVE  Search'
<1>1. CASE \E r \in inflight : Sent(r) \/ Expire(r)
  <2>1. PICK r \in inflight : Sent(r) \/ Expire(r)
    BY <1>1
  <2>2. \E s : Swapped(r, s)
    BY <2>1, SentDoes, ExpireDoes
  <2>3. phase' = phase /\ queue' = queue /\ UNCHANGED <<searchVars, sent, historyVars>>
    BY <2>1 DEF Sent, Expire
  <2> QED
    BY <2>2, <2>3, SearchSwap
<1>2. CASE \E c \in Contact, k \in Kind, e \in BOOLEAN : Datagram(c, k, e)
  <2>1. PICK c \in Contact, k \in Kind, e \in BOOLEAN : Datagram(c, k, e)
    BY <1>2
  <2>2. Numbers
    BY DEF Requests
  <2>3. inflight' = inflight \/ \E r, s : Swapped(r, s)
    BY <2>1, <2>2, DatagramDoes
  <2>4. phase' = phase /\ queue' = queue /\ UNCHANGED <<searchVars, sent, historyVars>>
    BY <2>1 DEF Datagram
  <2>5. CASE inflight' = inflight
    <3>1. pending # {}
      BY <2>1 DEF Datagram, SameHost
    <3>2. phase # "idle"
      BY <3>1 DEF Requests, Places
    <3>3. UNCHANGED <<possible, tried, responded, failed, find_budget, value_budget, sent, exhausted, panics, unsent>>
      BY <2>4 DEF searchVars, historyVars
    <3> QED
      BY <2>4, <2>5, <3>2, <3>3, SearchGoesOn
  <2> QED
    BY <2>3, <2>4, <2>5, SearchSwap
<1> QED
  BY <1>1, <1>2

\* A request ends without news.
LEMMA SearchSilence ==
    ASSUME TypeOK, Requests, Search, NEW r \in inflight,
           \/ SendFailed(r) \/ JoinUnusable(r) \/ JoinExpired(r) \/ JoinPanicked(r)
           \/ \E n : JoinValue(r, n)
    PROVE  Search'
<1>0. phase # "idle" /\ inflight' = inflight \ {r}
  <2>1. phase # "idle"
    BY DEF Requests, Places
  <2> QED
    BY <2>1 DEF SendFailed, JoinUnusable, JoinExpired, JoinPanicked, JoinValue
<1>1. UNCHANGED <<possible, tried, responded, find_budget, value_budget, sent, exhausted>>
  BY DEF SendFailed, JoinUnusable, JoinExpired, JoinPanicked, JoinValue, searchVars, historyVars
<1>2. failed \subseteq failed' /\ panics.finds \subseteq panics'.finds
  BY DEF SendFailed, JoinUnusable, JoinExpired, JoinPanicked, JoinValue, searchVars, historyVars, OnTimeout
<1>3. r.kind = "find" => r.to \in tried
  BY DEF Search, Finds
<1>4. r.kind = "find" => r.to \in failed' \cup panics'.finds
  BY <1>3 DEF SendFailed, JoinUnusable, JoinExpired, JoinPanicked, JoinValue, OnTimeout
<1>5. \A q \in inflight : q.kind = "find" =>
         q.to \in failed' \cup panics'.finds \/ \E t \in inflight' : t.kind = "find" /\ t.to = q.to
  BY <1>0, <1>4
<1>6. \A q \in inflight' : \E t \in inflight : t.kind = q.kind /\ t.to = q.to
  BY <1>0
<1>7. CASE SendFailed(r)
  <2>1. phase' = phase /\ queue' = queue /\ unsent' = (unsent \/ phase # "asks") /\ r.st \in {"sending", "early"}
    BY <1>7 DEF SendFailed
  <2>2. r.kind = SendKind
    BY <2>1, SendingIs DEF Requests
  <2>3. phase' = "asks" => failed' = failed
    BY <1>7, <2>1, <2>2 DEF SendFailed, SendKind
  <2> QED
    BY <1>0, <1>1, <1>2, <1>5, <1>6, <2>1, <2>3, SearchGoesOn
<1>8. CASE ~SendFailed(r)
  <2>1. phase = "select" /\ phase' = "top" /\ queue' = queue
    BY <1>8 DEF JoinUnusable, JoinExpired, JoinPanicked, JoinValue
  <2>2. queue = <<>>
    BY <2>1 DEF Requests, Places
  <2> QED
    BY <1>0, <1>1, <1>2, <1>5, <1>6, <2>1, <2>2, SearchGoesOn
<1> QED
  BY <1>7, <1>8

\* The driver waits, ticks or goes back to the top.
LEMMA SearchWaits ==
    ASSUME TypeOK, Requests, Search, Wait \/ Jumped \/ Tick
    PROVE  Search'
<1>1. phase # "idle" /\ phase' \in {"top", "select"} /\ queue' = queue /\ inflight' = inflight
  BY DEF Wait, Jumped, Tick
<1>2. queue = <<>>
  BY DEF Wait, Jumped, Tick, Requests, Places
<1>3. UNCHANGED <<possible, tried, responded, failed, find_budget, value_budget, sent, exhausted, panics, unsent>>
  BY DEF Wait, Jumped, Tick, searchVars, historyVars
<1> QED
  BY <1>1, <1>2, <1>3, SearchGoesOn

\* A new lookup starts from nothing.
LEMMA SearchStarts ==
    ASSUME TypeOK, Requests, NEW seeds, NEW b, Start(seeds, b)
    PROVE  Search'
<1>1. queue' = <<>> /\ inflight' = {}
  BY DEF Start, Requests, Places
<1>2. /\ tried' = {} /\ find_budget' = FindBudget /\ phase' = "top" /\ value_budget' = (IF b THEN 0 ELSE ValueBudget)
      /\ sent' = [k \in Kind \X Contact |-> 0] /\ exhausted' = FALSE
  BY DEF Start
<1>3. \A k \in Kind : Asked(k)' = {}
  BY <1>2 DEF Asked
<1>4. AskOrAsked' = {} /\ Asked("find")' = {}
  BY <1>2, <1>3 DEF AskOrAsked, Kind
<1>5. Cardinality({}) = 0 /\ FindBudget \in Nat /\ ValueBudget \in Nat
  BY FS_EmptySet, LookupAssumption
<1>6. Finds'
  BY <1>1, <1>2, <1>4, <1>5 DEF Finds
<1>7. Values'
  BY <1>2, <1>4, <1>5 DEF Values
<1>8. Once'
  <2>1. DOMAIN queue' = {}
    BY <1>1
  <2> QED
    BY <1>2, <2>1 DEF Once
<1>9. Walked' /\ NoLimbo' /\ ClosestFirst' /\ Owed' /\ NothingStranded'
  BY <1>2 DEF Walked, NoLimbo, ClosestFirst, Owed, NothingStranded
<1> QED
  BY <1>6, <1>7, <1>8, <1>9 DEF Search

\* The first of a queue without repetitions goes; the others stay.
LEMMA QueueTail ==
    ASSUME queue \in Seq(Contact), queue # <<>>, queue' = Tail(queue),
           \A i, j \in DOMAIN queue : queue[i] = queue[j] => i = j
    PROVE  /\ Head(queue) \in Queued /\ Head(queue) \in Contact
           /\ Queued' = Queued \ {Head(queue)}
           /\ \A i, j \in DOMAIN queue' : queue'[i] = queue'[j] => i = j
           /\ \A i \in DOMAIN queue' : i + 1 \in DOMAIN queue /\ queue'[i] = queue[i + 1]
<1>1. PICK n \in Nat : DOMAIN queue = 1 .. n /\ n = Len(queue) /\ n > 0
  OBVIOUS
<1>2. DOMAIN queue' = 1 .. (n - 1) /\ \A i \in 1 .. (n - 1) : queue'[i] = queue[i + 1]
  BY <1>1
<1>3. Head(queue) = queue[1] /\ 1 \in DOMAIN queue /\ Head(queue) \in Contact
  BY <1>1
<1>4. \A i \in 1 .. (n - 1) : i \in Nat /\ i + 1 \in 1 .. n /\ i + 1 # 1
  BY <1>1
<1>5. \A i \in 1 .. n : i # 1 => i - 1 \in 1 .. (n - 1) /\ (i - 1) + 1 = i
  BY <1>1
<1>6. ASSUME NEW c \in Queued' PROVE c \in Queued \ {Head(queue)}
  <2>1. PICK i \in 1 .. (n - 1) : c = queue'[i]
    BY <1>2 DEF Queued
  <2>2. c = queue[i + 1] /\ i + 1 \in 1 .. n /\ i + 1 # 1
    BY <1>2, <1>4, <2>1
  <2> QED
    BY <1>1, <1>3, <2>2 DEF Queued
<1>7. ASSUME NEW c \in Queued, c # Head(queue) PROVE c \in Queued'
  <2>1. PICK i \in 1 .. n : c = queue[i]
    BY <1>1 DEF Queued
  <2>2. i # 1
    BY <1>3, <1>7, <2>1
  <2>3. PICK j : j = i - 1
    OBVIOUS
  <2>4. j \in 1 .. (n - 1) /\ j + 1 = i
    BY <1>5, <2>2, <2>3
  <2>5. c = queue'[j] /\ j \in DOMAIN queue'
    BY <1>2, <2>1, <2>4
  <2> QED
    BY <2>5 DEF Queued
<1>8. ASSUME NEW i \in DOMAIN queue', NEW j \in DOMAIN queue', queue'[i] = queue'[j] PROVE i = j
  <2>1. queue[i + 1] = queue[j + 1] /\ i + 1 \in DOMAIN queue /\ j + 1 \in DOMAIN queue /\ i \in Nat /\ j \in Nat
    BY <1>1, <1>2, <1>4, <1>8
  <2>2. i + 1 = j + 1
    BY <2>1
  <2> QED
    BY <2>1, <2>2
<1>9. Head(queue) \in Queued
  BY <1>3 DEF Queued
<1>10. Queued' = Queued \ {Head(queue)}
  BY <1>6, <1>7
<1>11. \A i \in DOMAIN queue' : i + 1 \in DOMAIN queue /\ queue'[i] = queue[i + 1]
  BY <1>1, <1>2, <1>4
<1> QED
  BY <1>3, <1>8, <1>9, <1>10, <1>11

\* A request begins: its contact has not been asked this before.
LEMMA SearchBegins ==
    ASSUME TypeOK, Search, BeginRequest
    PROVE  Search'
<1>0. Finds /\ Values /\ Once /\ Walked /\ NoLimbo /\ ClosestFirst /\ Owed /\ NothingStranded
  BY DEF Search
<1>1. PICK h : h = Head(queue)
  OBVIOUS
<1>2. PICK s : s = [seq |-> FreshSeq, kind |-> SendKind, to |-> h, st |-> "sending"]
  OBVIOUS
<1>3. /\ phase \in {"asks", "finds", "jump"} /\ phase' = phase /\ queue # <<>> /\ queue' = Tail(queue)
      /\ inflight' = inflight \cup {s} /\ sent' = [sent EXCEPT ![<<SendKind, h>>] = @ + 1]
      /\ UNCHANGED <<possible, tried, responded, failed, find_budget, value_budget, exhausted, panics, unsent>>
  BY <1>1, <1>2 DEF BeginRequest, searchVars, historyVars
<1>4. s.kind = SendKind /\ s.to = h
  BY <1>2
<1>5. /\ h \in Queued /\ h \in Contact /\ Queued' = Queued \ {h}
      /\ \A i, j \in DOMAIN queue' : queue'[i] = queue'[j] => i = j
      /\ \A i \in DOMAIN queue' : i + 1 \in DOMAIN queue /\ queue'[i] = queue[i + 1]
  <2>1. queue \in Seq(Contact) /\ \A i, j \in DOMAIN queue : queue[i] = queue[j] => i = j
    BY <1>0 DEF TypeOK, Once
  <2> QED
    BY <1>1, <1>3, <2>1, QueueTail
<1>6. PICK k \in Kind : k = SendKind
  BY DEF SendKind, Kind
<1>7. h \notin Asked(k)
  BY <1>0, <1>3, <1>5, <1>6 DEF Finds, Values, SendKind
<1>8. sent \in [Kind \X Contact -> Nat]
  BY DEF TypeOK
<1>9. sent[<<k, h>>] = 0
  <2>1. sent[<<k, h>>] \in Nat /\ ~(sent[<<k, h>>] > 0)
    BY <1>5, <1>7, <1>8 DEF Asked
  <2> QED
    BY <2>1
<1>10. sent'[<<k, h>>] = 1 /\ \A x \in Kind \X Contact : x # <<k, h>> => sent'[x] = sent[x]
  BY <1>3, <1>5, <1>6, <1>8, <1>9
<1>11. Asked(k)' = Asked(k) \cup {h} /\ \A l \in Kind : l # k => Asked(l)' = Asked(l)
  <2>1. \A l \in Kind, c \in Contact : <<l, c>> # <<k, h>> => sent'[<<l, c>>] = sent[<<l, c>>]
    BY <1>10
  <2>2. ASSUME NEW c \in Contact PROVE c \in Asked(k)' <=> c \in Asked(k) \cup {h}
    <3>1. CASE c = h
      BY <1>10, <3>1 DEF Asked
    <3>2. CASE c # h
      BY <2>1, <3>2 DEF Asked
    <3> QED
      BY <3>1, <3>2
  <2>3. Asked(k)' \in SUBSET Contact /\ Asked(k) \in SUBSET Contact
    BY DEF Asked
  <2>4. Asked(k)' = Asked(k) \cup {h}
    BY <1>5, <2>2, <2>3
  <2>5. \A l \in Kind : l # k => Asked(l)' = Asked(l)
    BY <2>1 DEF Asked
  <2> QED
    BY <2>4, <2>5
<1>12. Finds'
  <2>1. Cardinality(tried') + find_budget' <= FindBudget
    BY <1>0, <1>3 DEF Finds
  <2>2. CASE phase \in {"finds", "jump"}
    <3>1. k = "find" /\ Asked("find")' = Asked("find") \cup {h} /\ Queued \subseteq tried \ Asked("find")
      BY <1>0, <1>6, <1>11, <2>2 DEF SendKind, Finds
    <3>2. Asked("find")' \subseteq tried' /\ Queued' \subseteq tried' \ Asked("find")'
      BY <1>0, <1>3, <1>5, <3>1 DEF Finds
    <3>3. \A q \in inflight' : q.kind = "find" => q.to \in tried'
      BY <1>0, <1>3, <1>4, <1>5, <3>1 DEF Finds
    <3> QED
      BY <2>1, <3>2, <3>3 DEF Finds
  <2>3. CASE phase = "asks"
    <3>1. k = "value" /\ Asked("find")' = Asked("find") /\ s.kind = "value"
      BY <1>4, <1>6, <1>11, <2>3 DEF SendKind, Kind
    <3>2. \A q \in inflight' : q.kind = "find" => q.to \in tried'
      BY <1>0, <1>3, <3>1 DEF Finds
    <3> QED
      BY <1>0, <1>3, <2>1, <2>3, <3>1, <3>2 DEF Finds
  <2> QED
    BY <1>3, <2>2, <2>3
<1>13. Values'
  <2>1. AskOrAsked' = AskOrAsked /\ (phase' = "asks" => Queued' \cap Asked("value")' = {})
    <3>1. CASE phase = "asks"
      <4>1. Asked("value")' = Asked("value") \cup {h}
        BY <1>6, <1>11, <3>1 DEF SendKind
      <4> QED
        BY <1>0, <1>3, <1>5, <3>1, <4>1 DEF AskOrAsked, Values
    <3>2. CASE phase # "asks"
      <4>1. Asked("value")' = Asked("value")
        BY <1>6, <1>11, <3>2 DEF SendKind, Kind
      <4> QED
        BY <1>3, <3>2, <4>1 DEF AskOrAsked
    <3> QED
      BY <3>1, <3>2
  <2> QED
    BY <1>0, <1>3, <2>1 DEF Values
<1>14. Once'
  <2>1. ASSUME NEW x \in Kind \X Contact PROVE sent'[x] <= 1
    <3>1. sent[x] <= 1
      BY <1>0 DEF Once
    <3>2. CASE x = <<k, h>>
      BY <1>10, <3>2
    <3>3. CASE x # <<k, h>>
      BY <1>10, <3>1, <3>3
    <3> QED
      BY <3>2, <3>3
  <2> QED
    BY <1>5, <2>1 DEF Once
<1>15. Walked'
  BY <1>0, <1>3 DEF Walked
<1>16. NoLimbo'
  <2> SUFFICES ASSUME NEW c \in tried
               PROVE  \/ c \in responded' \cup failed' \cup panics'.finds
                      \/ phase' \in {"finds", "jump"} /\ \E i \in DOMAIN queue' : queue'[i] = c
                      \/ \E r \in inflight' : r.kind = "find" /\ r.to = c
    BY <1>3 DEF NoLimbo
  <2>1. \/ c \in responded \cup failed \cup panics.finds
        \/ phase \in {"finds", "jump"} /\ \E i \in DOMAIN queue : queue[i] = c
        \/ \E r \in inflight : r.kind = "find" /\ r.to = c
    BY <1>0, <1>3 DEF NoLimbo
  <2>2. CASE phase \in {"finds", "jump"} /\ \E i \in DOMAIN queue : queue[i] = c
    <3>1. c \in Queued /\ s.kind = "find"
      BY <1>4, <2>2 DEF Queued, SendKind
    <3>2. CASE c = h
      BY <1>3, <1>4, <3>1, <3>2
    <3>3. CASE c # h
      <4>1. c \in Queued'
        BY <1>5, <3>1, <3>3
      <4> QED
        BY <1>3, <2>2, <4>1 DEF Queued
    <3> QED
      BY <3>2, <3>3
  <2>3. CASE c \in responded \cup failed \cup panics.finds
    BY <1>3, <2>3
  <2>4. CASE \E r \in inflight : r.kind = "find" /\ r.to = c
    BY <1>3, <2>4
  <2> QED
    BY <2>1, <2>2, <2>3, <2>4
<1>17. ClosestFirst'
  <2> SUFFICES ASSUME phase = "asks", NEW i \in DOMAIN queue'
               PROVE  /\ queue'[i] \in responded /\ queue'[i] <= Tolerance
                      /\ \A d \in tried : d < queue'[i] => d \in responded \cup failed
    BY <1>3 DEF ClosestFirst
  <2>1. PICK j \in DOMAIN queue : queue'[i] = queue[j]
    BY <1>5
  <2> QED
    BY <1>0, <2>1 DEF ClosestFirst
<1>18. Owed'
  <2>1. \A c : WalkStops(c)' <=> WalkStops(c)
    BY <1>3 DEF WalkStops
  <2> QED
    BY <1>0, <1>3, <2>1 DEF Owed
<1>19. NothingStranded'
  BY <1>3 DEF NothingStranded
<1> QED
  BY <1>12, <1>13, <1>14, <1>15, <1>16, <1>17, <1>18, <1>19 DEF Search

\* A set sent to in order is queued, each member once.
LEMMA OrderIsQueued ==
    ASSUME NEW S \in SUBSET Contact, queue' = InOrder(S)
    PROVE  /\ Queued' = S
           /\ \A i, j \in DOMAIN queue' : queue'[i] = queue'[j] => i = j
           /\ S # {} => queue' # <<>>
<1>1. S \in SUBSET Nat /\ IsFiniteSet(S) /\ Cardinality(S) \in Nat
  BY ContactsFinite
<1>2. /\ InOrder(S) \in [1 .. Cardinality(S) -> S]
      /\ \A c \in S : \E i \in 1 .. Cardinality(S) : InOrder(S)[i] = c
      /\ \A i, j \in 1 .. Cardinality(S) : InOrder(S)[i] = InOrder(S)[j] => i = j
  BY <1>1, OrderIsComplete
<1>3. PICK n : n = Cardinality(S)
  OBVIOUS
<1> HIDE DEF InOrder
<1>4. /\ DOMAIN queue' = 1 .. n /\ \A i \in 1 .. n : queue'[i] \in S
      /\ \A c \in S : \E i \in 1 .. n : queue'[i] = c
      /\ \A i, j \in 1 .. n : queue'[i] = queue'[j] => i = j
  BY <1>2, <1>3
<1>5. Queued' = S
  BY <1>4 DEF Queued
<1>6. S # {} => queue' # <<>>
  <2>1. queue' = <<>> => DOMAIN queue' = {}
    OBVIOUS
  <2> QED
    BY <1>4, <2>1
<1> QED
  BY <1>4, <1>5, <1>6

\* The walk: what it hands out is next, what is left begins with an entry to wait for.
LEMMA SearchHarvests ==
    ASSUME TypeOK, Requests, Search, Harvest
    PROVE  Search'
<1>0. Finds /\ Values /\ Once /\ Walked /\ NoLimbo /\ ClosestFirst /\ Owed /\ NothingStranded
  BY DEF Search
<1>1. /\ phase = "top" /\ phase' = "asks" /\ possible' = possible \ Consumed
      /\ value_budget' = value_budget - Cardinality(Harvested) /\ queue' = InOrder(Harvested)
      /\ UNCHANGED <<tried, responded, failed, find_budget, inflight, sent, panics, exhausted>>
  BY DEF Harvest
<1>2. /\ Harvested \in SUBSET Consumed /\ Consumed \in SUBSET possible
      /\ Harvested \in SUBSET {c \in Contact : c \in tried /\ c \in responded /\ c <= Tolerance}
      /\ IsFiniteSet(Harvested) /\ Cardinality(Harvested) \in Nat
      /\ Cardinality(Harvested) <= value_budget
  BY HarvestIsTyped
<1>3. Harvested \in SUBSET Contact
  BY <1>2
<1>4. /\ Queued' = Harvested /\ \A i, j \in DOMAIN queue' : queue'[i] = queue'[j] => i = j
  BY <1>1, <1>3, OrderIsQueued
<1>5. \A k : Asked(k)' = Asked(k)
  BY <1>1 DEF Asked
<1>6. \A c \in Consumed : \A d \in possible : d <= c => ~WalkStops(d)
  BY DEF Consumed
<1>7. \A c : c \in tried /\ ~WalkStops(c) => c \in responded \cup failed
  BY DEF WalkStops
<1>8. possible \in SUBSET Nat /\ tried \in SUBSET Nat
  BY LookupAssumption DEF TypeOK, Contact
<1>9. Finds'
  BY <1>0, <1>1, <1>5 DEF Finds
<1>10. Values'
  <2>1. AskOrAsked = Asked("value") /\ AskOrAsked' = Asked("value") \cup Harvested
    BY <1>1, <1>4, <1>5 DEF AskOrAsked
  <2>2. Asked("value") \subseteq tried \ possible
    BY <1>0, <2>1 DEF Values
  <2>3. AskOrAsked' \subseteq tried' \ possible' /\ Harvested \cap Asked("value") = {}
    BY <1>1, <1>2, <2>1, <2>2
  <2>4. IsFiniteSet(Asked("value")) /\ Cardinality(Asked("value")) \in Nat /\ value_budget \in Nat /\ ValueBudget \in Nat
    BY <2>1, SetsAreFinite
  <2>5. Cardinality(Asked("value") \cup Harvested) = Cardinality(Asked("value")) + Cardinality(Harvested) - Cardinality(Asked("value") \cap Harvested)
    BY <1>2, <2>4, FS_Union
  <2>6. Cardinality(Asked("value") \cap Harvested) = 0
    <3>1. Asked("value") \cap Harvested = {}
      BY <2>3
    <3> QED
      BY <3>1, FS_EmptySet
  <2>7. Cardinality(Asked("value")) + value_budget <= ValueBudget
    BY <1>0, <2>1 DEF Values
  <2>8. PICK m : m = Cardinality(Harvested)
    OBVIOUS
  <2>9. PICK n : n = Cardinality(Asked("value"))
    OBVIOUS
  <2>10. /\ m \in Nat /\ n \in Nat /\ value_budget \in Nat /\ m <= value_budget /\ n + value_budget <= ValueBudget
         /\ ValueBudget \in Nat /\ Cardinality(AskOrAsked') = n + m - 0 /\ value_budget' = value_budget - m
    BY <1>1, <1>2, <2>1, <2>4, <2>5, <2>6, <2>7, <2>8, <2>9
  <2>11. Cardinality(AskOrAsked') + value_budget' <= ValueBudget
    BY <2>10
  <2>12. Queued' \cap Asked("value")' = {}
    BY <1>4, <1>5, <2>3
  <2> QED
    BY <2>3, <2>11, <2>12 DEF Values
<1>11. Once'
  BY <1>0, <1>1, <1>4 DEF Once
<1>12. Walked'
  <2> SUFFICES ASSUME NEW c \in tried, c \notin possible' PROVE c \in responded \cup failed
    BY <1>1 DEF Walked
  <2>1. CASE c \notin possible
    BY <1>0, <2>1 DEF Walked
  <2>2. CASE c \in Consumed
    <3>1. c \in possible /\ c <= c
      BY <1>2, <1>8, <2>2
    <3> QED
      BY <1>6, <1>7, <2>2, <3>1
  <2> QED
    BY <1>1, <2>1, <2>2
<1>13. NoLimbo'
  <2> SUFFICES ASSUME NEW c \in tried
               PROVE  \/ c \in responded \cup failed \cup panics.finds
                      \/ \E r \in inflight : r.kind = "find" /\ r.to = c
    BY <1>1 DEF NoLimbo
  <2> QED
    BY <1>0, <1>1 DEF NoLimbo
<1>14. ClosestFirst'
  <2> SUFFICES ASSUME NEW i \in DOMAIN queue'
               PROVE  /\ queue'[i] \in responded /\ queue'[i] <= Tolerance
                      /\ \A d \in tried : d < queue'[i] => d \in responded \cup failed
    BY <1>1 DEF ClosestFirst
  <2>1. PICK c : c = queue'[i]
    OBVIOUS
  <2>2. c \in Harvested /\ c \in Consumed /\ c \in responded /\ c <= Tolerance
    <3>1. c \in Queued'
      BY <2>1 DEF Queued
    <3> QED
      BY <1>2, <1>4, <3>1
  <2>3. ASSUME NEW d \in tried, d < c PROVE d \in responded \cup failed
    <3>1. CASE d \notin possible
      BY <1>0, <3>1 DEF Walked
    <3>2. CASE d \in possible
      <4>1. d <= c
        BY <1>2, <1>8, <2>2, <2>3, <3>2
      <4> QED
        BY <1>6, <1>7, <2>2, <3>2, <4>1
    <3> QED
      BY <3>1, <3>2
  <2> QED
    BY <2>1, <2>2, <2>3
<1>15. Owed'
  <2>1. \A c : WalkStops(c)' <=> WalkStops(c)
    BY <1>1 DEF WalkStops
  <2>2. ASSUME possible' # {} PROVE \E c \in possible' : WalkStops(c) /\ \A d \in possible' : c <= d
    <3>1. possible' \in SUBSET Nat
      BY <1>1, <1>8
    <3>2. PICK c \in possible' : \A d \in possible' : c <= d
      BY <2>2, <3>1, LeastNat
    <3>3. c \in possible /\ c \notin Consumed
      BY <1>1, <3>2
    <3>4. PICK d \in possible : d <= c /\ WalkStops(d)
      BY <3>3 DEF Consumed
    <3>5. d \notin Consumed
      <4>1. d <= d
        BY <1>8, <3>4
      <4> QED
        BY <1>6, <3>4, <4>1
    <3>6. d \in possible' /\ c <= d
      BY <1>1, <3>2, <3>4, <3>5
    <3>7. c = d
      BY <1>8, <3>3, <3>4, <3>6
    <3> QED
      BY <3>2, <3>4, <3>7
  <2>3. ~exhausted'
    BY <1>0, <1>1 DEF Owed
  <2> HIDE DEF WalkStops
  <2> QED
    BY <1>1, <2>1, <2>2, <2>3 DEF Owed
<1>16. NothingStranded'
  BY <1>1 DEF NothingStranded
<1> QED
  BY <1>9, <1>10, <1>11, <1>12, <1>13, <1>14, <1>15, <1>16 DEF Search

\* Contacts marked tried are paid for.
LEMMA BudgetHolds ==
    ASSUME TypeOK, TypeOK', Finds, NEW new \in SUBSET Contact, tried' = tried \cup new,
           NEW n \in Nat, Cardinality(new) <= n, n <= find_budget, find_budget' = find_budget - n
    PROVE  Cardinality(tried') + find_budget' <= FindBudget
<1>1. IsFiniteSet(tried) /\ Cardinality(tried) \in Nat /\ find_budget \in Nat /\ FindBudget \in Nat
  BY SetsAreFinite
<1>2. IsFiniteSet(new) /\ Cardinality(new) \in Nat
  BY ContactsFinite
<1>3. Cardinality(tried \cup new) = Cardinality(tried) + Cardinality(new) - Cardinality(tried \cap new)
  BY <1>1, <1>2, FS_Union
<1>4. Cardinality(tried \cap new) \in Nat /\ Cardinality(tried \cup new) \in Nat
  <2>1. tried \cap new \in SUBSET Contact /\ tried \cup new \in SUBSET Contact
    BY DEF TypeOK
  <2> QED
    BY <2>1, ContactsFinite
<1>5. Cardinality(tried) + find_budget <= FindBudget
  BY DEF Finds
<1> QED
  BY <1>1, <1>2, <1>3, <1>4, <1>5

\* With nothing in flight and nobody lost to a panic, the closest candidate left is
\* asked now.
LEMMA RefillAsks ==
    ASSUME TypeOK, Requests, Search, phase = "asks", possible # {}, inflight = {}, panics.finds = {}
    PROVE  Refillable(Minus(Alpha, finds_inflight)) # {}
<1>0. Places /\ Numbers /\ Counts /\ NoLimbo /\ Owed
  BY DEF Requests, Search
<1>1. PICK c \in possible : WalkStops(c) /\ \A d \in possible : c <= d
  BY <1>0 DEF Owed
<1>2. c \notin tried /\ find_budget > 0
  <2>1. c \in tried => c \in responded \cup failed
    BY <1>0 DEF NoLimbo
  <2> QED
    BY <1>1, <2>1 DEF WalkStops
<1>3. finds_inflight = 0
  <2>1. Cardinality(FindTasks) = 0
    <3>1. FindTasks = {}
      BY DEF FindTasks, Tasks
    <3> QED
      BY <3>1, FS_EmptySet
  <2>2. finds_inflight <= Cardinality(FindTasks) /\ finds_inflight \in Nat
    BY <1>0 DEF Counts, TypeOK
  <2> QED
    BY <2>1, <2>2
<1>4. PICK n : n = Least(Minus(Alpha, finds_inflight), find_budget)
  OBVIOUS
<1>5. n \in Nat /\ n > 0
  BY <1>2, <1>3, <1>4, LookupAssumption DEF Least, Minus, TypeOK
<1>6. possible \in SUBSET Nat /\ FrontierSize \in Nat /\ FrontierSize > 0
  BY LookupAssumption DEF TypeOK, Contact
<1>7. c \in Closest(possible, FrontierSize)
  BY <1>1, <1>6, ClosestHasTheFirst
<1>8. PICK near : near = Closest(possible, FrontierSize) \ tried
  OBVIOUS
<1>9. near \in SUBSET possible /\ c \in near
  BY <1>2, <1>7, <1>8 DEF Closest
<1>10. c \in Closest(near, n)
  <2>1. near \in SUBSET Nat /\ \A d \in near : c <= d
    BY <1>1, <1>6, <1>9
  <2> QED
    BY <1>5, <1>9, <2>1, ClosestHasTheFirst
<1> QED
  BY <1>4, <1>8, <1>10 DEF Refillable

\* The refill: whoever it asks was untried.
LEMMA SearchRefills ==
    ASSUME TypeOK, TypeOK', Requests, Search, Refill
    PROVE  Search'
<1>0. Finds /\ Values /\ Once /\ Walked /\ NoLimbo /\ ClosestFirst /\ Owed /\ NothingStranded
  BY DEF Search
<1>a. Minus(Alpha, finds_inflight) \in Nat
  BY LookupAssumption DEF TypeOK, Minus
<1>b. PICK out : out = Refillable(Minus(Alpha, finds_inflight))
  OBVIOUS
<1>1. /\ phase = "asks" /\ phase' = "finds" /\ queue = <<>> /\ queue' = InOrder(out)
      /\ tried' = tried \cup out /\ find_budget' = find_budget - Cardinality(out)
      /\ UNCHANGED <<possible, responded, failed, value_budget, inflight, sent, panics, unsent, exhausted>>
  BY <1>b DEF Refill, historyVars
<1>2. /\ out \in SUBSET (possible \ tried) /\ Cardinality(out) \in Nat /\ Cardinality(out) <= find_budget
  BY <1>a, <1>b, RefillIsTyped
<1>3. out \in SUBSET Contact
  BY <1>2 DEF TypeOK
<1>4. /\ Queued' = out /\ \A i, j \in DOMAIN queue' : queue'[i] = queue'[j] => i = j
      /\ out # {} => queue' # <<>>
  BY <1>1, <1>3, OrderIsQueued
<1>5. \A k : Asked(k)' = Asked(k)
  BY <1>1 DEF Asked
<1>6. Finds'
  <2>1. Cardinality(tried') + find_budget' <= FindBudget
    <3>1. Cardinality(out) <= Cardinality(out)
      BY <1>2
    <3> QED
      BY <1>0, <1>1, <1>2, <1>3, <3>1, BudgetHolds
  <2>2. Asked("find")' \subseteq tried' /\ Queued' \subseteq tried' \ Asked("find")'
    BY <1>0, <1>1, <1>2, <1>4, <1>5 DEF Finds
  <2>3. \A r \in inflight' : r.kind = "find" => r.to \in tried'
    BY <1>0, <1>1 DEF Finds
  <2> QED
    BY <2>1, <2>2, <2>3 DEF Finds
<1>7. Values'
  <2>1. AskOrAsked' \in SUBSET AskOrAsked
    BY <1>1, <1>5 DEF AskOrAsked
  <2>2. Cardinality(AskOrAsked') + value_budget' <= ValueBudget
    BY <1>0, <1>1, <2>1, ValuesShrink
  <2>3. AskOrAsked' \subseteq tried' \ possible'
    BY <1>0, <1>1, <2>1 DEF Values
  <2> QED
    BY <1>1, <2>2, <2>3 DEF Values
<1>8. Once'
  BY <1>0, <1>1, <1>4 DEF Once
<1>9. Walked'
  BY <1>0, <1>1, <1>2 DEF Walked
<1>10. NoLimbo'
  <2> SUFFICES ASSUME NEW c \in tried'
               PROVE  \/ c \in responded \cup failed \cup panics.finds
                      \/ \E i \in DOMAIN queue' : queue'[i] = c
                      \/ \E r \in inflight : r.kind = "find" /\ r.to = c
    BY <1>1 DEF NoLimbo
  <2>1. CASE c \in out
    BY <1>4, <2>1 DEF Queued
  <2>2. CASE c \in tried
    BY <1>0, <1>1, <2>2 DEF NoLimbo
  <2> QED
    BY <1>1, <2>1, <2>2
<1>11. ClosestFirst' /\ NothingStranded'
  BY <1>1 DEF ClosestFirst, NothingStranded
<1>12. Owed'
  <2>1. ~exhausted'
    BY <1>0, <1>1 DEF Owed
  <2>2. ASSUME possible # {}, inflight = {}, panics.finds = {} PROVE queue' # <<>>
    BY <1>1, <1>4, <1>b, <2>2, RefillAsks
  <2> QED
    BY <1>1, <2>1, <2>2 DEF Owed
<1> QED
  BY <1>6, <1>7, <1>8, <1>9, <1>10, <1>11, <1>12 DEF Search

\* An answer: whoever it brings in was neither waiting nor tried.
LEMMA SearchFinds ==
    ASSUME TypeOK, TypeOK', Requests, Search, NEW r \in inflight, NEW a \in Answers(r.to), JoinFound(r, a)
    PROVE  Search'
<1>0. Finds /\ Values /\ Once /\ Walked /\ NoLimbo /\ ClosestFirst /\ Owed /\ NothingStranded
  BY DEF Search
<1>a. PICK out : Found(r, a, out) /\ {a[i] : i \in out} \subseteq Contact
  BY FoundDoes
<1>b. PICK jump : jump = {a[i] : i \in out}
  OBVIOUS
<1>c. PICK news : news = {a[i] : i \in News(a)}
  OBVIOUS
<1>1. /\ phase = "select" /\ phase' = "jump" /\ tried' = tried \cup jump /\ possible' = possible \cup news
      /\ find_budget' = find_budget - Cardinality(out) /\ responded' = responded \cup {r.to}
      /\ inflight' = inflight \ {r}
      /\ UNCHANGED <<failed, value_budget, sent, panics, unsent, exhausted>>
  BY <1>a, <1>b, <1>c DEF Found, historyVars
<1>2. /\ out \in SUBSET News(a) /\ IsFiniteSet(out) /\ Cardinality(out) \in Nat /\ Cardinality(out) <= find_budget
      /\ \A n \in DOMAIN queue' : \E i \in out : queue'[n] = a[i]
      /\ \A i \in out : \E n \in DOMAIN queue' : queue'[n] = a[i]
      /\ \A m, n \in DOMAIN queue' : queue'[m] = queue'[n] => m = n
  BY <1>a DEF Found, Dispatches
<1>3. jump \in SUBSET news /\ jump \in SUBSET Contact /\ news \cap possible = {} /\ news \cap tried = {}
  <2>1. \A i \in News(a) : a[i] \notin possible /\ a[i] \notin tried
    BY DEF News, IsNew
  <2> QED
    BY <1>2, <1>a, <1>b, <1>c, <2>1
<1>4. Queued' = jump
  BY <1>2, <1>b DEF Queued
<1>5. \A k : Asked(k)' = Asked(k)
  BY <1>1 DEF Asked
<1>6. Finds'
  <2>1. Cardinality(jump) <= Cardinality(out)
    <3>1. PICK f : f = [i \in out |-> a[i]]
      OBVIOUS
    <3>2. f \in Surjection(out, jump)
      BY <1>b, <3>1 DEF Surjection
    <3> QED
      BY <1>2, <3>2, FS_Surjection
  <2>2. Cardinality(tried') + find_budget' <= FindBudget
    BY <1>0, <1>1, <1>2, <1>3, <2>1, BudgetHolds
  <2>3. Asked("find")' \subseteq tried' /\ Queued' \subseteq tried' \ Asked("find")'
    BY <1>0, <1>1, <1>3, <1>4, <1>5 DEF Finds
  <2>4. \A q \in inflight' : q.kind = "find" => q.to \in tried'
    BY <1>0, <1>1 DEF Finds
  <2> QED
    BY <2>2, <2>3, <2>4 DEF Finds
<1>7. Values'
  <2>1. AskOrAsked' \in SUBSET AskOrAsked
    BY <1>1, <1>5 DEF AskOrAsked
  <2>2. Cardinality(AskOrAsked') + value_budget' <= ValueBudget
    BY <1>0, <1>1, <2>1, ValuesShrink
  <2>3. AskOrAsked' \subseteq tried' \ possible'
    BY <1>0, <1>1, <1>3, <2>1 DEF Values
  <2> QED
    BY <1>1, <2>2, <2>3 DEF Values
<1>8. Once'
  BY <1>0, <1>1, <1>2 DEF Once
<1>9. Walked'
  BY <1>0, <1>1, <1>3 DEF Walked
<1>10. NoLimbo'
  <2> SUFFICES ASSUME NEW c \in tried'
               PROVE  \/ c \in responded' \cup failed' \cup panics'.finds
                      \/ \E i \in DOMAIN queue' : queue'[i] = c
                      \/ \E q \in inflight' : q.kind = "find" /\ q.to = c
    BY <1>1 DEF NoLimbo
  <2>1. CASE c \in jump
    BY <1>4, <2>1 DEF Queued
  <2>2. CASE c \in tried
    <3>1. \/ c \in responded \cup failed \cup panics.finds
          \/ \E q \in inflight : q.kind = "find" /\ q.to = c
      BY <1>0, <1>1, <2>2 DEF NoLimbo
    <3> QED
      BY <1>1, <3>1
  <2> QED
    BY <1>1, <2>1, <2>2
<1>11. ClosestFirst' /\ NothingStranded'
  BY <1>1 DEF ClosestFirst, NothingStranded
<1>12. Owed'
  BY <1>0, <1>1 DEF Owed
<1> QED
  BY <1>6, <1>7, <1>8, <1>9, <1>10, <1>11, <1>12 DEF Search

\* Every step keeps what is known of the search.
LEMMA SearchStep ==
    ASSUME TypeOK, TypeOK', Requests, Search, [Next]_vars
    PROVE  Search'
<1>1. CASE UNCHANGED vars
  <2>1. UNCHANGED <<possible, tried, responded, failed, find_budget, value_budget, phase, queue, inflight,
                    sent, unsent, panics, exhausted>>
    BY <1>1 DEF vars, searchVars, historyVars
  <2>2. (\A c : WalkStops(c)' <=> WalkStops(c)) /\ (\A k : Asked(k)' = Asked(k)) /\ Queued' = Queued
    BY <2>1 DEF WalkStops, Asked, Queued
  <2>3. AskOrAsked' = AskOrAsked
    BY <2>1, <2>2 DEF AskOrAsked
  <2>4. Finds' /\ Values' /\ Once' /\ Walked'
    BY <2>1, <2>2, <2>3 DEF Search, Finds, Values, Once, Walked
  <2>5. NoLimbo' /\ ClosestFirst' /\ NothingStranded'
    BY <2>1 DEF Search, NoLimbo, ClosestFirst, NothingStranded
  <2>6. Owed'
    BY <2>1, <2>2 DEF Search, Owed
  <2> QED
    BY <2>4, <2>5, <2>6 DEF Search
<1>2. ASSUME EndWithEnough \/ EndExhausted \/ Cancel PROVE Search'
  <2>1. phase' = "idle" /\ inflight' = {} /\ queue' = <<>>
    BY <1>2, RequestsDropped
  <2> QED
    BY <1>2, <2>1, SearchDropped
<1>3. CASE Next
  BY <1>2, <1>3, SearchMoves, SearchSilence, SearchWaits, SearchStarts, SearchBegins, SearchHarvests,
     SearchRefills, SearchFinds
     DEF Next, Driver, Join, JoinAnswered, ReadLoop
<1> QED
  BY <1>1, <1>3

-----------------------------------------------------------------------------
(* The invariant *)

\* Before the first lookup.
LEMMA LookupInit ==
    ASSUME Init
    PROVE  TypeOK /\ Requests /\ Search
<1>1. Cardinality({}) = 0 /\ IsFiniteSet({})
  BY FS_EmptySet
<1>2. /\ {Tolerance, FrontierSize, FindBudget, ValueBudget, Stop, MaxAnswer, MaxPanics} \subseteq Nat
      /\ Alpha \in Nat
  BY LookupAssumption
<1>3. TypeOK
  <2>1. SearchTyped
    BY <1>2 DEF Init, SearchTyped
  <2>2. DriverTyped
    <3>1. <<>> \in Seq(Contact) /\ 0 \in 0 .. Stop
      BY <1>2
    <3> QED
      BY <3>1 DEF Init, DriverTyped
  <2>3. RequestsTyped
    BY DEF Init, RequestsTyped
  <2>4. HistoryTyped
    <3>1. panics = [finds |-> {}, total |-> 0] /\ 0 \in 0 .. MaxPanics
      BY <1>2 DEF Init
    <3>2. panics \in [finds: SUBSET Contact, total: 0 .. MaxPanics]
      BY <3>1
    <3>3. sent \in [Kind \X Contact -> Nat]
      BY DEF Init
    <3> QED
      BY <3>2, <3>3 DEF Init, HistoryTyped
  <2> QED
    BY <2>1, <2>2, <2>3, <2>4, TypesAre
<1>4. Places
  BY DEF Init, Places, NoSend
<1>5. PendingSeqs = {} /\ Seqs(inflight) = {} /\ PendingSeqs \ Seqs(inflight) = {}
  BY DEF Init, PendingSeqs, Seqs
<1>6. guard = 1 .. Cardinality(guard)
  <2>1. 1 .. 0 = {}
    OBVIOUS
  <2> QED
    BY <1>1, <2>1 DEF Init
<1>7. Numbers
  <2>1. Cardinality(PendingSeqs \ Seqs(inflight)) <= panics.total
    BY <1>1, <1>5 DEF Init
  <2> QED
    BY <1>1, <1>5, <1>6, <2>1 DEF Init, Numbers
<1>8. Counts
  <2>1. FindTasks = {}
    BY DEF Init, FindTasks, Tasks
  <2> QED
    BY <1>1, <1>2, <2>1 DEF Init, Counts
<1>9. Asked("find") = {} /\ Asked("value") = {} /\ AskOrAsked = {}
  BY DEF Init, Asked, AskOrAsked, Kind
<1>10. Finds /\ Values
  BY <1>1, <1>2, <1>9 DEF Init, Finds, Values
<1>11. Once
  <2>1. DOMAIN queue = {}
    BY DEF Init
  <2> QED
    BY <2>1 DEF Init, Once
<1>12. Walked /\ NoLimbo /\ ClosestFirst /\ Owed /\ NothingStranded
  BY DEF Init, Walked, NoLimbo, ClosestFirst, Owed, NothingStranded
<1> QED
  BY <1>3, <1>4, <1>7, <1>8, <1>10, <1>11, <1>12 DEF Requests, Search

\* The inductive invariant in its two halves.
LEMMA LookupAlways == Spec => []LookupInv
<1>1. Init => LookupInv
  BY LookupInit DEF LookupInv, Requests, Search
<1>2. LookupInv /\ [Next]_vars => LookupInv'
  <2> SUFFICES ASSUME LookupInv, [Next]_vars PROVE LookupInv'
    OBVIOUS
  <2>1. TypeOK /\ Requests /\ Search /\ Numbers
    BY DEF LookupInv, Requests, Search
  <2>2. TypeOK'
    BY <2>1, TypesStep
  <2>3. Requests' /\ Search'
    BY <2>1, <2>2, RequestsStep, SearchStep
  <2> QED
    BY <2>2, <2>3 DEF LookupInv, Requests, Search
<1> QED
  BY <1>1, <1>2, PTL DEF Spec

-----------------------------------------------------------------------------
(* Theorems *)

\* However answers, deadlines, failed sends, panics and cancellations interleave, the
\* driver, the reply slots and the tasks agree: a slot outlives neither its request
\* nor its lookup (a panicked task's apart), and finds_inflight is right up to panics
\* (begin_request, run_read_loop, SlotGuard).
THEOREM RequestsStayTracked == Spec => []RequestsAreTracked
<1>1. LookupInv => RequestsAreTracked
  <2> SUFFICES ASSUME LookupInv PROVE RequestsAreTracked
    OBVIOUS
  <2>1. TypeOK /\ Places /\ Numbers /\ Counts
    BY DEF LookupInv
  <2>2. SlotsAreOwned
    BY <2>1 DEF Places, Numbers, SlotsAreOwned, Seqs
  <2>3. FindsInFlight
    <3>1. PICK n : n = Cardinality(FindTasks)
      OBVIOUS
    <3>2. n \in Nat /\ finds_inflight \in Nat /\ Alpha \in Nat /\ panics.total \in Nat
      BY <2>1, <3>1, FindTasksAre, LookupAssumption DEF TypeOK
    <3>3. finds_inflight <= n \/ phase = "idle"
      BY <2>1, <3>1 DEF Counts
    <3>4. n <= finds_inflight + panics.total /\ finds_inflight <= Alpha
      BY <2>1, <3>1 DEF Counts
    <3>5. n <= Alpha + panics.total
      BY <3>2, <3>4
    <3> QED
      BY <3>1, <3>3, <3>4, <3>5 DEF FindsInFlight, FindTasks
  <2> QED
    BY <2>1, <2>2, <2>3 DEF RequestsAreTracked
<1> QED
  BY <1>1, LookupAlways, PTL

\* Nobody is asked the same question twice in one lookup, and the budgets hold, although
\* answers name contacts again that the walk has consumed (CSearch::add, refill, harvest).
THEOREM NobodyIsAskedTwice == Spec => []AskedOnce
<1>1. LookupInv => AskedOnce
  <2> SUFFICES ASSUME LookupInv PROVE AskedOnce
    OBVIOUS
  <2>1. TypeOK /\ Finds /\ Values /\ Once
    BY DEF LookupInv
  <2>2. /\ IsFiniteSet(tried) /\ Cardinality(tried) \in Nat /\ IsFiniteSet(AskOrAsked)
        /\ find_budget \in Nat /\ value_budget \in Nat /\ FindBudget \in Nat /\ ValueBudget \in Nat
    BY <2>1, SetsAreFinite
  <2>3. Cardinality(Asked("find")) <= FindBudget
    <3>1. Cardinality(Asked("find")) \in Nat /\ Cardinality(Asked("find")) <= Cardinality(tried)
      BY <2>1, <2>2, CountSubset DEF Finds
    <3>2. Cardinality(tried) + find_budget <= FindBudget
      BY <2>1 DEF Finds
    <3> QED
      BY <2>2, <3>1, <3>2
  <2>4. Cardinality(Asked("value")) <= ValueBudget
    <3>1. Asked("value") \in SUBSET AskOrAsked
      BY DEF AskOrAsked
    <3>2. /\ Cardinality(Asked("value")) \in Nat /\ Cardinality(AskOrAsked) \in Nat
          /\ Cardinality(Asked("value")) <= Cardinality(AskOrAsked)
      BY <2>2, <3>1, CountSubset
    <3>3. Cardinality(AskOrAsked) + value_budget <= ValueBudget
      BY <2>1 DEF Values
    <3> QED
      BY <2>2, <3>2, <3>3
  <2>5. \A k \in Kind \X Contact : sent[k] <= 1
    BY <2>1 DEF Once
  <2> QED
    BY <2>3, <2>4, <2>5 DEF AskedOnce, Asked
<1> QED
  BY <1>1, LookupAlways, PTL

\* Every contact marked tried is queued, in flight, or resolved: harvest never waits for a
\* report that nobody will make (CSearch::harvest, on_timeout, begin_request).
THEOREM NobodyIsInLimbo == Spec => []NoLimbo
<1>1. LookupInv => NoLimbo
  BY DEF LookupInv
<1> QED
  BY <1>1, LookupAlways, PTL

\* Values are asked closest first, behind no unresolved contact (CSearch::harvest).
THEOREM ValuesGoClosestFirst == Spec => []ClosestFirst
<1>1. LookupInv => ClosestFirst
  BY DEF LookupInv
<1> QED
  BY <1>1, LookupAlways, PTL

\* A lookup that runs dry has dealt with every candidate it learnt of, sends that failed in
\* the last pass and panicked tasks apart (drive_lookup's `inflight.is_empty()` exit).
THEOREM NobodyIsStranded == Spec => []NothingStranded
<1>1. LookupInv => NothingStranded
  BY DEF LookupInv
<1> QED
  BY <1>1, LookupAlways, PTL
=============================================================================
