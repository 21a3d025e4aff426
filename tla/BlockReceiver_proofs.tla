------------------------- MODULE BlockReceiver_proofs -------------------------
(* Proofs about module BlockReceiver, for any file, geometry, window and peer. *)
EXTENDS BlockReceiver, FiniteSetTheorems, WellFoundedInduction, TLAPS

(* The inductive invariant *)

\* What a window knows of its bytes, whoever sends them.
Window ==
    /\ \A x \in DOMAIN left : starting(x) # {}
    /\ \A x \in DOMAIN packed :
         /\ starting(x) # {} /\ packed[x].total = first(starting(x))[2] - x
         /\ packed[x].written <= packed[x].total
    /\ pc = "ask" => DOMAIN left = {}

\* The bytes of the window, and its main blocks: those that overlap no earlier one.
\* (A race asks again for a piece of what is on its way.)
Cover == UNION {UnitsOf(blocks[i]) : i \in DOMAIN blocks}
Main == {i \in DOMAIN blocks :
           \A j \in DOMAIN blocks : j < i => UnitsOf(blocks[j]) \cap UnitsOf(blocks[i]) = {}}

\* A block was a whole run of missing bytes of one cell, and gaps only close.
SealedIn(blk, missing) ==
    /\ \A u \in UnitsOf(blk) : CellOf(u) = CellOf(blk[1])
    /\ \A u \in missing : u \in {blk[1] - 1, blk[2]} => CellOf(u) # CellOf(blk[1])
Sealed(blk) == SealedIn(blk, gaps)

Nested ==
    \A i, j \in DOMAIN blocks :
       i < j => \/ UnitsOf(blocks[i]) \cap UnitsOf(blocks[j]) = {}
                \/ UnitsOf(blocks[j]) \subseteq UnitsOf(blocks[i])
AllSealed == (\A i \in DOMAIN blocks : Sealed(blocks[i])) /\ (\A h \in held : Sealed(h))
HeldCovered == \A h \in held : UnitsOf(h) \cap gaps \subseteq Cover
MainHeld == \A i \in Main : blocks[i][1] \in DOMAIN left => blocks[i] \in held
MainDone == \A i \in Main : blocks[i][1] \notin DOMAIN left => UnitsOf(blocks[i]) \subseteq mine

\* What the honest peer still owes of a main block is what the window expects.
Due(e, blk) ==
    /\ e.block = blk /\ blk[1] \in DOMAIN left
    /\ blk[1] <= e.pos /\ left[blk[1]] = blk[2] - e.pos
    /\ UnitsOf(blk) \cap mine = blk[1] .. (e.pos - 1)
    /\ e.mode = "new" => e.pos = blk[1] /\ blk[1] \notin DOMAIN packed
    /\ e.mode = "packed" => blk[1] \in DOMAIN packed /\ packed[blk[1]].written = e.pos - blk[1]

\* The peer serves the open main blocks first, each once; anything behind them was
\* asked for in a race, when the window covered all that was missing.
OnTheWire(m) ==
    /\ \A k \in 1 .. m : \E i \in Main : Due(wire[k], blocks[i])
    /\ \A k, l \in 1 .. m : wire[k].block = wire[l].block => k = l
    /\ \A i \in Main : blocks[i][1] \in DOMAIN left => \E k \in 1 .. m : wire[k].block = blocks[i]
    /\ m < Len(wire) => gaps \subseteq Cover

Orderly ==
    /\ Nested /\ AllSealed /\ HeldCovered /\ MainHeld /\ MainDone
    /\ \E m \in 0 .. Len(wire) : OnTheWire(m)

\* The main blocks are closed, and the file has no gap left.
AllIn == gaps = {} /\ \A i \in Main : blocks[i][1] \notin DOMAIN left

\* The block that a stream started at x for is in, whatever window x is read in.
Settled(x) ==
    /\ x \in mine /\ x \notin DOMAIN left
    /\ starting(x) # {} => UnitsOf(first(starting(x))) \subseteq mine

\* A trailer comes after its block, or after everything.
LateIsSettled == AllIn \/ \A x \in late : Settled(x)

\* A window an honest peer serves is orderly while the session lasts.
Running == pc \in {"ask", "read", "topup"}
Fair == honest /\ Running => Orderly /\ LateIsSettled

ReceiverInv ==
    /\ TypeOK /\ Window /\ WritesStayInside
    /\ Fair /\ CompletedIsOnDisk /\ HonestPeerFinishes

-----------------------------------------------------------------------------
(* Blocks *)

\* A non-empty set of naturals has a least element.
LEMMA LeastNat ==
    ASSUME NEW T \in SUBSET Nat, T # {}
    PROVE  \E x \in T : \A y \in T : x <= y
<1>1. PICK x \in T : \A y \in T : ~(<<y, x>> \in OpToRel(<, Nat))
  BY NatLessThanWellFounded, WFMin
<1>2. \A y \in T : ~(y < x)
  BY <1>1 DEF OpToRel
<1> QED
  BY <1>2

\* A non-empty bounded set of naturals has a greatest element.
LEMMA GreatestNat ==
    ASSUME NEW T \in SUBSET Nat, T # {}, NEW n \in Nat, \A x \in T : x <= n
    PROVE  \E x \in T : \A y \in T : y <= x
<1> DEFINE D == {n - x : x \in T}
<1>1. D \in SUBSET Nat /\ D # {}
  <2>1. ASSUME NEW x \in T PROVE n - x \in Nat
    <3>1. x \in Nat /\ x <= n
      OBVIOUS
    <3> QED
      BY <3>1
  <2> QED
    BY <2>1
<1>2. PICK d \in D : \A e \in D : d <= e
  <2> HIDE DEF D
  <2> QED
    BY <1>1, LeastNat
<1>3. PICK x \in T : d = n - x
  BY <1>2
<1>4. ASSUME NEW y \in T PROVE y <= x
  <2>1. n - y \in D /\ x \in Nat /\ y \in Nat
    OBVIOUS
  <2>2. n - x <= n - y
    BY <1>2, <1>3, <2>1
  <2> QED
    BY <2>1, <2>2
<1> QED
  BY <1>4

\* A block is a non-empty range of the file.
LEMMA PairIs ==
    ASSUME NEW blk \in Pairs
    PROVE  /\ blk[1] \in Nat /\ blk[2] \in Nat /\ blk[1] < blk[2] /\ blk[2] <= Size
           /\ blk = <<blk[1], blk[2]>> /\ blk[1] \in Starts /\ blk[2] - blk[1] \in 1 .. Size
           /\ UnitsOf(blk) \subseteq Units /\ blk[1] \in UnitsOf(blk)
           /\ \A u : u \in UnitsOf(blk) <=> u \in Nat /\ blk[1] <= u /\ u < blk[2]
<1>1. Size \in Nat /\ blk \in (0 .. Size) \X (0 .. Size) /\ blk[1] < blk[2]
  BY GeometryAssumption DEF Pairs
<1> QED
  BY <1>1 DEF UnitsOf, Units, Starts

\* A block is its units.
LEMMA PairByUnits ==
    ASSUME NEW b \in Pairs, NEW c \in Pairs, UnitsOf(b) = UnitsOf(c)
    PROVE  b = c
<1>1. /\ b[1] \in Nat /\ b[2] \in Nat /\ b[1] < b[2] /\ b = <<b[1], b[2]>>
      /\ \A u : u \in UnitsOf(b) <=> u \in Nat /\ b[1] <= u /\ u < b[2]
  BY PairIs
<1>2. /\ c[1] \in Nat /\ c[2] \in Nat /\ c[1] < c[2] /\ c = <<c[1], c[2]>>
      /\ \A u : u \in UnitsOf(c) <=> u \in Nat /\ c[1] <= u /\ u < c[2]
  BY PairIs
<1>3. c[1] <= b[1] /\ b[1] < c[2] /\ b[1] <= c[1]
  BY <1>1, <1>2
<1>4. b[2] - 1 \in UnitsOf(b) /\ c[2] - 1 \in UnitsOf(c)
  BY <1>1, <1>2
<1>5. b[2] - 1 < c[2] /\ c[2] - 1 < b[2]
  BY <1>1, <1>2, <1>4
<1> QED
  BY <1>1, <1>2, <1>3, <1>5

\* A run of missing units is a block, all missing, and sealed.
LEMMA OpenIsBlock ==
    ASSUME got \subseteq Units, NEW b \in OpenBlocks(gaps)
    PROVE  PairOf(b) \in Pairs /\ UnitsOf(PairOf(b)) = b /\ b \subseteq gaps /\ Sealed(PairOf(b))
<1>0. Size \in Nat /\ Units = 0 .. (Size - 1) /\ gaps \in SUBSET Units
  BY GeometryAssumption DEF Units, gaps
<1>1. PICK x \in gaps, y \in gaps : b = x .. y /\ IsOpenBlock(x, y, gaps)
  BY DEF OpenBlocks
<1>2. x \in Nat /\ y \in Nat /\ y + 1 <= Size /\ x <= y
  BY <1>0, <1>1 DEF IsOpenBlock
<1>3. PICK c : c = <<x, y + 1>>
  OBVIOUS
<1>4. c \in Pairs /\ UnitsOf(c) = b /\ c[1] = x /\ c[2] = y + 1
  BY <1>0, <1>1, <1>2, <1>3 DEF Pairs, UnitsOf
<1>5. PairOf(b) \in Pairs /\ UnitsOf(PairOf(b)) = b
  BY <1>4 DEF PairOf
<1>6. PairOf(b) = c
  BY <1>4, <1>5, PairByUnits
<1>7. b \subseteq gaps /\ \A u \in b : CellOf(u) = CellOf(x)
  BY <1>1 DEF IsOpenBlock
<1>8. (x - 1 \in gaps => CellOf(x - 1) # CellOf(x)) /\ (y + 1 \in gaps => CellOf(y + 1) # CellOf(x))
  BY <1>1 DEF IsOpenBlock
<1>9. Sealed(c)
  BY <1>4, <1>7, <1>8 DEF Sealed, SealedIn
<1> QED
  BY <1>5, <1>6, <1>7, <1>9

\* A run that overlaps a sealed block lies inside it.
LEMMA OpenInside ==
    ASSUME got \subseteq Units, NEW b \in OpenBlocks(gaps), NEW blk \in Pairs, Sealed(blk),
           b \cap UnitsOf(blk) # {}
    PROVE  b \subseteq UnitsOf(blk)
<1>0. Size \in Nat /\ Units = 0 .. (Size - 1) /\ gaps \in SUBSET Units
  BY GeometryAssumption DEF Units, gaps
<1>1. PICK x \in gaps, y \in gaps : b = x .. y /\ IsOpenBlock(x, y, gaps)
  BY DEF OpenBlocks
<1>2. x \in Nat /\ y \in Nat /\ b \subseteq gaps /\ \A u \in b : CellOf(u) = CellOf(x)
  BY <1>0, <1>1 DEF IsOpenBlock
<1>3. PICK w \in b : w \in UnitsOf(blk)
  OBVIOUS
<1>4. /\ blk[1] \in Nat /\ blk[2] \in Nat
      /\ \A u : u \in UnitsOf(blk) <=> u \in Nat /\ blk[1] <= u /\ u < blk[2]
  BY PairIs
<1>5. CellOf(w) = CellOf(blk[1])
  BY <1>3 DEF Sealed, SealedIn
<1>6. blk[2] \notin b /\ blk[1] - 1 \notin b
  BY <1>2, <1>3, <1>5 DEF Sealed, SealedIn
<1>7. ASSUME NEW v \in b PROVE v \in UnitsOf(blk)
  <2>1. v \in Nat /\ w \in Nat /\ x <= v /\ v <= y /\ x <= w /\ w <= y /\ blk[1] <= w /\ w < blk[2]
    BY <1>1, <1>2, <1>3, <1>4
  <2>2. \A u \in Nat : x <= u /\ u <= y => u \in b
    BY <1>1, <1>2
  <2>3. ~(v >= blk[2])
    <3>1. v >= blk[2] => x <= blk[2] /\ blk[2] <= y
      BY <1>2, <1>4, <2>1
    <3> QED
      BY <1>4, <1>6, <2>2, <3>1
  <2>4. ~(v < blk[1])
    <3>1. v < blk[1] => blk[1] - 1 \in Nat /\ x <= blk[1] - 1 /\ blk[1] - 1 <= y
      BY <1>2, <1>4, <2>1
    <3> QED
      BY <1>6, <2>2, <3>1
  <2> QED
    BY <1>4, <2>1, <2>3, <2>4
<1> QED
  BY <1>7

\* Two runs are the same or apart.
LEMMA OpenApart ==
    ASSUME got \subseteq Units, NEW b \in OpenBlocks(gaps), NEW c \in OpenBlocks(gaps), b \cap c # {}
    PROVE  b = c
<1>1. PairOf(b) \in Pairs /\ UnitsOf(PairOf(b)) = b /\ Sealed(PairOf(b))
  BY OpenIsBlock
<1>2. PairOf(c) \in Pairs /\ UnitsOf(PairOf(c)) = c /\ Sealed(PairOf(c))
  BY OpenIsBlock
<1>3. c \subseteq b
  BY <1>1, OpenInside
<1>4. b \subseteq c
  BY <1>2, OpenInside
<1> QED
  BY <1>3, <1>4

\* Whatever is missing is in a run.
LEMMA OpenCover ==
    ASSUME got \subseteq Units, NEW u \in gaps
    PROVE  \E b \in OpenBlocks(gaps) : u \in b
<1>0. Size \in Nat /\ Units = 0 .. (Size - 1) /\ gaps \in SUBSET Units
  BY GeometryAssumption DEF Units, gaps
<1>1. u \in Nat
  BY <1>0
<1> DEFINE Good(v) == v \in gaps /\ CellOf(v) = CellOf(u)
           L == {a \in gaps : a <= u /\ \A v \in a .. u : Good(v)}
           R == {a \in gaps : u <= a /\ \A v \in u .. a : Good(v)}
<1>2. L \in SUBSET Nat /\ u \in L /\ R \in SUBSET Nat /\ u \in R /\ \A a \in R : a <= Size
  <2>1. \A a \in gaps : a \in Nat /\ a <= Size
    BY <1>0
  <2>2. u <= u /\ \A v \in u .. u : Good(v)
    <3>1. \A v \in u .. u : v = u
      BY <1>1
    <3> QED
      BY <1>1, <3>1
  <2> HIDE DEF Good
  <2> QED
    BY <2>1, <2>2
<1>3. PICK x \in L : \A y \in L : x <= y
  <2> HIDE DEF L
  <2> QED
    BY <1>2, LeastNat
<1>4. PICK y \in R : \A a \in R : a <= y
  <2> HIDE DEF R
  <2> QED
    BY <1>0, <1>2, GreatestNat
<1>5. x \in gaps /\ x <= u /\ (\A v \in x .. u : Good(v)) /\ x \in Nat
  BY <1>2, <1>3
<1>6. y \in gaps /\ u <= y /\ (\A v \in u .. y : Good(v)) /\ y \in Nat
  BY <1>2, <1>4
<1>7. \A v \in x .. y : Good(v)
  BY <1>1, <1>5, <1>6
<1>8. CellOf(x) = CellOf(u)
  BY <1>1, <1>5
<1>9. ~Good(x - 1)
  <2> SUFFICES ASSUME Good(x - 1) PROVE FALSE
    OBVIOUS
  <2>1. x - 1 \in gaps /\ x - 1 \in Nat /\ x - 1 <= u
    BY <1>0, <1>1, <1>5
  <2>2. \A v \in (x - 1) .. u : v = x - 1 \/ v \in x .. u
    BY <1>1, <1>5
  <2>3. \A v \in (x - 1) .. u : Good(v)
    BY <1>5, <2>2
  <2>4. x - 1 \in L
    BY <2>1, <2>3
  <2>5. x <= x - 1
    BY <1>3, <2>4
  <2> QED
    BY <1>5, <2>5
<1>10. ~Good(y + 1)
  <2> SUFFICES ASSUME Good(y + 1) PROVE FALSE
    OBVIOUS
  <2>1. y + 1 \in gaps /\ u <= y + 1
    BY <1>1, <1>6
  <2>2. \A v \in u .. (y + 1) : v = y + 1 \/ v \in u .. y
    BY <1>1, <1>6
  <2>3. \A v \in u .. (y + 1) : Good(v)
    BY <1>6, <2>2
  <2>4. y + 1 \in R
    BY <2>1, <2>3
  <2>5. y + 1 <= y
    BY <1>4, <2>4
  <2> QED
    BY <1>6, <2>5
<1>11. IsOpenBlock(x, y, gaps)
  <2>1. x <= y
    BY <1>1, <1>5, <1>6
  <2>2. \A v \in x .. y : v \in gaps /\ CellOf(v) = CellOf(x)
    BY <1>7, <1>8
  <2>3. ~(x - 1 \in gaps /\ CellOf(x - 1) = CellOf(x)) /\ ~(y + 1 \in gaps /\ CellOf(y + 1) = CellOf(x))
    BY <1>8, <1>9, <1>10
  <2> QED
    BY <2>1, <2>2, <2>3 DEF IsOpenBlock
<1>12. x .. y \in OpenBlocks(gaps)
  <2>1. PICK xy : xy = <<x, y>>
    OBVIOUS
  <2>2. xy \in gaps \X gaps /\ xy[1] = x /\ xy[2] = y
    BY <1>5, <1>6, <2>1
  <2> QED
    BY <1>11, <2>2 DEF OpenBlocks
<1>13. u \in x .. y
  BY <1>1, <1>5, <1>6
<1> QED
  BY <1>12, <1>13

-----------------------------------------------------------------------------
(* Picks, and blocks in order *)

\* The blocks of a file are finitely many.
LEMMA PairsFinite == IsFiniteSet(Pairs)
<1>1. Size \in Nat
  BY GeometryAssumption
<1>2. IsFiniteSet(0 .. Size)
  <2>1. 0 \in Int /\ Size \in Int
    BY <1>1
  <2> QED
    BY <2>1, FS_Interval
<1>3. IsFiniteSet((0 .. Size) \X (0 .. Size))
  BY <1>2, FS_Product
<1>4. Pairs \in SUBSET ((0 .. Size) \X (0 .. Size))
  BY DEF Pairs
<1> QED
  BY <1>3, <1>4, FS_Subset

\* What take_blocks returns: whole runs, each once, and either none of them held
\* already or a race for what is all on its way.  It is empty-handed only when
\* every run is held.
LEMMA TakeDoes ==
    ASSUME got \subseteq Units, NEW own, NEW max, NEW T \in take_blocks(own, max)
    PROVE  /\ T \in SUBSET Pairs /\ IsFiniteSet(T)
           /\ \A t \in T : UnitsOf(t) \in OpenBlocks(gaps) /\ UnitsOf(t) \subseteq gaps /\ Sealed(t)
           /\ \A s, t \in T : UnitsOf(s) \cap UnitsOf(t) # {} => s = t
           /\ \A s, t \in T : s[1] = t[1] => s = t
           /\ \/ \A t \in T, h \in own : UnitsOf(t) \cap UnitsOf(h) = {}
              \/ \A b \in OpenBlocks(gaps) : \E h \in own : UnitsOf(h) \cap b # {}
           /\ T = {} /\ max \in Nat \ {0} =>
                 \A b \in OpenBlocks(gaps) : \E h \in own : UnitsOf(h) \cap b # {}
<1> DEFINE taken == {UnitsOf(h) : h \in own}
           fresh == Requestable(gaps, taken, Parts)
           race == Requestable(gaps, {}, Parts)
           endgame == fresh = {} /\ gaps # {} /\ Cardinality(gaps) <= EndgameLimit
           free == IF endgame THEN race ELSE fresh
<1>1. PICK P \in Picks(free, max) : T = {PairOf(b) : b \in P}
  BY DEF take_blocks
<1>2. P \in SUBSET free /\ (Cardinality(P) < max => P = free)
  BY <1>1 DEF Picks, IsPick
<1>3. race \subseteq OpenBlocks(gaps) /\ fresh \subseteq OpenBlocks(gaps)
  BY DEF Requestable
<1>4. P \subseteq OpenBlocks(gaps)
  BY <1>2, <1>3
<1>5. \A b \in OpenBlocks(gaps) : PairOf(b) \in Pairs /\ UnitsOf(PairOf(b)) = b /\ b \subseteq gaps /\ Sealed(PairOf(b))
  BY OpenIsBlock
<1>6. \A t \in T : t \in Pairs /\ UnitsOf(t) \in P /\ UnitsOf(t) \in OpenBlocks(gaps) /\ UnitsOf(t) \subseteq gaps /\ Sealed(t)
  BY <1>1, <1>4, <1>5
<1>7. T \in SUBSET Pairs /\ IsFiniteSet(T)
  <2>1. T \in SUBSET Pairs
    BY <1>6
  <2> QED
    BY <2>1, PairsFinite, FS_Subset
<1>8. ASSUME NEW s \in T, NEW t \in T, UnitsOf(s) \cap UnitsOf(t) # {} PROVE s = t
  <2>1. UnitsOf(s) = UnitsOf(t)
    BY <1>6, <1>8, OpenApart
  <2> QED
    BY <1>6, <2>1, PairByUnits
<1>9. ASSUME NEW s \in T, NEW t \in T, s[1] = t[1] PROVE s = t
  <2>1. s[1] \in UnitsOf(s) /\ t[1] \in UnitsOf(t)
    BY <1>6, PairIs
  <2> QED
    BY <1>8, <1>9, <2>1
<1>10. ASSUME fresh = {} PROVE \A b \in OpenBlocks(gaps) : \E h \in own : UnitsOf(h) \cap b # {}
  <2> SUFFICES ASSUME NEW b \in OpenBlocks(gaps) PROVE \E h \in own : UnitsOf(h) \cap b # {}
    OBVIOUS
  <2>1. PairOf(b) \in Pairs /\ UnitsOf(PairOf(b)) = b
    BY OpenIsBlock
  <2>2. PICK u \in b : u \in Units
    BY <2>1, PairIs
  <2>3. PartOf(u) \in Parts
    BY <2>2 DEF Parts
  <2>4. BlockPart(b) \in Parts
    BY <2>2, <2>3 DEF BlockPart
  <2>5. Overlaps(b, taken)
    BY <1>10, <2>4 DEF Requestable
  <2>6. PICK r \in taken : r \cap b # {}
    BY <2>5 DEF Overlaps
  <2> QED
    BY <2>6
<1>11. ASSUME ~endgame PROVE \A t \in T, h \in own : UnitsOf(t) \cap UnitsOf(h) = {}
  <2>1. \A b \in fresh : ~Overlaps(b, taken)
    BY DEF Requestable
  <2>2. P \subseteq fresh
    BY <1>2, <1>11
  <2>3. \A t \in T : UnitsOf(t) \in fresh
    BY <1>6, <2>2
  <2>4. \A t \in T : \A r \in taken : r \cap UnitsOf(t) = {}
    BY <2>1, <2>3 DEF Overlaps
  <2> QED
    BY <2>4
<1>12. \/ \A t \in T, h \in own : UnitsOf(t) \cap UnitsOf(h) = {}
       \/ \A b \in OpenBlocks(gaps) : \E h \in own : UnitsOf(h) \cap b # {}
  BY <1>10, <1>11
<1>13. ASSUME T = {}, max \in Nat \ {0} PROVE fresh = {}
  <2>1. P = {}
    BY <1>1, <1>13
  <2>2. Cardinality(P) = 0
    BY <2>1, FS_EmptySet
  <2>3. free = {}
    BY <1>2, <1>13, <2>1, <2>2
  <2> QED
    BY <2>3
<1> QED
  BY <1>6, <1>7, <1>8, <1>9, <1>10, <1>12, <1>13

\* Blocks with different starts have different ranks.
LEMMA Ranks ==
    ASSUME NEW T \in SUBSET Pairs, IsFiniteSet(T), \A s, t \in T : s[1] = t[1] => s = t,
           NEW c \in T
    PROVE  /\ Rank(T, c) \in 0 .. Cardinality(T) - 1
           /\ \A d \in T : Rank(T, c) = Rank(T, d) => c = d
<1> DEFINE Below(x) == {d \in T : d[1] < x[1]}
<1>0. \A d \in T : d[1] \in Nat
  BY PairIs
<1>1. \A x : IsFiniteSet(Below(x)) /\ Cardinality(Below(x)) \in Nat
  <2> TAKE x
  <2>1. Below(x) \in SUBSET T
    OBVIOUS
  <2> HIDE DEF Below
  <2>2. IsFiniteSet(Below(x))
    BY <2>1, FS_Subset
  <2> QED
    BY <2>2, FS_CardinalityType
<1>2. ASSUME NEW U, IsFiniteSet(U), NEW V \in SUBSET U, NEW x \in U, x \notin V
      PROVE  Cardinality(V) < Cardinality(U)
  <2>1. IsFiniteSet(V) /\ Cardinality(V) <= Cardinality(U) /\ (Cardinality(V) = Cardinality(U) => V = U)
    BY <1>2, FS_Subset
  <2>2. V # U
    BY <1>2
  <2>3. Cardinality(V) \in Nat /\ Cardinality(U) \in Nat
    BY <1>2, <2>1, FS_CardinalityType
  <2> QED
    BY <2>1, <2>2, <2>3
<1>3. Cardinality(Below(c)) < Cardinality(T)
  <2>1. Below(c) \in SUBSET T /\ c \notin Below(c)
    BY <1>0
  <2> HIDE DEF Below
  <2> QED
    BY <1>2, <2>1
<1>4. ASSUME NEW x \in T, NEW d \in T, x[1] < d[1] PROVE Cardinality(Below(x)) < Cardinality(Below(d))
  <2>1. ASSUME NEW y \in Below(x) PROVE y \in Below(d)
    BY <1>0, <1>4
  <2>2. x \in Below(d) /\ x \notin Below(x)
    BY <1>0, <1>4
  <2>3. IsFiniteSet(Below(d)) /\ Below(x) \in SUBSET Below(d)
    BY <1>1, <2>1
  <2> HIDE DEF Below
  <2> QED
    BY <1>2, <2>2, <2>3
<1>5. \A x : Rank(T, x) = Cardinality(Below(x))
  BY DEF Rank
<1>6. Cardinality(T) \in Nat
  BY FS_CardinalityType
<1> HIDE DEF Below
<1>7. Rank(T, c) \in 0 .. Cardinality(T) - 1
  BY <1>1, <1>3, <1>5, <1>6
<1>8. ASSUME NEW d \in T, Rank(T, c) = Rank(T, d) PROVE c = d
  <2>1. Rank(T, c) \in Nat
    BY <1>7
  <2>2. ~(c[1] < d[1])
    BY <1>4, <1>5, <1>8, <2>1
  <2>3. ~(d[1] < c[1])
    BY <1>4, <1>5, <1>8, <2>1
  <2> QED
    BY <1>0, <2>2, <2>3
<1> QED
  BY <1>7, <1>8

\* InOrder lists every block of T, each once.
LEMMA OrderIsComplete ==
    ASSUME NEW T \in SUBSET Pairs, IsFiniteSet(T), \A s, t \in T : s[1] = t[1] => s = t
    PROVE  /\ Cardinality(T) \in Nat
           /\ InOrder(T) \in [1 .. Cardinality(T) -> T]
           /\ \A c \in T : \E i \in 1 .. Cardinality(T) : InOrder(T)[i] = c
           /\ \A i, j \in 1 .. Cardinality(T) : InOrder(T)[i] = InOrder(T)[j] => i = j
<1> DEFINE n == Cardinality(T)
           I == 0 .. n - 1
           f == [c \in T |-> Rank(T, c)]
<1>0. n \in Nat
  BY FS_CardinalityType
<1>1. f \in [T -> I]
  BY Ranks
<1>2. \A c, d \in T : f[c] = f[d] => c = d
  BY Ranks
<1>3. f \in Injection(T, I)
  BY <1>1, <1>2 DEF Injection, IsInjective
<1>4. IsFiniteSet(I) /\ Cardinality(I) = n
  <2> HIDE DEF n
  <2>1. 0 \in Int /\ n - 1 \in Int
    BY <1>0
  <2>2. IsFiniteSet(0 .. n - 1) /\ Cardinality(0 .. n - 1) = IF 0 > n - 1 THEN 0 ELSE n - 1 - 0 + 1
    BY <2>1, FS_Interval
  <2> QED
    BY <1>0, <2>2
<1>5. f \in Surjection(T, I)
  BY <1>3, <1>4, FS_Injection
<1>6. \A k \in I : \E c \in T : Rank(T, c) = k
  BY <1>5 DEF Surjection
<1>7. \A i \in 1 .. n : i - 1 \in I
  BY <1>0
<1>8. \A i \in 1 .. n : InOrder(T)[i] \in T /\ Rank(T, InOrder(T)[i]) = i - 1
  BY <1>6, <1>7 DEF InOrder
<1>10. ASSUME NEW c \in T PROVE \E i \in 1 .. n : InOrder(T)[i] = c
  <2>a. PICK m : m = Rank(T, c)
    OBVIOUS
  <2>b. m \in Nat /\ m + 1 \in 1 .. n
    BY <1>0, <2>a, Ranks
  <2>c. PICK k : k = m + 1
    OBVIOUS
  <2>0. k \in 1 .. n /\ k - 1 = Rank(T, c)
    BY <2>a, <2>b, <2>c
  <2>1. PICK d : d = InOrder(T)[k]
    OBVIOUS
  <2>2. d \in T /\ Rank(T, d) = k - 1
    BY <1>8, <2>0, <2>1
  <2>3. d = c
    BY <2>0, <2>2, Ranks
  <2> QED
    BY <2>0, <2>1, <2>3
<1>11. \A i, j \in 1 .. n : InOrder(T)[i] = InOrder(T)[j] => i = j
  BY <1>0, <1>8
<1>12. InOrder(T) \in [1 .. n -> T]
  BY <1>8 DEF InOrder
<1> QED
  BY <1>0, <1>10, <1>11, <1>12

\* The first of some positions of the window is one of them, and none is before it.
LEMMA FirstIs ==
    ASSUME blocks \in Seq(Pairs), NEW is \in SUBSET (DOMAIN blocks), is # {}
    PROVE  \E i \in is : first(is) = blocks[i] /\ \A j \in is : i <= j
<1>1. is \in SUBSET Nat
  <2>1. DOMAIN blocks = 1 .. Len(blocks) /\ Len(blocks) \in Nat
    OBVIOUS
  <2> QED
    BY <2>1
<1>2. \E i \in is : \A j \in is : i <= j
  BY <1>1, LeastNat
<1> QED
  BY <1>2 DEF first

-----------------------------------------------------------------------------
(* One step of the window, whoever sends *)

\* TypeOK without the peer.
RxTyped ==
    /\ blocks \in Seq(Pairs) /\ completed \in Seq(Pairs)
    /\ DOMAIN left \subseteq Starts /\ \A x \in DOMAIN left : left[x] \in 1 .. Size
    /\ DOMAIN packed \subseteq Starts /\ \A x \in DOMAIN packed : packed[x] \in Streams
    /\ held \subseteq Pairs
    /\ got \subseteq Units /\ mine \subseteq got
    /\ written \subseteq Units
    /\ no_more_blocks \in BOOLEAN
    /\ pc \in {"ask", "read", "topup", "ended", "cut"}

\* The types are those of the window and those of the peer.
LEMMA TypesAre == TypeOK <=> RxTyped /\ honest \in BOOLEAN /\ wire \in Seq(Requests) /\ late \subseteq Starts
BY DEF TypeOK, RxTyped

\* The same of the next state.
LEMMA TypesNext ==
    TypeOK' <=> RxTyped' /\ honest' \in BOOLEAN /\ wire' \in Seq(Requests) /\ late' \subseteq Starts
BY DEF TypeOK, RxTyped, Starts

\* Concatenation keeps what was there and adds the rest behind it.
LEMMA Appended ==
    ASSUME NEW S, NEW s \in Seq(S), NEW n \in Nat, NEW f \in [1 .. n -> S]
    PROVE  /\ f \in Seq(S) /\ Len(f) = n
           /\ s \o f \in Seq(S) /\ Len(s \o f) = Len(s) + n
           /\ \A i \in 1 .. Len(s) : (s \o f)[i] = s[i]
           /\ \A i \in 1 .. n : (s \o f)[Len(s) + i] = f[i]
           /\ \A i \in 1 .. Len(s) + n : i \notin 1 .. Len(s) => i - Len(s) \in 1 .. n /\ (s \o f)[i] = f[i - Len(s)]
<1>1. f \in Seq(S) /\ Len(f) = n
  OBVIOUS
<1>2. s \o f \in Seq(S) /\ Len(s \o f) = Len(s) + n /\ Len(s) \in Nat
  BY <1>1
<1>3. \A i \in 1 .. Len(s) : (s \o f)[i] = s[i]
  BY <1>1, <1>2
<1>4. \A i \in 1 .. n : (s \o f)[Len(s) + i] = f[i]
  BY <1>1, <1>2
<1>5. ASSUME NEW i \in 1 .. Len(s) + n, i \notin 1 .. Len(s)
      PROVE  i - Len(s) \in 1 .. n /\ (s \o f)[i] = f[i - Len(s)]
  BY <1>1, <1>2, <1>5
<1> QED
  BY <1>1, <1>2, <1>3, <1>4, <1>5

\* The block a start stands for is the first of the window that starts there.
LEMMA StartIs ==
    ASSUME blocks \in Seq(Pairs), NEW x, starting(x) # {}
    PROVE  \E i \in DOMAIN blocks :
              /\ first(starting(x)) = blocks[i] /\ blocks[i][1] = x /\ blocks[i] \in Pairs
              /\ \A j \in DOMAIN blocks : blocks[j][1] = x => i <= j
<1>1. starting(x) \in SUBSET (DOMAIN blocks)
  BY DEF starting
<1>2. PICK i \in starting(x) : first(starting(x)) = blocks[i] /\ \A j \in starting(x) : i <= j
  BY <1>1, FirstIs
<1>3. i \in DOMAIN blocks /\ blocks[i][1] = x /\ \A j \in DOMAIN blocks : blocks[j][1] = x => i <= j
  BY <1>2 DEF starting
<1>4. blocks[i] \in Pairs
  BY <1>3
<1> QED
  BY <1>2, <1>3, <1>4

\* A longer window gives every start the same block.
LEMMA StartKept ==
    ASSUME blocks \in Seq(Pairs), NEW n \in Nat, NEW f \in [1 .. n -> Pairs],
           blocks' = blocks \o f, NEW x, starting(x) # {}
    PROVE  starting(x)' # {} /\ first(starting(x))' = first(starting(x))
<1>0. /\ DOMAIN blocks = 1 .. Len(blocks) /\ Len(blocks) \in Nat
      /\ DOMAIN blocks' = 1 .. Len(blocks) + n
      /\ \A i \in 1 .. Len(blocks) : blocks'[i] = blocks[i]
  BY Appended
<1>1. PICK i \in DOMAIN blocks : /\ first(starting(x)) = blocks[i] /\ blocks[i][1] = x
                                 /\ \A j \in DOMAIN blocks : blocks[j][1] = x => i <= j
  BY StartIs
<1>2. i \in DOMAIN blocks' /\ blocks'[i] = blocks[i]
  BY <1>0, <1>1
<1>3. ASSUME NEW j \in DOMAIN blocks', blocks'[j][1] = x PROVE i <= j
  <2>1. CASE j \in 1 .. Len(blocks)
    BY <1>0, <1>1, <1>3, <2>1
  <2>2. CASE j \notin 1 .. Len(blocks)
    BY <1>0, <2>2
  <2> QED
    BY <2>1, <2>2
<1> DEFINE is == {j \in DOMAIN blocks' : blocks'[j][1] = x}
<1>4. i \in is /\ (\A j \in is : i <= j) /\ \A j \in is : j \in Nat
  BY <1>0, <1>1, <1>2, <1>3
<1>5. (CHOOSE k \in is : \A j \in is : k <= j) = i
  <2> HIDE DEF is
  <2>1. PICK c : c = CHOOSE k \in is : \A j \in is : k <= j
    OBVIOUS
  <2>2. c \in is /\ \A j \in is : c <= j
    BY <1>4, <2>1
  <2>3. c = i
    BY <1>4, <2>2
  <2> QED
    BY <2>1, <2>3
<1>6. starting(x)' = is
  BY DEF starting
<1> HIDE DEF is
<1>7. first(starting(x))' = blocks'[CHOOSE k \in is : \A j \in is : k <= j]
  BY <1>6 DEF first
<1> QED
  BY <1>1, <1>2, <1>4, <1>5, <1>6, <1>7

\* credit takes n bytes off the block it names, and closes it when none is left.
LEMMA CreditDoes ==
    ASSUME RxTyped, NEW x, NEW n \in Nat, NEW pk, credit(x, n, pk), x \in DOMAIN left => starting(x) # {}
    PROVE  /\ DOMAIN left' \subseteq DOMAIN left
           /\ \A z \in DOMAIN left' : left'[z] \in 1 .. Size
           /\ \A z \in DOMAIN left : z # x => z \in DOMAIN left' /\ left'[z] = left[z]
           /\ x \in DOMAIN left /\ x \in DOMAIN left /\ left[x] <= n => DOMAIN left' = DOMAIN left \ {x}
           /\ x \in DOMAIN left /\ x \in DOMAIN left /\ left[x] > n => x \in DOMAIN left' /\ left'[x] = left[x] - n
           /\ \A z \in DOMAIN packed' : z \in DOMAIN pk /\ packed'[z] = pk[z]
           /\ ~(x \in DOMAIN left /\ left[x] <= n) => packed' = pk /\ completed' = completed
           /\ \A z \in DOMAIN pk : z # x => z \in DOMAIN packed'
           /\ x \in DOMAIN left /\ x \in DOMAIN left /\ left[x] <= n => completed' = Append(completed, first(starting(x)))
           /\ completed' \in Seq(Pairs)
<1>0. Size \in Nat /\ \A z \in DOMAIN left : left[z] \in 1 .. Size
  BY GeometryAssumption DEF RxTyped
<1>1. CASE closes(x, n)
  <2>1. x \in DOMAIN left /\ left[x] <= n /\ left[x] \in Nat
    BY <1>0, <1>1 DEF closes
  <2>2. left' = [z \in DOMAIN left \ {x} |-> left[z]] /\ packed' = [z \in DOMAIN pk \ {x} |-> pk[z]]
    BY <1>1 DEF credit, without
  <2>3. completed' = Append(completed, first(starting(x)))
    BY <1>1 DEF credit
  <2>4. first(starting(x)) \in Pairs /\ completed \in Seq(Pairs)
    BY <2>1, StartIs DEF RxTyped
  <2>5. completed' \in Seq(Pairs)
    BY <2>3, <2>4
  <2>6. ~(left[x] > n)
    BY <2>1
  <2> QED
    BY <1>0, <2>1, <2>2, <2>3, <2>5, <2>6
<1>2. CASE ~closes(x, n)
  <2>1. ~(x \in DOMAIN left /\ left[x] <= n)
    BY <1>2 DEF closes
  <2>2. left' = [z \in DOMAIN left |-> IF z = x THEN left[z] - n ELSE left[z]] /\ packed' = pk /\ completed' = completed
    BY <1>2 DEF credit
  <2>3. ASSUME NEW z \in DOMAIN left PROVE left'[z] \in 1 .. Size
    <3>1. CASE z = x
      BY <1>0, <2>1, <2>2, <3>1
    <3>2. CASE z # x
      BY <1>0, <2>2, <3>2
    <3> QED
      BY <3>1, <3>2
  <2>4. completed \in Seq(Pairs)
    BY DEF RxTyped
  <2> QED
    BY <2>1, <2>2, <2>3, <2>4
<1> QED
  BY <1>1, <1>2

\* A raw packet is refused, or lands inside the block it is credited to.
LEMMA RawDoes ==
    ASSUME RxTyped, Window, NEW x \in Nat, NEW y \in Nat, AcceptRaw(x, y)
    PROVE  RxTyped' /\ Window' /\ WritesStayInside'
<1>0. Size \in Nat /\ Units = 0 .. (Size - 1)
  BY GeometryAssumption DEF Units
<1>1. CASE reject
  <2>1. /\ blocks' = blocks /\ left' = left /\ completed' = completed /\ packed' = packed
        /\ got' = got /\ mine' = mine /\ written' = written /\ no_more_blocks' = no_more_blocks
        /\ pc' = "cut" /\ held' = {}
    BY <1>1 DEF reject, rxVars
  <2>2. RxTyped'
    BY <2>1 DEF RxTyped
  <2>3. starting(1)' = starting(1) /\ \A z : starting(z)' = starting(z) /\ first(starting(z))' = first(starting(z))
    BY <2>1 DEF starting, first
  <2>4. Window'
    BY <2>1, <2>3 DEF Window
  <2> QED
    BY <2>1, <2>2, <2>4 DEF WritesStayInside
<1>2. CASE x < y /\ y <= Size /\ containing(x, y) # {} /\ credit(first(containing(x, y))[1], y - x, packed)
           /\ write(x, y) /\ accepted
  <2>1. blocks \in Seq(Pairs) /\ containing(x, y) \in SUBSET (DOMAIN blocks)
    BY DEF RxTyped, containing
  <2>2. PICK i \in containing(x, y) : first(containing(x, y)) = blocks[i]
    BY <1>2, <2>1, FirstIs
  <2>3. i \in DOMAIN blocks /\ blocks[i][1] <= x /\ y <= blocks[i][2] /\ blocks[i] \in Pairs
    BY <2>1, <2>2 DEF containing, contains
  <2>4. PICK z : z = blocks[i][1]
    OBVIOUS
  <2>5. credit(z, y - x, packed) /\ y - x \in Nat
    BY <1>2, <2>2, <2>4
  <2>6. starting(z) # {}
    BY <2>3, <2>4 DEF starting
  <2>7. /\ DOMAIN left' \subseteq DOMAIN left /\ \A w \in DOMAIN left' : left'[w] \in 1 .. Size
        /\ \A w \in DOMAIN packed' : w \in DOMAIN packed /\ packed'[w] = packed[w]
        /\ completed' \in Seq(Pairs)
    BY <2>5, <2>6, CreditDoes
  <2>8. /\ blocks' = blocks /\ held' = held /\ no_more_blocks' = no_more_blocks /\ pc' = "topup"
        /\ written' = x .. (y - 1) /\ got' = got \cup (x .. (y - 1)) /\ mine' = mine \cup (x .. (y - 1))
    BY <1>2 DEF write, accepted
  <2>9. x .. (y - 1) \subseteq Units
    BY <1>0, <1>2
  <2>10. RxTyped'
    BY <2>7, <2>8, <2>9 DEF RxTyped
  <2>11. \A w : starting(w)' = starting(w) /\ first(starting(w))' = first(starting(w))
    BY <2>8 DEF starting, first
  <2>12. Window'
    BY <2>7, <2>8, <2>11 DEF Window
  <2>13. x .. (y - 1) \subseteq UnitsOf(blocks[i])
    BY <2>3, PairIs
  <2>14. WritesStayInside'
    <3>1. i \in DOMAIN blocks' /\ written' \subseteq UnitsOf(blocks'[i])
      BY <2>3, <2>8, <2>13
    <3>2. WritesStayInside' <=> (pc' = "topup" => written' = {} \/ \E j \in DOMAIN blocks' : written' \subseteq UnitsOf(blocks'[j]))
      BY DEF WritesStayInside, UnitsOf
    <3> QED
      BY <3>1, <3>2
  <2> QED
    BY <2>10, <2>12, <2>14
<1> QED
  BY <1>1, <1>2 DEF AcceptRaw

\* A fragment of a stream is refused, or grows the inflated bytes inside its block.
LEMMA PackedDoes ==
    ASSUME RxTyped, Window, NEW x \in Nat, NEW n \in Nat, NEW ended, NEW surplus,
           AcceptPacked(x, n, ended, surplus)
    PROVE  RxTyped' /\ Window' /\ WritesStayInside'
<1>0. Size \in Nat /\ Units = 0 .. (Size - 1) /\ blocks \in Seq(Pairs)
  BY GeometryAssumption DEF Units, RxTyped
<1> DEFINE blk == first(starting(x))
           pb == IF x \in DOMAIN packed THEN packed[x] ELSE [written |-> 0, total |-> blk[2] - x]
           out == pb.written + n
           bad == over_or_short(out, pb.total, n, ended, surplus)
           grown == [z \in DOMAIN packed \cup {x} |-> IF z = x THEN [pb EXCEPT !.written = out] ELSE packed[z]]
<1>1. CASE reject
  <2>1. /\ blocks' = blocks /\ left' = left /\ completed' = completed /\ packed' = packed
        /\ got' = got /\ mine' = mine /\ written' = written /\ no_more_blocks' = no_more_blocks
        /\ pc' = "cut" /\ held' = {}
    BY <1>1 DEF reject, rxVars
  <2>2. RxTyped'
    BY <2>1 DEF RxTyped
  <2>3. \A z : starting(z)' = starting(z) /\ first(starting(z))' = first(starting(z))
    BY <2>1 DEF starting, first
  <2>4. Window'
    BY <2>1, <2>3 DEF Window
  <2> QED
    BY <2>1, <2>2, <2>4 DEF WritesStayInside
<1>2. ASSUME starting(x) # {}, out <= pb.total,
             \/ packed' = grown /\ written' = {} /\ UNCHANGED <<left, completed, got, mine>>
             \/ credit(x, n, grown) /\ write(x + pb.written, x + out),
             accepted
      PROVE  RxTyped' /\ Window' /\ WritesStayInside'
  <2>1. PICK i \in DOMAIN blocks : blk = blocks[i] /\ blocks[i][1] = x /\ blocks[i] \in Pairs
    BY <1>0, <1>2, StartIs
  <2>2. x \in Starts /\ blk[2] \in Nat /\ blk[2] <= Size /\ blk[2] - x \in 1 .. Size /\ x < blk[2]
    BY <2>1, PairIs
  <2>3. pb \in Streams /\ pb.total = blk[2] - x /\ pb.written \in Nat
    <3>1. CASE x \in DOMAIN packed
      <4>1. packed[x] \in Streams /\ packed[x].total = blk[2] - x
        BY <3>1 DEF RxTyped, Window
      <4>2. packed[x].written \in 0 .. Size
        BY <4>1 DEF Streams
      <4> QED
        BY <1>0, <3>1, <4>1, <4>2
    <3>2. CASE x \notin DOMAIN packed
      <4>1. pb = [written |-> 0, total |-> blk[2] - x]
        BY <3>2
      <4>2. 0 \in 0 .. Size
        BY <1>0
      <4> HIDE DEF pb, blk
      <4> QED
        BY <2>2, <4>1, <4>2 DEF Streams
    <3> QED
      BY <3>1, <3>2
  <2>4. PICK p : p = pb
    OBVIOUS
  <2>5. p \in Streams /\ p.total = blk[2] - x /\ p.written \in Nat /\ p.written + n <= p.total
    BY <1>2, <2>3, <2>4
  <2>6. PICK g : g = [p EXCEPT !.written = p.written + n]
    OBVIOUS
  <2>7. g \in Streams /\ g.total = blk[2] - x /\ g.written <= g.total
    <3>1. p.written + n \in 0 .. Size
      BY <1>0, <2>2, <2>5
    <3> HIDE DEF blk
    <3> QED
      BY <2>5, <2>6, <3>1 DEF Streams
  <2>8. grown = [z \in DOMAIN packed \cup {x} |-> IF z = x THEN g ELSE packed[z]]
    BY <2>4, <2>6
  <2> HIDE DEF grown, pb, out, blk, bad
  <2>9. DOMAIN grown \subseteq Starts /\ \A z \in DOMAIN grown : (z = x /\ grown[z] = g) \/ (z \in DOMAIN packed /\ grown[z] = packed[z])
    <3>1. DOMAIN packed \subseteq Starts
      BY DEF RxTyped
    <3>2. DOMAIN grown = DOMAIN packed \cup {x}
      BY <2>8
    <3>3. \A z \in DOMAIN packed \cup {x} : grown[z] = IF z = x THEN g ELSE packed[z]
      BY <2>8
    <3> QED
      BY <2>2, <3>1, <3>2, <3>3
  <2>10. \A z \in DOMAIN grown : /\ z \in Starts /\ grown[z] \in Streams /\ starting(z) # {}
                                 /\ grown[z].total = first(starting(z))[2] - z /\ grown[z].written <= grown[z].total
    BY <1>2, <2>7, <2>9 DEF RxTyped, Window, blk
  <2>11. /\ blocks' = blocks /\ held' = held /\ no_more_blocks' = no_more_blocks /\ pc' = "topup"
    BY <1>2 DEF accepted
  <2>12. \A z : starting(z)' = starting(z) /\ first(starting(z))' = first(starting(z))
    BY <2>11 DEF starting, first
  <2>13. /\ DOMAIN left' \subseteq DOMAIN left /\ \A w \in DOMAIN left' : left'[w] \in 1 .. Size
         /\ \A w \in DOMAIN packed' : w \in DOMAIN grown /\ packed'[w] = grown[w]
         /\ completed' \in Seq(Pairs)
    <3>1. CASE credit(x, n, grown)
      BY <1>2, <3>1, CreditDoes
    <3>2. CASE packed' = grown /\ UNCHANGED <<left, completed, got, mine>>
      BY <3>2 DEF RxTyped
    <3> QED
      BY <1>2, <3>1, <3>2
  <2>14. PICK v : v = x + p.written
    OBVIOUS
  <2>15. PICK w : w = v + n
    OBVIOUS
  <2>16. v \in Nat /\ w \in Nat /\ x <= v /\ w <= blk[2]
    BY <2>2, <2>5, <2>14, <2>15
  <2>17. \/ written' = {} /\ got' = got /\ mine' = mine
         \/ written' = v .. (w - 1) /\ got' = got \cup (v .. (w - 1)) /\ mine' = mine \cup (v .. (w - 1))
    <3>1. x + pb.written = v /\ x + out = w
      BY <2>4, <2>5, <2>14, <2>15 DEF out
    <3> QED
      BY <1>2, <3>1 DEF write
  <2>18. v .. (w - 1) \subseteq UnitsOf(blocks[i])
    BY <2>1, <2>16, PairIs
  <2>19. v .. (w - 1) \subseteq Units
    BY <2>1, <2>18, PairIs
  <2>20. RxTyped'
    BY <2>10, <2>11, <2>13, <2>17, <2>19 DEF RxTyped
  <2>21. Window'
    BY <2>10, <2>11, <2>12, <2>13 DEF Window
  <2>22. WritesStayInside'
    <3>1. i \in DOMAIN blocks' /\ (written' = {} \/ written' \subseteq UnitsOf(blocks'[i]))
      BY <2>1, <2>11, <2>17, <2>18
    <3>2. WritesStayInside' <=> (pc' = "topup" => written' = {} \/ \E j \in DOMAIN blocks' : written' \subseteq UnitsOf(blocks'[j]))
      BY DEF WritesStayInside, UnitsOf
    <3> QED
      BY <3>1, <3>2
  <2> QED
    BY <2>20, <2>21, <2>22
<1>3. \/ reject
      \/ starting(x) # {} /\ out <= pb.total /\ packed' = grown /\ written' = {} /\ UNCHANGED <<left, completed, got, mine>> /\ accepted
      \/ starting(x) # {} /\ out <= pb.total /\ credit(x, n, grown) /\ write(x + pb.written, x + out) /\ accepted
  BY DEF AcceptPacked
<1> QED
  BY <1>1, <1>2, <1>3

\* What the peer is asked for is what the session comes to hold.
LEMMA AskDoes ==
    ASSUME wire \in Seq(Requests), NEW own \in SUBSET Pairs, NEW T \in SUBSET Pairs, IsFiniteSet(T),
           \A s, t \in T : s[1] = t[1] => s = t, ask(own, T)
    PROVE  /\ held' = own \cup T /\ wire' \in Seq(Requests)
           /\ ~honest => wire' = wire
           /\ honest =>
                /\ Len(wire') = Len(wire) + Cardinality(T)
                /\ \A k \in 1 .. Len(wire) : wire'[k] = wire[k]
                /\ \A i \in 1 .. Cardinality(T) :
                     wire'[Len(wire) + i] = [block |-> InOrder(T)[i], pos |-> InOrder(T)[i][1], mode |-> "new"]
<1>1. Cardinality(T) \in Nat /\ \A i \in 1 .. Cardinality(T) : InOrder(T)[i] \in T
  BY OrderIsComplete
<1>2. PICK n : n = Cardinality(T)
  OBVIOUS
<1> DEFINE f == [i \in 1 .. n |-> [block |-> InOrder(T)[i], pos |-> InOrder(T)[i][1], mode |-> "new"]]
<1>3. ASSUME NEW i \in 1 .. n PROVE f[i] \in Requests
  <2>1. PICK t : t = InOrder(T)[i]
    OBVIOUS
  <2>2. t \in Pairs /\ t[1] \in Nat /\ t[1] <= Size
    <3>1. t \in Pairs
      BY <1>1, <1>2, <2>1
    <3> QED
      BY <3>1, PairIs, GeometryAssumption
  <2>3. f[i] = [block |-> t, pos |-> t[1], mode |-> "new"]
    BY <2>1
  <2>4. t[1] \in 0 .. Size
    BY <2>2, GeometryAssumption
  <2> QED
    BY <2>2, <2>3, <2>4 DEF Requests
<1>4. f \in [1 .. n -> Requests] /\ n \in Nat
  BY <1>1, <1>2, <1>3
<1>5. held' = own \cup T /\ (~honest => wire' = wire) /\ (honest => wire' = wire \o f)
  BY <1>2 DEF ask
<1>6. \A i \in 1 .. n : f[i] = [block |-> InOrder(T)[i], pos |-> InOrder(T)[i][1], mode |-> "new"]
  OBVIOUS
<1> HIDE DEF f
<1>7. /\ wire \o f \in Seq(Requests) /\ Len(wire \o f) = Len(wire) + n
      /\ \A k \in 1 .. Len(wire) : (wire \o f)[k] = wire[k]
      /\ \A i \in 1 .. n : (wire \o f)[Len(wire) + i] = f[i]
  BY <1>4, Appended
<1> QED
  BY <1>2, <1>5, <1>6, <1>7

\* The bytes a window expects of the blocks of T.
LEMMA ExpectedOf ==
    ASSUME NEW T \in SUBSET Pairs, \A s, t \in T : s[1] = t[1] => s = t
    PROVE  \A t \in T : /\ (CHOOSE blk \in T : blk[1] = t[1])[2] - t[1] = t[2] - t[1]
                        /\ t[2] - t[1] \in 1 .. Size /\ t[1] \in Starts
<1> TAKE t \in T
<1>1. (CHOOSE blk \in T : blk[1] = t[1]) = t
  <2>1. PICK c : c = CHOOSE blk \in T : blk[1] = t[1]
    OBVIOUS
  <2>2. c \in T /\ c[1] = t[1]
    BY <2>1
  <2>3. c = t
    BY <2>2
  <2> QED
    BY <2>1, <2>3
<1> QED
  BY <1>1, PairIs

\* A new window holds the blocks asked for, and expects all of their bytes.
LEMMA AskStep ==
    ASSUME TypeOK, Window, Ask
    PROVE  RxTyped' /\ wire' \in Seq(Requests) /\ Window' /\ WritesStayInside'
<1>0. got \subseteq Units /\ held \in SUBSET Pairs /\ wire \in Seq(Requests) /\ RxTyped
  BY DEF TypeOK, RxTyped
<1>1. PICK T \in take_blocks(held, MaxRequest) :
          \/ T = {} /\ pc' = "ended" /\ UNCHANGED <<rxVars, held, no_more_blocks, wire>>
          \/ /\ T # {} /\ ask(held, T)
             /\ blocks' = InOrder(T)
             /\ left' = [x \in {blk[1] : blk \in T} |-> (CHOOSE blk \in T : blk[1] = x)[2] - x]
             /\ completed' = <<>> /\ packed' = <<>>
             /\ no_more_blocks' = FALSE
             /\ pc' = "read"
  BY DEF Ask
<1>2. got' = got /\ mine' = mine /\ written' = written
  BY DEF Ask
<1>3. CASE T = {} /\ pc' = "ended" /\ UNCHANGED <<rxVars, held, no_more_blocks, wire>>
  <2>1. RxTyped' /\ wire' \in Seq(Requests)
    BY <1>0, <1>2, <1>3 DEF RxTyped, rxVars
  <2>2. \A z : starting(z)' = starting(z) /\ first(starting(z))' = first(starting(z))
    BY <1>3 DEF starting, first, rxVars
  <2>3. Window'
    BY <1>3, <2>2 DEF Window, rxVars
  <2> QED
    BY <1>3, <2>1, <2>3 DEF WritesStayInside
<1>4. CASE /\ T # {} /\ ask(held, T)
           /\ blocks' = InOrder(T)
           /\ left' = [x \in {blk[1] : blk \in T} |-> (CHOOSE blk \in T : blk[1] = x)[2] - x]
           /\ completed' = <<>> /\ packed' = <<>>
           /\ no_more_blocks' = FALSE
           /\ pc' = "read"
  <2>1. T \in SUBSET Pairs /\ IsFiniteSet(T) /\ \A s, t \in T : s[1] = t[1] => s = t
    BY <1>0, TakeDoes
  <2>2. held' = held \cup T /\ wire' \in Seq(Requests)
    BY <1>0, <1>4, <2>1, AskDoes
  <2>3. /\ Cardinality(T) \in Nat /\ InOrder(T) \in [1 .. Cardinality(T) -> T]
        /\ \A c \in T : \E i \in 1 .. Cardinality(T) : InOrder(T)[i] = c
    BY <2>1, OrderIsComplete
  <2>4. blocks' \in Seq(Pairs) /\ DOMAIN blocks' = 1 .. Cardinality(T) /\ \A c \in T : \E i \in DOMAIN blocks' : blocks'[i] = c
    BY <1>4, <2>1, <2>3
  <2>5. ASSUME NEW x \in DOMAIN left' PROVE x \in Starts /\ left'[x] \in 1 .. Size /\ \E t \in T : x = t[1]
    <3>1. PICK t \in T : x = t[1]
      BY <1>4, <2>5
    <3>2. left'[x] = (CHOOSE blk \in T : blk[1] = t[1])[2] - t[1]
      BY <1>4, <2>5, <3>1
    <3>3. (CHOOSE blk \in T : blk[1] = t[1])[2] - t[1] \in 1 .. Size /\ t[1] \in Starts
      BY <2>1, ExpectedOf
    <3> QED
      BY <3>1, <3>2, <3>3
  <2>6. completed' \in Seq(Pairs) /\ DOMAIN packed' = {}
    BY <1>4
  <2>7. RxTyped'
    BY <1>0, <1>2, <1>4, <2>1, <2>2, <2>4, <2>5, <2>6 DEF RxTyped
  <2>8. ASSUME NEW x \in DOMAIN left' PROVE starting(x)' # {}
    <3>1. PICK t \in T : x = t[1]
      BY <2>5
    <3>2. PICK i \in DOMAIN blocks' : blocks'[i] = t
      BY <2>4
    <3> QED
      BY <3>1, <3>2 DEF starting
  <2>9. Window'
    BY <1>4, <2>6, <2>8 DEF Window
  <2> QED
    BY <1>4, <2>2, <2>7, <2>9 DEF WritesStayInside
<1> QED
  BY <1>1, <1>3, <1>4

\* The blocks of a pick whose start is not in flight.
News(T) == {blk \in T : blk[1] \notin DOMAIN left}

\* add_blocks appends the new blocks and expects all of their bytes.
LEMMA AddDoes ==
    ASSUME RxTyped, NEW T \in SUBSET Pairs, IsFiniteSet(T), \A s, t \in T : s[1] = t[1] => s = t,
           add_blocks(T)
    PROVE  /\ Cardinality(News(T)) \in Nat
           /\ InOrder(News(T)) \in [1 .. Cardinality(News(T)) -> Pairs]
           /\ blocks' = blocks \o InOrder(News(T)) /\ blocks' \in Seq(Pairs)
           /\ \A t \in News(T) : \E i \in DOMAIN blocks' : blocks'[i] = t
           /\ \A x : x \in DOMAIN left' <=> x \in DOMAIN left \/ \E t \in News(T) : x = t[1]
           /\ \A x \in DOMAIN left : left'[x] = left[x]
           /\ \A t \in News(T) : left'[t[1]] = t[2] - t[1]
           /\ \A x \in DOMAIN left' : x \in Starts /\ left'[x] \in 1 .. Size
<1>0. blocks \in Seq(Pairs) /\ Len(blocks) \in Nat
  BY DEF RxTyped
<1>1. /\ News(T) \in SUBSET Pairs /\ News(T) \in SUBSET T
      /\ \A s, t \in News(T) : s[1] = t[1] => s = t
      /\ \A t \in News(T) : t[1] \notin DOMAIN left
  BY DEF News
<1>2. IsFiniteSet(News(T))
  BY <1>1, FS_Subset
<1>3. PICK N : N = News(T)
  OBVIOUS
<1>4. /\ Cardinality(N) \in Nat /\ InOrder(N) \in [1 .. Cardinality(N) -> N]
      /\ \A c \in N : \E i \in 1 .. Cardinality(N) : InOrder(N)[i] = c
  BY <1>1, <1>2, <1>3, OrderIsComplete
<1>5. InOrder(N) \in [1 .. Cardinality(N) -> Pairs]
  BY <1>1, <1>3, <1>4
<1>6. /\ blocks' = blocks \o InOrder(N)
      /\ left' = [x \in DOMAIN left \cup {blk[1] : blk \in N} |->
                    IF x \in DOMAIN left THEN left[x] ELSE (CHOOSE blk \in N : blk[1] = x)[2] - x]
  BY <1>3 DEF add_blocks, News
<1>7. /\ blocks' \in Seq(Pairs) /\ DOMAIN blocks' = 1 .. Len(blocks) + Cardinality(N)
      /\ \A i \in 1 .. Cardinality(N) : blocks'[Len(blocks) + i] = InOrder(N)[i]
  <2>1. PICK f : f = InOrder(N)
    OBVIOUS
  <2>2. PICK n : n = Cardinality(N)
    OBVIOUS
  <2>3. n \in Nat /\ f \in [1 .. n -> Pairs] /\ blocks' = blocks \o f
    BY <1>4, <1>5, <1>6, <2>1, <2>2
  <2>4. /\ blocks \o f \in Seq(Pairs) /\ Len(blocks \o f) = Len(blocks) + n
        /\ \A i \in 1 .. n : (blocks \o f)[Len(blocks) + i] = f[i]
    BY <1>0, <2>3, Appended
  <2>5. blocks' \in Seq(Pairs) /\ Len(blocks') = Len(blocks) + n
    BY <2>3, <2>4
  <2>6. DOMAIN blocks' = 1 .. Len(blocks) + n
    BY <2>5
  <2> QED
    BY <2>1, <2>2, <2>3, <2>4, <2>5, <2>6
<1>8. ASSUME NEW t \in N PROVE \E i \in DOMAIN blocks' : blocks'[i] = t
  <2>1. PICK i \in 1 .. Cardinality(N) : InOrder(N)[i] = t
    BY <1>4
  <2>2. Len(blocks) + i \in DOMAIN blocks'
    BY <1>0, <1>4, <1>7
  <2> QED
    BY <1>7, <2>1, <2>2
<1>9. \A x : x \in DOMAIN left' <=> x \in DOMAIN left \/ \E t \in N : x = t[1]
  BY <1>6
<1>10. \A x \in DOMAIN left : left'[x] = left[x]
  BY <1>6
<1>11. ASSUME NEW t \in N PROVE left'[t[1]] = t[2] - t[1] /\ t[2] - t[1] \in 1 .. Size /\ t[1] \in Starts
  <2>1. t[1] \in DOMAIN left' /\ t[1] \notin DOMAIN left
    BY <1>1, <1>3, <1>9
  <2>2. left'[t[1]] = (CHOOSE blk \in N : blk[1] = t[1])[2] - t[1]
    BY <1>6, <2>1
  <2>3. /\ (CHOOSE blk \in N : blk[1] = t[1])[2] - t[1] = t[2] - t[1]
        /\ t[2] - t[1] \in 1 .. Size /\ t[1] \in Starts
    BY <1>1, <1>3, ExpectedOf
  <2> QED
    BY <2>2, <2>3
<1>12. ASSUME NEW x \in DOMAIN left' PROVE x \in Starts /\ left'[x] \in 1 .. Size
  <2>1. CASE x \in DOMAIN left
    BY <1>10, <2>1 DEF RxTyped
  <2>2. CASE \E t \in N : x = t[1]
    BY <1>11, <2>2
  <2> QED
    BY <1>9, <2>1, <2>2
<1> QED
  BY <1>3, <1>4, <1>5, <1>6, <1>7, <1>8, <1>9, <1>10, <1>11, <1>12

\* The top-up keeps the window, and appends to it.
LEMMA TopUpStep ==
    ASSUME TypeOK, Window, TopUp
    PROVE  RxTyped' /\ wire' \in Seq(Requests) /\ Window' /\ WritesStayInside'
<1>0. got \subseteq Units /\ held \in SUBSET Pairs /\ wire \in Seq(Requests) /\ RxTyped /\ blocks \in Seq(Pairs)
  BY DEF TypeOK, RxTyped
<1>1. completed' = <<>> /\ pc' = "read" /\ packed' = packed /\ got' = got /\ mine' = mine /\ written' = written
  BY DEF TopUp
<1>2. PICK kept \in SUBSET held :
        \/ held' = kept /\ UNCHANGED <<blocks, left, no_more_blocks, wire>>
        \/ \E T \in take_blocks(kept, Len(completed)) :
              no_more_blocks' = (T = {}) /\ ask(kept, T) /\ add_blocks(T)
  <2>1. held \ {completed[i] : i \in DOMAIN completed} \in SUBSET held
    OBVIOUS
  <2> QED
    BY <2>1 DEF TopUp
<1>3. completed' \in Seq(Pairs) /\ kept \in SUBSET Pairs
  BY <1>0, <1>1
<1>4. CASE held' = kept /\ UNCHANGED <<blocks, left, no_more_blocks, wire>>
  <2>1. RxTyped' /\ wire' \in Seq(Requests)
    BY <1>0, <1>1, <1>3, <1>4 DEF RxTyped
  <2>2. \A z : starting(z)' = starting(z) /\ first(starting(z))' = first(starting(z))
    BY <1>4 DEF starting, first
  <2>3. Window'
    BY <1>1, <1>4, <2>2 DEF Window
  <2> QED
    BY <1>1, <2>1, <2>3 DEF WritesStayInside
<1>5. ASSUME NEW T \in take_blocks(kept, Len(completed)),
             no_more_blocks' = (T = {}), ask(kept, T), add_blocks(T)
      PROVE  RxTyped' /\ wire' \in Seq(Requests) /\ Window' /\ WritesStayInside'
  <2>1. T \in SUBSET Pairs /\ IsFiniteSet(T) /\ \A s, t \in T : s[1] = t[1] => s = t
    BY <1>0, TakeDoes
  <2>2. held' = kept \cup T /\ wire' \in Seq(Requests)
    BY <1>0, <1>3, <1>5, <2>1, AskDoes
  <2>3. PICK N : N = News(T)
    OBVIOUS
  <2>4. /\ Cardinality(N) \in Nat
        /\ InOrder(N) \in [1 .. Cardinality(N) -> Pairs]
        /\ blocks' = blocks \o InOrder(N) /\ blocks' \in Seq(Pairs)
        /\ \A t \in N : \E i \in DOMAIN blocks' : blocks'[i] = t
        /\ \A x : x \in DOMAIN left' <=> x \in DOMAIN left \/ \E t \in N : x = t[1]
        /\ \A x \in DOMAIN left' : x \in Starts /\ left'[x] \in 1 .. Size
    <3>1. /\ Cardinality(News(T)) \in Nat
          /\ InOrder(News(T)) \in [1 .. Cardinality(News(T)) -> Pairs]
          /\ blocks' = blocks \o InOrder(News(T)) /\ blocks' \in Seq(Pairs)
          /\ \A t \in News(T) : \E i \in DOMAIN blocks' : blocks'[i] = t
          /\ \A x : x \in DOMAIN left' <=> x \in DOMAIN left \/ \E t \in News(T) : x = t[1]
          /\ \A x \in DOMAIN left' : x \in Starts /\ left'[x] \in 1 .. Size
      BY <1>0, <1>5, <2>1, AddDoes
    <3> QED
      BY <2>3, <3>1
  <2>5. no_more_blocks' \in BOOLEAN
    BY <1>5
  <2>6. RxTyped'
    <3>1. held' \subseteq Pairs /\ DOMAIN left' \subseteq Starts
      BY <1>3, <2>1, <2>2, <2>4
    <3> QED
      BY <1>0, <1>1, <1>3, <2>4, <2>5, <3>1 DEF RxTyped
  <2>7. ASSUME NEW x, starting(x) # {} PROVE starting(x)' # {} /\ first(starting(x))' = first(starting(x))
    BY <1>0, <2>4, <2>7, StartKept
  <2>8. ASSUME NEW x \in DOMAIN left' PROVE starting(x)' # {}
    <3>1. CASE x \in DOMAIN left
      BY <2>7, <3>1 DEF Window
    <3>2. CASE \E t \in N : x = t[1]
      <4>1. PICK t \in N : x = t[1]
        BY <3>2
      <4>2. PICK i \in DOMAIN blocks' : blocks'[i] = t
        BY <2>4
      <4> QED
        BY <4>1, <4>2 DEF starting
    <3> QED
      BY <2>4, <3>1, <3>2
  <2>9. Window'
    BY <1>1, <2>7, <2>8 DEF Window
  <2> QED
    BY <1>1, <2>2, <2>6, <2>9 DEF WritesStayInside
<1> QED
  BY <1>2, <1>4, <1>5

\* The honest peer moves on in its head request, or to the next one.
LEMMA ServedDoes ==
    ASSUME wire \in Seq(Requests), wire # <<>>, NEW to \in 0 .. Size, NEW how \in {"raw", "packed"},
           served(to, how)
    PROVE  /\ wire' \in Seq(Requests)
           /\ to = wire[1].block[2] =>
                Len(wire') = Len(wire) - 1 /\ \A k \in 1 .. Len(wire) - 1 : wire'[k] = wire[k + 1]
           /\ to # wire[1].block[2] =>
                /\ Len(wire') = Len(wire) /\ wire'[1] = [wire[1] EXCEPT !.pos = to, !.mode = how]
                /\ \A k \in 2 .. Len(wire) : wire'[k] = wire[k]
<1>1. Len(wire) \in Nat /\ Len(wire) >= 1 /\ Head(wire) = wire[1] /\ wire[1] \in Requests
  OBVIOUS
<1>2. Tail(wire) \in Seq(Requests) /\ Len(Tail(wire)) = Len(wire) - 1 /\ \A k \in 1 .. Len(wire) - 1 : Tail(wire)[k] = wire[k + 1]
  BY <1>1
<1>3. CASE to = wire[1].block[2]
  <2>1. wire' = Tail(wire)
    BY <1>1, <1>3 DEF served
  <2> QED
    BY <1>2, <1>3, <2>1
<1>4. CASE to # wire[1].block[2]
  <2>1. PICK e : e = [wire[1] EXCEPT !.pos = to, !.mode = how]
    OBVIOUS
  <2>2. e \in Requests
    BY <1>1, <2>1 DEF Requests
  <2>3. wire' = <<e>> \o Tail(wire)
    BY <1>1, <1>4, <2>1 DEF served
  <2>4. <<e>> \in Seq(Requests) /\ Len(<<e>>) = 1 /\ <<e>>[1] = e
    BY <2>2
  <2>5. PICK s \in Seq(Requests) : s = <<e>>
    BY <2>4
  <2>6. PICK t \in Seq(Requests) : t = Tail(wire)
    BY <1>2
  <2>7. Len(t) = Len(wire) - 1 /\ Len(s) = 1 /\ s[1] = e /\ wire' = s \o t
    BY <1>2, <2>3, <2>4, <2>5, <2>6
  <2>a. t \in [1 .. Len(t) -> Requests] /\ Len(t) \in Nat
    OBVIOUS
  <2>b. /\ s \o t \in Seq(Requests) /\ Len(s \o t) = Len(s) + Len(t)
        /\ \A k \in 1 .. Len(s) : (s \o t)[k] = s[k]
        /\ \A k \in 1 .. Len(t) : (s \o t)[Len(s) + k] = t[k]
    BY <2>a, Appended
  <2>8. wire' \in Seq(Requests) /\ Len(wire') = Len(wire) /\ wire'[1] = e
    BY <1>1, <2>7, <2>b
  <2>9. ASSUME NEW k \in 2 .. Len(wire) PROVE wire'[k] = wire[k]
    <3>1. k \in Nat /\ k - 1 \in 1 .. Len(wire) - 1 /\ (k - 1) + 1 = k /\ 1 + (k - 1) = k
      BY <1>1
    <3>2. wire'[k] = t[k - 1]
      BY <2>7, <2>b, <3>1
    <3>3. t[k - 1] = wire[(k - 1) + 1]
      BY <1>2, <2>6, <3>1
    <3> QED
      BY <3>1, <3>2, <3>3
  <2> QED
    BY <1>4, <2>1, <2>8, <2>9
<1> QED
  BY <1>3, <1>4

\* Every step keeps the types and the window, and its write inside one block.
LEMMA WindowStep ==
    ASSUME TypeOK, Window, WritesStayInside, [Next]_vars
    PROVE  TypeOK' /\ Window' /\ WritesStayInside'
<1>0. RxTyped /\ honest \in BOOLEAN /\ wire \in Seq(Requests) /\ late \subseteq Starts /\ Size \in Nat
  BY TypesAre, GeometryAssumption
<1> USE <1>0
<1>1. ASSUME RxTyped', wire' \in Seq(Requests), late' \subseteq Starts, honest' = honest PROVE TypeOK'
  BY <1>1, TypesNext
<1>2. CASE Ask /\ late' = late /\ honest' = honest
  BY <1>1, <1>2, AskStep
<1>3. CASE TopUp /\ late' = late /\ honest' = honest
  BY <1>1, <1>3, TopUpStep
<1>h. ASSUME wire # <<>> PROVE Head(wire) = wire[1] /\ wire[1] \in Requests /\ wire[1].pos \in 0 .. Size /\ wire[1].block[2] \in 0 .. Size /\ wire[1].block[1] \in Starts /\ wire[1].block[1] \in Nat
  <2>1. Head(wire) = wire[1] /\ wire[1] \in Requests
    BY <1>h
  <2>2. wire[1].pos \in 0 .. Size /\ wire[1].block \in Pairs
    BY <2>1 DEF Requests
  <2> QED
    BY <2>1, <2>2, PairIs
<1>4. CASE ServeRaw /\ late' = late /\ honest' = honest
  <2>0. wire # <<>>
    BY <1>4 DEF ServeRaw
  <2>1. PICK y \in (Head(wire).pos + 1) .. Head(wire).block[2] : AcceptRaw(Head(wire).pos, y) /\ served(y, "raw")
    BY <1>4 DEF ServeRaw
  <2>2. Head(wire).pos \in Nat /\ y \in Nat /\ y \in 0 .. Size
    BY <1>h, <2>0
  <2>3. RxTyped' /\ Window' /\ WritesStayInside'
    BY <2>1, <2>2, RawDoes
  <2>4. wire' \in Seq(Requests)
    BY <2>0, <2>1, <2>2, ServedDoes
  <2> QED
    BY <1>1, <1>4, <2>3, <2>4
<1>5. CASE ServePacked /\ honest' = honest
  <2>0. wire # <<>>
    BY <1>5 DEF ServePacked
  <2>1. PICK y \in Head(wire).pos .. Head(wire).block[2], ended \in BOOLEAN :
           /\ AcceptPacked(Head(wire).block[1], y - Head(wire).pos, ended, FALSE)
           /\ served(y, "packed")
           /\ late' = IF y = Head(wire).block[2] /\ ~ended THEN {Head(wire).block[1]} ELSE {}
    BY <1>5 DEF ServePacked
  <2>2. Head(wire).block[1] \in Nat /\ y - Head(wire).pos \in Nat /\ y \in 0 .. Size
    BY <1>h, <2>0
  <2>3. RxTyped' /\ Window' /\ WritesStayInside'
    BY <2>1, <2>2, PackedDoes
  <2>4. wire' \in Seq(Requests)
    BY <2>0, <2>1, <2>2, ServedDoes
  <2>5. late' \subseteq Starts
    BY <1>h, <2>0, <2>1
  <2> QED
    BY <1>1, <1>5, <2>3, <2>4, <2>5
<1>t. CASE ServeTrailer /\ honest' = honest
  <2>1. PICK x \in late : \/ reject /\ late' = late
                          \/ (\E n \in 0 .. 1 : AcceptPacked(x, n, FALSE, FALSE)) /\ late' \in {late, {}}
    BY <1>t DEF ServeTrailer
  <2>2. x \in Nat /\ wire' = wire /\ late' \subseteq Starts
    <3>1. wire' = wire
      BY <1>t DEF ServeTrailer
    <3>2. x \in Starts /\ late' \subseteq Starts
      BY <2>1
    <3> QED
      BY <3>1, <3>2 DEF Starts
  <2>3. CASE reject
    <3>1. RxTyped'
      BY <2>3 DEF reject, rxVars, RxTyped
    <3>2. \A z : starting(z)' = starting(z) /\ first(starting(z))' = first(starting(z))
      BY <2>3 DEF reject, rxVars, starting, first
    <3>3. Window'
      BY <2>3, <3>2 DEF reject, rxVars, Window
    <3>4. WritesStayInside'
      BY <2>3 DEF reject, WritesStayInside
    <3> QED
      BY <1>1, <1>t, <2>2, <3>1, <3>3, <3>4
  <2>4. ASSUME NEW n \in 0 .. 1, AcceptPacked(x, n, FALSE, FALSE) PROVE RxTyped' /\ Window' /\ WritesStayInside'
    <3>1. n \in Nat
      OBVIOUS
    <3> QED
      BY <2>2, <2>4, <3>1, PackedDoes
  <2> QED
    BY <1>1, <1>t, <2>1, <2>2, <2>3, <2>4
<1>6. CASE SendAnything /\ late' = late /\ honest' = honest
  <2>1. wire' \in Seq(Requests)
    BY <1>6 DEF SendAnything
  <2>2. ASSUME NEW x \in 0 .. (Size + 1), NEW y \in 0 .. (Size + 1), AcceptRaw(x, y)
        PROVE  RxTyped' /\ Window' /\ WritesStayInside'
    BY <2>2, RawDoes
  <2>3. ASSUME NEW x \in 0 .. Size, NEW n \in 0 .. Size, NEW ended \in BOOLEAN, NEW surplus \in BOOLEAN,
               AcceptPacked(x, n, ended, surplus)
        PROVE  RxTyped' /\ Window' /\ WritesStayInside'
    BY <2>3, PackedDoes
  <2>4. RxTyped' /\ Window' /\ WritesStayInside'
    BY <1>6, <2>2, <2>3 DEF SendAnything
  <2> QED
    BY <1>1, <1>6, <2>1, <2>4
<1>7. CASE WindowDone /\ late' = late /\ honest' = honest
  <2>1. /\ rxVars' = rxVars /\ held' = held /\ got' = got /\ mine' = mine /\ written' = written
        /\ no_more_blocks' = no_more_blocks /\ wire' = wire /\ pc' = "ask" /\ DOMAIN left = {}
    BY <1>7 DEF WindowDone, is_done
  <2>2. RxTyped'
    BY <2>1 DEF RxTyped, rxVars
  <2>3. \A z : starting(z)' = starting(z) /\ first(starting(z))' = first(starting(z))
    BY <2>1 DEF starting, first, rxVars
  <2>4. Window'
    BY <2>1, <2>3 DEF Window, rxVars
  <2> QED
    BY <1>1, <1>7, <2>1, <2>2, <2>4 DEF WritesStayInside
<1>8. CASE OthersCommit /\ late' = late /\ honest' = honest
  <2>1. PICK u \in gaps : got' = got \cup {u}
    BY <1>8 DEF OthersCommit
  <2>2. /\ rxVars' = rxVars /\ held' = held /\ mine' = mine /\ written' = written
        /\ no_more_blocks' = no_more_blocks /\ wire' = wire /\ pc' = pc
    BY <1>8 DEF OthersCommit
  <2>3. u \in Units
    BY DEF gaps
  <2>4. RxTyped'
    BY <2>1, <2>2, <2>3 DEF RxTyped, rxVars
  <2>5. \A z : starting(z)' = starting(z) /\ first(starting(z))' = first(starting(z))
    BY <2>2 DEF starting, first, rxVars
  <2>6. Window'
    BY <2>2, <2>5 DEF Window, rxVars
  <2>7. WritesStayInside'
    BY <2>2 DEF WritesStayInside, UnitsOf, rxVars
  <2> QED
    BY <1>1, <1>8, <2>2, <2>4, <2>6, <2>7
<1>9. CASE UNCHANGED vars
  <2>1. rxVars' = rxVars /\ blocks' = blocks
    BY <1>9 DEF vars, rxVars
  <2>2. TypeOK'
    BY <1>9 DEF vars, rxVars, TypeOK
  <2>3. \A z : starting(z)' = starting(z) /\ first(starting(z))' = first(starting(z))
    BY <2>1 DEF starting, first
  <2>4. Window'
    BY <1>9, <2>3 DEF Window, vars, rxVars
  <2>5. WritesStayInside'
    BY <1>9 DEF WritesStayInside, UnitsOf, vars, rxVars
  <2> QED
    BY <2>2, <2>4, <2>5
<1> QED
  BY <1>2, <1>3, <1>4, <1>5, <1>6, <1>7, <1>8, <1>9, <1>t DEF Next

-----------------------------------------------------------------------------
(* The window of an honest peer *)

\* The parts of the invariant, spelled out for the next state.
LEMMA MainNext ==
    Main' = {i \in DOMAIN blocks' :
               \A j \in DOMAIN blocks' : j < i => UnitsOf(blocks'[j]) \cap UnitsOf(blocks'[i]) = {}}
BY DEF Main, UnitsOf

\* Cover in the next state.
LEMMA CoverNext == Cover' = UNION {UnitsOf(blocks'[i]) : i \in DOMAIN blocks'}
BY DEF Cover, UnitsOf

\* Nested in the next state.
LEMMA NestedNext ==
    Nested' <=> \A i, j \in DOMAIN blocks' :
                   i < j => \/ UnitsOf(blocks'[i]) \cap UnitsOf(blocks'[j]) = {}
                            \/ UnitsOf(blocks'[j]) \subseteq UnitsOf(blocks'[i])
BY DEF Nested, UnitsOf

\* AllSealed in the next state.
LEMMA AllSealedNext ==
    AllSealed' <=> /\ \A i \in DOMAIN blocks' : SealedIn(blocks'[i], gaps')
                   /\ \A h \in held' : SealedIn(h, gaps')
BY DEF AllSealed, Sealed, SealedIn, UnitsOf, CellOf, PartOf

\* HeldCovered in the next state.
LEMMA HeldCoveredNext == HeldCovered' <=> \A h \in held' : UnitsOf(h) \cap gaps' \subseteq Cover'
BY DEF HeldCovered, UnitsOf

\* MainHeld in the next state.
LEMMA MainHeldNext ==
    MainHeld' <=> \A i \in Main' : blocks'[i][1] \in DOMAIN left' => blocks'[i] \in held'
BY DEF MainHeld

\* MainDone in the next state.
LEMMA MainDoneNext ==
    MainDone' <=> \A i \in Main' : blocks'[i][1] \notin DOMAIN left' => UnitsOf(blocks'[i]) \subseteq mine'
BY DEF MainDone, UnitsOf

\* Due in the next state.
DueNext(e, blk) ==
    /\ e.block = blk /\ blk[1] \in DOMAIN left'
    /\ blk[1] <= e.pos /\ left'[blk[1]] = blk[2] - e.pos
    /\ UnitsOf(blk) \cap mine' = blk[1] .. (e.pos - 1)
    /\ e.mode = "new" => e.pos = blk[1] /\ blk[1] \notin DOMAIN packed'
    /\ e.mode = "packed" => blk[1] \in DOMAIN packed' /\ packed'[blk[1]].written = e.pos - blk[1]

\* OnTheWire in the next state.
LEMMA WireNext ==
    ASSUME NEW m
    PROVE  OnTheWire(m)' <=>
             /\ \A k \in 1 .. m : \E i \in Main' : DueNext(wire'[k], blocks'[i])
             /\ \A k, l \in 1 .. m : wire'[k].block = wire'[l].block => k = l
             /\ \A i \in Main' : blocks'[i][1] \in DOMAIN left' => \E k \in 1 .. m : wire'[k].block = blocks'[i]
             /\ m < Len(wire') => gaps' \subseteq Cover'
BY DEF OnTheWire, Due, DueNext, UnitsOf

\* An orderly next state, from its parts.
LEMMA OrderlyNext ==
    ASSUME Nested', AllSealed', HeldCovered', MainHeld', MainDone', NEW m \in 0 .. Len(wire'), OnTheWire(m)'
    PROVE  Orderly'
<1>1. \E k \in 0 .. Len(wire') : OnTheWire(k)'
  OBVIOUS
<1> QED
  BY <1>1 DEF Orderly

\* A block stays sealed while gaps close.
LEMMA SealedShrink ==
    ASSUME NEW blk, NEW g, NEW h \in SUBSET g, SealedIn(blk, g)
    PROVE  SealedIn(blk, h)
BY DEF SealedIn

\* Every block of the window lies inside a main one.
LEMMA InsideMain ==
    ASSUME blocks \in Seq(Pairs), Nested, NEW i \in DOMAIN blocks
    PROVE  \E j \in Main : UnitsOf(blocks[i]) \subseteq UnitsOf(blocks[j])
<1>0. DOMAIN blocks = 1 .. Len(blocks) /\ Len(blocks) \in Nat /\ \A j \in DOMAIN blocks : j \in Nat /\ blocks[j] \in Pairs
  OBVIOUS
<1> DEFINE D == {j \in DOMAIN blocks : UnitsOf(blocks[j]) \cap UnitsOf(blocks[i]) # {}}
<1>1. i \in D /\ D \in SUBSET Nat
  <2>1. blocks[i][1] \in UnitsOf(blocks[i])
    BY <1>0, PairIs
  <2> QED
    BY <1>0, <2>1
<1>2. PICK j \in D : \A l \in D : j <= l
  <2> HIDE DEF D
  <2> QED
    BY <1>1, LeastNat
<1>3. j \in DOMAIN blocks /\ UnitsOf(blocks[j]) \cap UnitsOf(blocks[i]) # {} /\ j <= i
  BY <1>1, <1>2
<1>4. UnitsOf(blocks[i]) \subseteq UnitsOf(blocks[j])
  <2>1. CASE j = i
    BY <2>1
  <2>2. CASE j < i
    BY <1>3, <2>2 DEF Nested
  <2> QED
    BY <1>0, <1>3, <2>1, <2>2
<1>5. ASSUME NEW l \in DOMAIN blocks, l < j PROVE UnitsOf(blocks[l]) \cap UnitsOf(blocks[j]) = {}
  <2> SUFFICES ASSUME UnitsOf(blocks[l]) \cap UnitsOf(blocks[j]) # {} PROVE FALSE
    OBVIOUS
  <2>1. UnitsOf(blocks[j]) \subseteq UnitsOf(blocks[l])
    BY <1>3, <1>5 DEF Nested
  <2>2. l \in D
    BY <1>3, <2>1
  <2>3. j <= l
    BY <1>2, <2>2
  <2> QED
    BY <1>0, <1>3, <1>5, <2>3
<1>6. j \in Main
  BY <1>3, <1>5 DEF Main
<1> QED
  BY <1>4, <1>6

\* Main blocks are apart: no two of them share a byte, or a start.
LEMMA MainsApart ==
    ASSUME blocks \in Seq(Pairs), NEW i \in Main, NEW j \in Main, i # j
    PROVE  /\ UnitsOf(blocks[i]) \cap UnitsOf(blocks[j]) = {} /\ blocks[i][1] # blocks[j][1]
           /\ blocks[i] # blocks[j]
<1>1. i \in DOMAIN blocks /\ j \in DOMAIN blocks /\ i \in Nat /\ j \in Nat /\ blocks[i] \in Pairs /\ blocks[j] \in Pairs
  <2>1. i \in DOMAIN blocks /\ j \in DOMAIN blocks
    BY DEF Main
  <2> QED
    BY <2>1
<1>2. i < j \/ j < i
  BY <1>1
<1>3. UnitsOf(blocks[i]) \cap UnitsOf(blocks[j]) = {}
  BY <1>1, <1>2 DEF Main
<1>4. blocks[i][1] \in UnitsOf(blocks[i]) /\ blocks[j][1] \in UnitsOf(blocks[j])
  BY <1>1, PairIs
<1> QED
  BY <1>3, <1>4

\* What falls inside a main block is credited to it, and its start stands for it.
LEMMA MainIsFirst ==
    ASSUME blocks \in Seq(Pairs), NEW i \in Main
    PROVE  /\ starting(blocks[i][1]) # {} /\ first(starting(blocks[i][1])) = blocks[i]
           /\ \A x, y \in Nat : blocks[i][1] <= x /\ x < y /\ y <= blocks[i][2] =>
                 containing(x, y) # {} /\ first(containing(x, y)) = blocks[i]
<1>0. /\ i \in DOMAIN blocks /\ \A j \in DOMAIN blocks : j \in Nat /\ blocks[j] \in Pairs
      /\ \A j \in DOMAIN blocks : j < i => UnitsOf(blocks[j]) \cap UnitsOf(blocks[i]) = {}
  <2>1. i \in DOMAIN blocks /\ \A j \in DOMAIN blocks : j < i => UnitsOf(blocks[j]) \cap UnitsOf(blocks[i]) = {}
    BY DEF Main
  <2> QED
    BY <2>1
<1>1. ASSUME NEW is \in SUBSET (DOMAIN blocks), i \in is, NEW u \in UnitsOf(blocks[i]),
             \A j \in is : u \in UnitsOf(blocks[j])
      PROVE  first(is) = blocks[i]
  <2>1. PICK j \in is : first(is) = blocks[j] /\ \A l \in is : j <= l
    BY <1>1, FirstIs
  <2>2. j <= i /\ ~(j < i)
    BY <1>0, <1>1, <2>1
  <2>3. j = i
    BY <1>0, <2>1, <2>2
  <2> QED
    BY <2>1, <2>3
<1>2. starting(blocks[i][1]) # {} /\ first(starting(blocks[i][1])) = blocks[i]
  <2>1. starting(blocks[i][1]) \in SUBSET (DOMAIN blocks) /\ i \in starting(blocks[i][1])
    BY <1>0 DEF starting
  <2>2. \A j \in starting(blocks[i][1]) : blocks[i][1] \in UnitsOf(blocks[j])
    BY <1>0, PairIs DEF starting
  <2> QED
    BY <1>1, <2>1, <2>2
<1>3. ASSUME NEW x \in Nat, NEW y \in Nat, blocks[i][1] <= x, x < y, y <= blocks[i][2]
      PROVE  containing(x, y) # {} /\ first(containing(x, y)) = blocks[i]
  <2>1. containing(x, y) \in SUBSET (DOMAIN blocks) /\ i \in containing(x, y)
    BY <1>0, <1>3 DEF containing, contains
  <2>2. ASSUME NEW j \in containing(x, y) PROVE x \in UnitsOf(blocks[j])
    <3>1. j \in DOMAIN blocks /\ blocks[j][1] <= x /\ y <= blocks[j][2]
      BY DEF containing, contains
    <3>2. blocks[j][2] \in Nat /\ \A u : u \in UnitsOf(blocks[j]) <=> u \in Nat /\ blocks[j][1] <= u /\ u < blocks[j][2]
      BY <1>0, <3>1, PairIs
    <3>3. x < blocks[j][2]
      BY <1>3, <3>1, <3>2
    <3> QED
      BY <3>1, <3>2, <3>3
  <2> QED
    BY <1>1, <2>1, <2>2
<1> QED
  BY <1>2, <1>3

\* The peer owes every open main block, and with it a byte that has not come.
LEMMA OpenIsOwed ==
    ASSUME TypeOK, NEW m \in 0 .. Len(wire), OnTheWire(m), NEW i \in Main, blocks[i][1] \in DOMAIN left
    PROVE  /\ \E k \in 1 .. m : Due(wire[k], blocks[i])
           /\ ~(UnitsOf(blocks[i]) \subseteq mine)
<1>1. PICK k \in 1 .. m : wire[k].block = blocks[i]
  BY DEF OnTheWire
<1>2. PICK j \in Main : Due(wire[k], blocks[j])
  BY DEF OnTheWire
<1>3. blocks[j] = blocks[i] /\ Due(wire[k], blocks[i])
  BY <1>1, <1>2 DEF Due
<1>4. blocks[i] \in Pairs
  <2>1. i \in DOMAIN blocks /\ blocks \in Seq(Pairs)
    BY DEF Main, TypeOK
  <2> QED
    BY <2>1
<1>5. PICK p : p = wire[k].pos
  OBVIOUS
<1>6. PICK b : b = blocks[i]
  OBVIOUS
<1>7. b[1] \in Nat /\ b[2] \in Nat /\ \A u : u \in UnitsOf(b) <=> u \in Nat /\ b[1] <= u /\ u < b[2]
  BY <1>4, <1>6, PairIs
<1>8. b[1] <= p /\ left[b[1]] = b[2] - p /\ left[b[1]] \in 1 .. Size /\ UnitsOf(b) \cap mine = b[1] .. (p - 1)
  BY <1>3, <1>5, <1>6 DEF Due, TypeOK
<1>9. p \in Int
  <2>1. wire \in Seq(Requests) /\ k \in 1 .. Len(wire)
    BY DEF TypeOK
  <2>2. wire[k] \in Requests
    BY <2>1
  <2> QED
    BY <1>5, <2>2, GeometryAssumption DEF Requests
<1>10. p \in Nat /\ p < b[2]
  BY <1>7, <1>8, <1>9, GeometryAssumption
<1>11. p \in UnitsOf(b) /\ p \notin mine
  BY <1>7, <1>8, <1>10
<1> QED
  BY <1>3, <1>6, <1>11

\* A window nobody touches stays orderly while gaps close and finished blocks are let go.
LEMMA OrderlyKept ==
    ASSUME Orderly, blocks' = blocks, wire' = wire, mine' = mine,
           DOMAIN left' = DOMAIN left, \A z \in DOMAIN left : left'[z] = left[z],
           \A z \in DOMAIN left : /\ z \in DOMAIN packed' <=> z \in DOMAIN packed
                                  /\ z \in DOMAIN packed => packed'[z] = packed[z],
           gaps' \subseteq gaps, held' \subseteq held,
           \A i \in Main : blocks[i][1] \in DOMAIN left => blocks[i] \in held'
    PROVE  Orderly'
<1>1. Main' = Main /\ Cover' = Cover
  BY MainNext, CoverNext DEF Main, Cover
<1>2. Nested'
  BY NestedNext DEF Orderly, Nested
<1>3. AllSealed'
  <2>1. \A i \in DOMAIN blocks : SealedIn(blocks[i], gaps)
    BY DEF Orderly, AllSealed, Sealed
  <2>2. \A h \in held : SealedIn(h, gaps)
    BY DEF Orderly, AllSealed, Sealed
  <2>3. \A b : SealedIn(b, gaps) => SealedIn(b, gaps')
    BY SealedShrink
  <2> QED
    BY <2>1, <2>2, <2>3, AllSealedNext
<1>4. HeldCovered'
  BY <1>1, HeldCoveredNext DEF Orderly, HeldCovered
<1>5. MainHeld'
  BY <1>1, MainHeldNext
<1>6. MainDone'
  BY <1>1, MainDoneNext DEF Orderly, MainDone
<1>7. PICK m \in 0 .. Len(wire) : OnTheWire(m)
  BY DEF Orderly
<1>8. OnTheWire(m)'
  <2>1. \A e, b : Due(e, b) => DueNext(e, b)
    BY DEF Due, DueNext
  <2>2. \A k \in 1 .. m : \E i \in Main' : DueNext(wire'[k], blocks'[i])
    BY <1>1, <1>7, <2>1 DEF OnTheWire
  <2>3. \A k, l \in 1 .. m : wire'[k].block = wire'[l].block => k = l
    BY <1>7 DEF OnTheWire
  <2>4. \A i \in Main' : blocks'[i][1] \in DOMAIN left' => \E k \in 1 .. m : wire'[k].block = blocks'[i]
    BY <1>1, <1>7 DEF OnTheWire
  <2>5. m < Len(wire') => gaps' \subseteq Cover'
    BY <1>1, <1>7 DEF OnTheWire
  <2> QED
    BY <2>2, <2>3, <2>4, <2>5, WireNext
<1>9. m \in 0 .. Len(wire')
  OBVIOUS
<1> QED
  BY <1>2, <1>3, <1>4, <1>5, <1>6, <1>8, <1>9, OrderlyNext

\* Once the main blocks are all closed, all of the window's bytes have come.
LEMMA AllIsIn ==
    ASSUME TypeOK, Nested, MainDone, \A i \in Main : blocks[i][1] \notin DOMAIN left
    PROVE  Cover \subseteq mine /\ Cover \cap gaps = {} /\ \A i \in DOMAIN blocks : UnitsOf(blocks[i]) \subseteq mine
<1>0. blocks \in Seq(Pairs) /\ mine \subseteq got
  BY DEF TypeOK
<1>1. ASSUME NEW i \in DOMAIN blocks PROVE UnitsOf(blocks[i]) \subseteq mine
  <2>1. PICK j \in Main : UnitsOf(blocks[i]) \subseteq UnitsOf(blocks[j])
    BY <1>0, InsideMain
  <2>2. UnitsOf(blocks[j]) \subseteq mine
    BY DEF MainDone
  <2> QED
    BY <2>1, <2>2
<1>2. Cover \subseteq mine
  BY <1>1 DEF Cover
<1> QED
  BY <1>0, <1>1, <1>2 DEF gaps

\* Whatever a packet does, it keeps the blocks, expects no new bytes and takes none back.
LEMMA AcceptGrows ==
    ASSUME RxTyped, Window, NEW x \in Nat, NEW y \in Nat,
           AcceptRaw(x, y) \/ \E ended, surplus \in BOOLEAN : AcceptPacked(x, y, ended, surplus)
    PROVE  /\ blocks' = blocks /\ DOMAIN left' \subseteq DOMAIN left
           /\ mine \subseteq mine' /\ got \subseteq got'
           /\ completed' = completed \/ \E j \in DOMAIN blocks : completed' = Append(completed, blocks[j])
           /\ pc' = "cut" \/ (pc' = "topup" /\ held' = held)
<1>0. blocks \in Seq(Pairs)
  BY DEF RxTyped
<1>1. CASE reject
  BY <1>1 DEF reject, rxVars
<1>2. ASSUME NEW z, NEW n \in Nat, NEW pk, credit(z, n, pk), z \in DOMAIN left => starting(z) # {}, accepted,
             \E v, w : write(v, w)
      PROVE  /\ blocks' = blocks /\ DOMAIN left' \subseteq DOMAIN left
             /\ mine \subseteq mine' /\ got \subseteq got'
             /\ completed' = completed \/ \E j \in DOMAIN blocks : completed' = Append(completed, blocks[j])
             /\ pc' = "cut" \/ (pc' = "topup" /\ held' = held)
  <2>1. /\ DOMAIN left' \subseteq DOMAIN left
        /\ ~(z \in DOMAIN left /\ left[z] <= n) => completed' = completed
        /\ z \in DOMAIN left /\ left[z] <= n => completed' = Append(completed, first(starting(z)))
    BY <1>2, CreditDoes
  <2>2. z \in DOMAIN left => \E j \in DOMAIN blocks : first(starting(z)) = blocks[j]
    BY <1>0, <1>2, StartIs
  <2>3. mine \subseteq mine' /\ got \subseteq got'
    BY <1>2 DEF write
  <2>4. blocks' = blocks /\ pc' = "topup" /\ held' = held
    BY <1>2 DEF accepted
  <2>5. completed' = completed \/ \E j \in DOMAIN blocks : completed' = Append(completed, blocks[j])
    BY <2>1, <2>2
  <2> QED
    BY <2>1, <2>3, <2>4, <2>5
<1>3. CASE AcceptRaw(x, y)
  <2>1. CASE ~reject
    <3>1. /\ x < y /\ containing(x, y) # {} /\ credit(first(containing(x, y))[1], y - x, packed)
          /\ write(x, y) /\ accepted
      BY <1>3, <2>1 DEF AcceptRaw
    <3>2. \A z \in DOMAIN left : starting(z) # {}
      BY DEF Window
    <3>3. y - x \in Nat
      BY <3>1
    <3> QED
      BY <1>2, <3>1, <3>2, <3>3
  <2> QED
    BY <1>1, <2>1
<1>4. ASSUME NEW ended \in BOOLEAN, NEW surplus \in BOOLEAN, AcceptPacked(x, y, ended, surplus), ~reject
      PROVE  \/ \E pk : credit(x, y, pk) /\ accepted /\ (\E v, w : write(v, w))
             \/ UNCHANGED <<left, completed, got, mine>> /\ accepted
  BY <1>4 DEF AcceptPacked
<1>5. CASE UNCHANGED <<left, completed, got, mine>> /\ accepted
  BY <1>5 DEF accepted
<1>6. CASE \E pk : credit(x, y, pk) /\ accepted /\ (\E v, w : write(v, w))
  <2>1. x \in DOMAIN left => starting(x) # {}
    BY DEF Window
  <2> QED
    BY <1>2, <1>6, <2>1
<1> QED
  BY <1>1, <1>3, <1>4, <1>5, <1>6

\* What a raced request brings changes nothing: all of the window is in.
LEMMA RacedPacket ==
    ASSUME TypeOK, Window, Orderly, CompletedIsOnDisk, honest,
           gaps \subseteq Cover, \A i \in Main : blocks[i][1] \notin DOMAIN left,
           NEW x \in Nat, NEW y \in Nat,
           AcceptRaw(x, y) \/ \E ended, surplus \in BOOLEAN : AcceptPacked(x, y, ended, surplus),
           TypeOK', honest' = honest
    PROVE  /\ Running' => Orderly'
           /\ AllIn' /\ CompletedIsOnDisk' /\ HonestPeerFinishes'
<1>0. RxTyped /\ Nested /\ MainDone /\ wire' \in Seq(Requests)
  BY TypesAre DEF Orderly, TypeOK
<1>1. \A i \in Main : blocks[i][1] \notin DOMAIN left
  OBVIOUS
<1>3. gaps \subseteq Cover
  OBVIOUS
<1>4. Cover \subseteq mine /\ Cover \cap gaps = {} /\ \A i \in DOMAIN blocks : UnitsOf(blocks[i]) \subseteq mine
  BY <1>0, <1>1, AllIsIn
<1>5. /\ blocks' = blocks /\ DOMAIN left' \subseteq DOMAIN left
      /\ mine \subseteq mine' /\ got \subseteq got'
      /\ completed' = completed \/ \E j \in DOMAIN blocks : completed' = Append(completed, blocks[j])
      /\ pc' = "cut" \/ (pc' = "topup" /\ held' = held)
  BY <1>0, AcceptGrows
<1>6. gaps' = {} /\ gaps' \subseteq gaps
  <2>1. gaps = {}
    BY <1>3, <1>4
  <2>2. gaps' \subseteq gaps
    BY <1>5 DEF gaps
  <2> QED
    BY <2>1, <2>2
<1>7. HonestPeerFinishes'
  BY <1>6 DEF HonestPeerFinishes
<1>8. CompletedIsOnDisk'
  <2>1. completed \in Seq(Pairs) /\ \A i \in DOMAIN completed : UnitsOf(completed[i]) \subseteq mine
    BY DEF TypeOK, CompletedIsOnDisk
  <2>2. CompletedIsOnDisk' <=> (honest' => \A i \in DOMAIN completed' : UnitsOf(completed'[i]) \subseteq mine')
    BY DEF CompletedIsOnDisk, UnitsOf
  <2>3. CASE completed' = completed
    BY <1>5, <2>1, <2>2, <2>3
  <2>4. CASE \E j \in DOMAIN blocks : completed' = Append(completed, blocks[j])
    <3>1. PICK j \in DOMAIN blocks : completed' = Append(completed, blocks[j])
      BY <2>4
    <3>2. \A i \in DOMAIN completed' : (i \in DOMAIN completed /\ completed'[i] = completed[i]) \/ completed'[i] = blocks[j]
      BY <2>1, <3>1
    <3> QED
      BY <1>4, <1>5, <2>1, <2>2, <3>2
  <2> QED
    BY <1>5, <2>3, <2>4
<1>9. ASSUME pc' = "topup", held' = held PROVE Orderly'
  <2>1. Main' = Main /\ Cover' = Cover
    BY <1>5, MainNext, CoverNext DEF Main, Cover
  <2>2. Nested'
    BY <1>0, <1>5, NestedNext DEF Nested
  <2>3. AllSealed'
    <3>1. (\A i \in DOMAIN blocks : SealedIn(blocks[i], gaps)) /\ \A h \in held : SealedIn(h, gaps)
      BY DEF Orderly, AllSealed, Sealed
    <3>2. \A b : SealedIn(b, gaps) => SealedIn(b, gaps')
      BY <1>6, SealedShrink
    <3> QED
      BY <1>5, <1>9, <3>1, <3>2, AllSealedNext
  <2>4. HeldCovered'
    BY <1>6, HeldCoveredNext
  <2>5. \A i \in Main' : blocks'[i][1] \notin DOMAIN left'
    BY <1>1, <1>5, <2>1
  <2>6. MainHeld'
    BY <2>5, MainHeldNext
  <2>7. MainDone'
    BY <1>0, <1>1, <1>5, <2>1, MainDoneNext DEF MainDone
  <2>8. OnTheWire(0)'
    <3>1. \A k : k \notin 1 .. 0
      OBVIOUS
    <3> QED
      BY <1>6, <2>5, <3>1, WireNext
  <2>9. 0 \in 0 .. Len(wire')
    BY <1>0
  <2> QED
    BY <2>2, <2>3, <2>4, <2>6, <2>7, <2>8, <2>9, OrderlyNext
<1>10. Running' => Orderly'
  BY <1>5, <1>9 DEF Running
<1>11. AllIn'
  <2>1. Main' = Main
    BY <1>5, MainNext DEF Main
  <2> QED
    BY <1>1, <1>5, <1>6, <2>1 DEF AllIn
<1> QED
  BY <1>7, <1>8, <1>10, <1>11

\* The next bytes p .. y-1 of main block b came, raw or out of its stream.
Credited(b, p, y, how) ==
    /\ blocks' = blocks /\ held' = held /\ pc' = "topup"
    /\ got' = got \cup (p .. (y - 1)) /\ mine' = mine \cup (p .. (y - 1))
    /\ DOMAIN left' \subseteq DOMAIN left
    /\ \A z \in DOMAIN left : z # b[1] => z \in DOMAIN left' /\ left'[z] = left[z]
    /\ \A z : z # b[1] => /\ z \in DOMAIN packed' <=> z \in DOMAIN packed
                          /\ z \in DOMAIN packed => packed'[z] = packed[z]
    /\ y = b[2] => b[1] \notin DOMAIN left' /\ completed' = Append(completed, b)
    /\ y # b[2] => /\ b[1] \in DOMAIN left' /\ left'[b[1]] = b[2] - y /\ completed' = completed
                   /\ how = "packed" => b[1] \in DOMAIN packed' /\ packed'[b[1]].written = y - b[1]

\* The numbers of a request that is due.
LEMMA DueIs ==
    ASSUME TypeOK, wire # <<>>, NEW i \in Main, Due(wire[1], blocks[i]), NEW b, b = blocks[i], NEW p, p = wire[1].pos
    PROVE  /\ b \in Pairs /\ b = wire[1].block /\ p \in Nat /\ b[1] \in Nat /\ b[2] \in Nat /\ b[2] <= Size
           /\ b[1] <= p /\ p < b[2]
           /\ b[1] \in DOMAIN left /\ left[b[1]] = b[2] - p
<1>1. b \in Pairs
  <2>1. i \in DOMAIN blocks /\ blocks \in Seq(Pairs)
    BY DEF Main, TypeOK
  <2> QED
    BY <2>1
<1>2. p \in Nat
  <2>1. wire \in Seq(Requests)
    BY DEF TypeOK
  <2>2. wire[1] \in Requests
    BY <2>1
  <2> QED
    BY <2>2, GeometryAssumption DEF Requests
<1>3. b = wire[1].block /\ b[1] \in DOMAIN left /\ b[1] <= p /\ left[b[1]] = b[2] - p
  BY DEF Due
<1>4. left[b[1]] \in 1 .. Size
  BY <1>3 DEF TypeOK
<1>5. b[1] \in Nat /\ b[2] \in Nat /\ b[2] <= Size
  BY <1>1, PairIs
<1>6. p < b[2]
  BY <1>2, <1>3, <1>4, <1>5, GeometryAssumption
<1> QED
  BY <1>1, <1>2, <1>3, <1>5, <1>6

\* A raw piece of a main block is taken, and credited to that block.
LEMMA RawCredited ==
    ASSUME TypeOK, Window, wire # <<>>, NEW i \in Main, Due(wire[1], blocks[i]), NEW b, b = blocks[i],
           NEW p, p = wire[1].pos, NEW y \in (p + 1) .. b[2], AcceptRaw(p, y)
    PROVE  Credited(b, p, y, "raw")
<1>1. /\ b \in Pairs /\ p \in Nat /\ b[1] \in Nat /\ b[2] \in Nat /\ b[2] <= Size
      /\ b[1] <= p /\ p < b[2] /\ b[1] \in DOMAIN left /\ left[b[1]] = b[2] - p
  BY DueIs
<1>2. y \in Nat /\ p < y /\ y <= b[2] /\ y <= Size /\ ~(y <= p) /\ ~(y > Size)
  BY <1>1, GeometryAssumption
<1>3. blocks \in Seq(Pairs) /\ RxTyped
  BY TypesAre DEF TypeOK
<1>4. containing(p, y) # {} /\ first(containing(p, y)) = b /\ starting(b[1]) # {} /\ first(starting(b[1])) = b
  BY <1>1, <1>2, <1>3, MainIsFirst
<1>5. credit(b[1], y - p, packed) /\ write(p, y) /\ accepted
  BY <1>2, <1>4 DEF AcceptRaw
<1>6. y - p \in Nat /\ (left[b[1]] <= y - p <=> y = b[2]) /\ (left[b[1]] > y - p <=> y # b[2]) /\ (b[2] - p) - (y - p) = b[2] - y
  <2>1. y - p \in Nat
    BY <1>1, <1>2
  <2>2. p \in Nat /\ y \in Nat /\ b[2] \in Nat /\ y <= b[2] /\ left[b[1]] = b[2] - p
    BY <1>1, <1>2
  <2>3. (left[b[1]] <= y - p <=> y = b[2]) /\ (left[b[1]] > y - p <=> y # b[2]) /\ (b[2] - p) - (y - p) = b[2] - y
    BY <2>2
  <2> QED
    BY <2>1, <2>3
<1>7. PICK n : n = y - p
  OBVIOUS
<1>8. n \in Nat /\ credit(b[1], n, packed)
  BY <1>5, <1>6, <1>7
<1>9. /\ DOMAIN left' \subseteq DOMAIN left
      /\ \A z \in DOMAIN left : z # b[1] => z \in DOMAIN left' /\ left'[z] = left[z]
      /\ left[b[1]] <= n => DOMAIN left' = DOMAIN left \ {b[1]}
      /\ left[b[1]] > n => b[1] \in DOMAIN left' /\ left'[b[1]] = left[b[1]] - n
      /\ \A z \in DOMAIN packed' : z \in DOMAIN packed /\ packed'[z] = packed[z]
      /\ ~(left[b[1]] <= n) => packed' = packed /\ completed' = completed
      /\ \A z \in DOMAIN packed : z # b[1] => z \in DOMAIN packed'
      /\ left[b[1]] <= n => completed' = Append(completed, first(starting(b[1])))
  <2>1. PICK x : x = b[1]
    OBVIOUS
  <2>2. RxTyped /\ x \in DOMAIN left /\ starting(x) # {} /\ credit(x, n, packed)
    BY <1>1, <1>3, <1>4, <1>8, <2>1
  <2>c0. DOMAIN left' \subseteq DOMAIN left /\ \A z \in DOMAIN left : z # x => z \in DOMAIN left' /\ left'[z] = left[z]
    BY <1>8, <2>2, CreditDoes
  <2>c1. x \in DOMAIN left /\ left[x] <= n => DOMAIN left' = DOMAIN left \ {x}
    BY <1>8, <2>2, CreditDoes
  <2>c2. x \in DOMAIN left /\ left[x] > n => x \in DOMAIN left' /\ left'[x] = left[x] - n
    BY <1>8, <2>2, CreditDoes
  <2>c3. \A z \in DOMAIN packed' : z \in DOMAIN packed /\ packed'[z] = packed[z]
    <3>1. PICK q : q = packed
      OBVIOUS
    <3>2. credit(x, n, q)
      BY <2>2, <3>1
    <3>3. \A z \in DOMAIN packed' : z \in DOMAIN q /\ packed'[z] = q[z]
      BY <3>2 DEF credit, without
    <3> QED
      BY <3>1, <3>3
  <2>c4. ~(x \in DOMAIN left /\ left[x] <= n) => packed' = packed /\ completed' = completed
    BY <1>8, <2>2, CreditDoes
  <2>c5. \A z \in DOMAIN packed : z # x => z \in DOMAIN packed'
    BY <1>8, <2>2, CreditDoes
  <2>c6. x \in DOMAIN left /\ left[x] <= n => completed' = Append(completed, first(starting(x)))
    BY <1>8, <2>2, CreditDoes
  <2> QED
    BY <2>1, <2>2, <2>c0, <2>c1, <2>c2, <2>c3, <2>c4, <2>c5, <2>c6
<1>10. /\ blocks' = blocks /\ held' = held /\ pc' = "topup"
       /\ got' = got \cup (p .. (y - 1)) /\ mine' = mine \cup (p .. (y - 1))
  BY <1>5 DEF write, accepted
<1>11. \A z : z # b[1] => (z \in DOMAIN packed' <=> z \in DOMAIN packed) /\ (z \in DOMAIN packed => packed'[z] = packed[z])
  BY <1>9
<1>12. y = b[2] => b[1] \notin DOMAIN left' /\ completed' = Append(completed, b)
  BY <1>4, <1>6, <1>7, <1>9
<1>13. y # b[2] => b[1] \in DOMAIN left' /\ left'[b[1]] = b[2] - y /\ completed' = completed
  BY <1>1, <1>6, <1>7, <1>9
<1> QED
  BY <1>9, <1>10, <1>11, <1>12, <1>13 DEF Credited

\* A fragment of a main block's stream is taken, and credited to that block.
LEMMA PackedCredited ==
    ASSUME TypeOK, Window, wire # <<>>, NEW i \in Main, Due(wire[1], blocks[i]), NEW b, b = blocks[i],
           wire[1].mode \in {"new", "packed"},
           NEW p, p = wire[1].pos, NEW y \in p .. b[2], NEW ended \in BOOLEAN, ended => y = b[2],
           AcceptPacked(b[1], y - p, ended, FALSE)
    PROVE  Credited(b, p, y, "packed")
<1>1. /\ b \in Pairs /\ p \in Nat /\ b[1] \in Nat /\ b[2] \in Nat /\ b[2] <= Size
      /\ b[1] <= p /\ p < b[2] /\ b[1] \in DOMAIN left /\ left[b[1]] = b[2] - p
  BY DueIs
<1>2. y \in Nat /\ p <= y /\ y <= b[2]
  BY <1>1
<1>3. blocks \in Seq(Pairs) /\ RxTyped
  BY TypesAre DEF TypeOK
<1>4. starting(b[1]) # {} /\ first(starting(b[1])) = b
  BY <1>3, MainIsFirst
<1> DEFINE x == b[1]
           n == y - p
           pb == IF x \in DOMAIN packed THEN packed[x] ELSE [written |-> 0, total |-> first(starting(x))[2] - x]
           out == pb.written + n
           bad == over_or_short(out, pb.total, n, ended, FALSE)
           grown == [z \in DOMAIN packed \cup {x} |-> IF z = x THEN [pb EXCEPT !.written = out] ELSE packed[z]]
<1>5. pb.written = p - x /\ pb.total = b[2] - x /\ (x \in DOMAIN packed => packed[x] \in Streams)
  <2>1. CASE x \in DOMAIN packed
    <3>1. wire[1].mode = "packed"
      BY <2>1 DEF Due
    <3>2. packed[x].written = p - x
      BY <3>1 DEF Due
    <3>3. packed[x].total = b[2] - x /\ packed[x] \in Streams
      BY <1>4, <2>1 DEF Window, TypeOK
    <3> QED
      BY <2>1, <3>2, <3>3
  <2>2. CASE x \notin DOMAIN packed
    <3>1. p = x
      BY <2>2 DEF Due
    <3>2. pb = [written |-> 0, total |-> b[2] - x]
      BY <1>4, <2>2
    <3>3. p - x = 0
      BY <1>1, <3>1
    <3> HIDE DEF pb
    <3> QED
      BY <2>2, <3>2, <3>3
  <2> QED
    BY <2>1, <2>2
<1>6. n \in Nat /\ out = y - x /\ out <= pb.total /\ (y = b[2] => out = pb.total) /\ x + pb.written = p /\ x + out = y
  <2>1. x \in Nat /\ b[2] \in Nat /\ x <= p /\ n \in Nat
    BY <1>1, <1>2
  <2> HIDE DEF pb, x
  <2>2. x + pb.written = p /\ out = y - x
    BY <1>1, <1>2, <1>5, <2>1
  <2>3. pb.total = b[2] - x
    BY <1>5
  <2> HIDE DEF out, n
  <2>4. x + out = y
    BY <1>2, <2>1, <2>2
  <2>5. out <= pb.total /\ (y = b[2] => out = pb.total)
    BY <1>2, <2>1, <2>2, <2>3
  <2> QED
    BY <2>1, <2>2, <2>4, <2>5
<1>7. ~bad
  <2> HIDE DEF pb, out, n
  <2> QED
    BY <1>6 DEF over_or_short, bad
<1>8. \/ n = 0 /\ packed' = grown /\ UNCHANGED <<left, completed, got, mine>> /\ accepted
      \/ n > 0 /\ credit(x, n, grown) /\ write(x + pb.written, x + out) /\ accepted
  <2>1. \/ starting(x) = {} /\ reject
        \/ bad /\ reject
        \/ n = 0 /\ packed' = grown /\ UNCHANGED <<left, completed, got, mine>> /\ accepted
        \/ n > 0 /\ credit(x, n, grown) /\ write(x + pb.written, x + out) /\ accepted
    BY DEF AcceptPacked
  <2> HIDE DEF bad, grown, pb, out, n
  <2> QED
    BY <1>4, <1>7, <2>1
<1>9. PICK g : g = [pb EXCEPT !.written = out]
  OBVIOUS
<1>10. g.written = y - x
  <2>1. CASE x \in DOMAIN packed
    <3>1. pb = packed[x]
      BY <2>1
    <3>2. packed[x] \in Streams
      BY <1>5, <2>1
    <3> HIDE DEF pb, out
    <3> QED
      BY <1>6, <1>9, <3>1, <3>2 DEF Streams
  <2>2. CASE x \notin DOMAIN packed
    <3>1. pb = [written |-> 0, total |-> first(starting(x))[2] - x]
      BY <2>2
    <3> HIDE DEF pb, out
    <3> QED
      BY <1>6, <1>9, <3>1
  <2> QED
    BY <2>1, <2>2
<1>11. grown = [z \in DOMAIN packed \cup {x} |-> IF z = x THEN g ELSE packed[z]]
  BY <1>9
<1> HIDE DEF bad, grown, pb, out
<1>12. /\ DOMAIN grown = DOMAIN packed \cup {x} /\ grown[x] = g
       /\ \A z \in DOMAIN packed : z # x => grown[z] = packed[z]
  BY <1>11
<1>13. CASE n = 0 /\ packed' = grown /\ UNCHANGED <<left, completed, got, mine>> /\ accepted
  <2>1. y = p /\ p .. (y - 1) = {} /\ y # b[2]
    BY <1>1, <1>2, <1>13
  <2>2. got' = got \cup (p .. (y - 1)) /\ mine' = mine \cup (p .. (y - 1))
    BY <1>13, <2>1
  <2>3. blocks' = blocks /\ held' = held /\ pc' = "topup"
    BY <1>13 DEF accepted
  <2>4. \A z : z # b[1] => (z \in DOMAIN packed' <=> z \in DOMAIN packed) /\ (z \in DOMAIN packed => packed'[z] = packed[z])
    BY <1>12, <1>13
  <2>5. b[1] \in DOMAIN packed' /\ packed'[b[1]].written = y - b[1]
    BY <1>10, <1>12, <1>13
  <2>6. left' = left /\ completed' = completed /\ left'[b[1]] = b[2] - y
    BY <1>1, <1>13, <2>1
  <2> QED
    BY <1>1, <2>1, <2>2, <2>3, <2>4, <2>5, <2>6 DEF Credited
<1>14. CASE n > 0 /\ credit(x, n, grown) /\ write(x + pb.written, x + out) /\ accepted
  <2>1. write(p, y) /\ accepted
    BY <1>6, <1>14
  <2>2. /\ blocks' = blocks /\ held' = held /\ pc' = "topup"
        /\ got' = got \cup (p .. (y - 1)) /\ mine' = mine \cup (p .. (y - 1))
    BY <2>1 DEF write, accepted
  <2>3. (left[b[1]] <= y - p <=> y = b[2]) /\ (left[b[1]] > y - p <=> y # b[2]) /\ (b[2] - p) - (y - p) = b[2] - y
    BY <1>1, <1>2
  <2>4. PICK k : k = y - p
    OBVIOUS
  <2>5. k \in Nat /\ credit(b[1], k, grown)
    BY <1>6, <1>14, <2>4
  <2>6. /\ DOMAIN left' \subseteq DOMAIN left
        /\ \A z \in DOMAIN left : z # b[1] => z \in DOMAIN left' /\ left'[z] = left[z]
        /\ left[b[1]] <= k => DOMAIN left' = DOMAIN left \ {b[1]}
        /\ left[b[1]] > k => b[1] \in DOMAIN left' /\ left'[b[1]] = left[b[1]] - k
        /\ \A z \in DOMAIN packed' : z \in DOMAIN grown /\ packed'[z] = grown[z]
        /\ ~(left[b[1]] <= k) => packed' = grown /\ completed' = completed
        /\ \A z \in DOMAIN grown : z # b[1] => z \in DOMAIN packed'
        /\ left[b[1]] <= k => completed' = Append(completed, first(starting(b[1])))
    <3>1. PICK w : w = b[1]
      OBVIOUS
    <3>2. RxTyped /\ w \in DOMAIN left /\ starting(w) # {} /\ credit(w, k, grown)
      BY <1>1, <1>3, <1>4, <2>5, <3>1
    <3>c0. DOMAIN left' \subseteq DOMAIN left /\ \A z \in DOMAIN left : z # w => z \in DOMAIN left' /\ left'[z] = left[z]
      BY <2>5, <3>2, CreditDoes
    <3>c1. w \in DOMAIN left /\ left[w] <= k => DOMAIN left' = DOMAIN left \ {w}
      BY <2>5, <3>2, CreditDoes
    <3>c2. w \in DOMAIN left /\ left[w] > k => w \in DOMAIN left' /\ left'[w] = left[w] - k
      BY <2>5, <3>2, CreditDoes
    <3>c3. \A z \in DOMAIN packed' : z \in DOMAIN grown /\ packed'[z] = grown[z]
      <4>1. PICK q : q = grown
        OBVIOUS
      <4>2. credit(w, k, q)
        BY <3>2, <4>1
      <4>3. \A z \in DOMAIN packed' : z \in DOMAIN q /\ packed'[z] = q[z]
        BY <4>2 DEF credit, without
      <4> QED
        BY <4>1, <4>3
    <3>c4. ~(w \in DOMAIN left /\ left[w] <= k) => packed' = grown /\ completed' = completed
      BY <2>5, <3>2, CreditDoes
    <3>c5. \A z \in DOMAIN grown : z # w => z \in DOMAIN packed'
      BY <2>5, <3>2, CreditDoes
    <3>c6. w \in DOMAIN left /\ left[w] <= k => completed' = Append(completed, first(starting(w)))
      BY <2>5, <3>2, CreditDoes
    <3> QED
      BY <3>1, <3>2, <3>c0, <3>c1, <3>c2, <3>c3, <3>c4, <3>c5, <3>c6
  <2>7. \A z : z # b[1] => (z \in DOMAIN packed' <=> z \in DOMAIN packed) /\ (z \in DOMAIN packed => packed'[z] = packed[z])
    BY <1>12, <2>6
  <2>8. y = b[2] => b[1] \notin DOMAIN left' /\ completed' = Append(completed, b)
    BY <1>4, <2>3, <2>4, <2>6
  <2>9. y # b[2] => b[1] \in DOMAIN left' /\ left'[b[1]] = b[2] - y /\ completed' = completed
    BY <1>1, <2>3, <2>4, <2>6
  <2>10. y # b[2] => b[1] \in DOMAIN packed' /\ packed'[b[1]].written = y - b[1]
    BY <1>10, <1>12, <2>3, <2>4, <2>6
  <2> QED
    BY <2>2, <2>6, <2>7, <2>8, <2>9, <2>10 DEF Credited
<1> QED
  BY <1>8, <1>13, <1>14

\* Bytes credited to a main block leave the window orderly: the request moves on,
\* and is gone from the wire exactly when its block is closed.
LEMMA MainServed ==
    ASSUME TypeOK, Orderly, CompletedIsOnDisk, honest, honest' = honest, TypeOK', wire # <<>>,
           NEW m \in 0 .. Len(wire), m >= 1, OnTheWire(m),
           NEW i \in Main, NEW b, b = blocks[i], Due(wire[1], blocks[i]), NEW p, p = wire[1].pos,
           NEW y \in p .. b[2], NEW how \in {"raw", "packed"}, Credited(b, p, y, how), served(y, how)
    PROVE  (Running' => Orderly') /\ CompletedIsOnDisk' /\ HonestPeerFinishes'
<1>0. /\ b \in Pairs /\ b = wire[1].block /\ p \in Nat /\ b[1] \in Nat /\ b[2] \in Nat /\ b[2] <= Size
      /\ b[1] <= p /\ p < b[2] /\ b[1] \in DOMAIN left /\ left[b[1]] = b[2] - p
  BY DueIs
<1>1. /\ blocks' = blocks /\ held' = held /\ pc' = "topup"
      /\ got' = got \cup (p .. (y - 1)) /\ mine' = mine \cup (p .. (y - 1))
      /\ DOMAIN left' \subseteq DOMAIN left
      /\ \A z \in DOMAIN left : z # b[1] => z \in DOMAIN left' /\ left'[z] = left[z]
      /\ \A z : z # b[1] => /\ z \in DOMAIN packed' <=> z \in DOMAIN packed
                            /\ z \in DOMAIN packed => packed'[z] = packed[z]
      /\ y = b[2] => b[1] \notin DOMAIN left' /\ completed' = Append(completed, b)
      /\ y # b[2] => /\ b[1] \in DOMAIN left' /\ left'[b[1]] = b[2] - y /\ completed' = completed
                     /\ how = "packed" => b[1] \in DOMAIN packed' /\ packed'[b[1]].written = y - b[1]
  BY DEF Credited
<1>2. y \in Nat /\ p <= y /\ y <= b[2] /\ y \in 0 .. Size
  <2>1. y \in Nat /\ p <= y /\ y <= b[2]
    BY <1>0
  <2> QED
    BY <1>0, <2>1, GeometryAssumption
<1>3. blocks \in Seq(Pairs) /\ wire \in Seq(Requests) /\ wire' \in Seq(Requests) /\ mine \subseteq got
  BY DEF TypeOK
<1>4. \A u : u \in UnitsOf(b) <=> u \in Nat /\ b[1] <= u /\ u < b[2]
  BY <1>0, PairIs
<1>5. UnitsOf(b) \cap mine = b[1] .. (p - 1)
  BY DEF Due
<1>6. UnitsOf(b) \cap mine' = b[1] .. (y - 1)
  <2>1. ASSUME NEW u PROVE u \in UnitsOf(b) \cap mine' <=> u \in b[1] .. (y - 1)
    <3>1. u \in UnitsOf(b) /\ u \in mine <=> u \in Nat /\ b[1] <= u /\ u < p
      <4>1. u \in b[1] .. (p - 1) <=> u \in Nat /\ b[1] <= u /\ u < p
        BY <1>0
      <4> QED
        BY <1>5, <4>1
    <3>2. u \in p .. (y - 1) <=> u \in Nat /\ p <= u /\ u < y
      BY <1>0, <1>2
    <3>3. u \in b[1] .. (y - 1) <=> u \in Nat /\ b[1] <= u /\ u < y
      BY <1>0, <1>2
    <3>4. u \in mine' <=> u \in mine \/ u \in p .. (y - 1)
      BY <1>1
    <3> QED
      BY <1>0, <1>2, <1>4, <3>1, <3>2, <3>3, <3>4
  <2> QED
    BY <2>1
<1>7. gaps' \subseteq gaps
  BY <1>1 DEF gaps
<1>8. Main' = Main /\ Cover' = Cover
  BY <1>1, MainNext, CoverNext DEF Main, Cover
<1>9. ASSUME NEW j \in Main, j # i
      PROVE  /\ blocks[j][1] # b[1] /\ blocks[j] # b
             /\ UnitsOf(blocks[j]) \cap mine' = UnitsOf(blocks[j]) \cap mine
  <2>1. UnitsOf(blocks[i]) \cap UnitsOf(blocks[j]) = {} /\ blocks[i][1] # blocks[j][1] /\ blocks[i] # blocks[j]
    BY <1>3, <1>9, MainsApart
  <2>2. ASSUME NEW u \in p .. (y - 1) PROVE u \in UnitsOf(b)
    <3>1. u \in Nat /\ b[1] <= u /\ u < b[2]
      BY <1>0, <1>2
    <3> QED
      BY <1>4, <3>1
  <2> QED
    BY <1>1, <2>1, <2>2
<1>10. Nested'
  BY <1>1, NestedNext DEF Orderly, Nested
<1>11. AllSealed'
  <2>1. (\A j \in DOMAIN blocks : SealedIn(blocks[j], gaps)) /\ \A h \in held : SealedIn(h, gaps)
    BY DEF Orderly, AllSealed, Sealed
  <2>2. \A c : SealedIn(c, gaps) => SealedIn(c, gaps')
    BY <1>7, SealedShrink
  <2> QED
    BY <1>1, <2>1, <2>2, AllSealedNext
<1>12. HeldCovered'
  BY <1>1, <1>7, <1>8, HeldCoveredNext DEF Orderly, HeldCovered
<1>13. MainHeld'
  BY <1>1, <1>8, MainHeldNext DEF Orderly, MainHeld
<1>14. ASSUME y = b[2] PROVE UnitsOf(b) \subseteq mine'
  BY <1>0, <1>4, <1>6, <1>14
<1>15. MainDone'
  <2>1. ASSUME NEW j \in Main, blocks[j][1] \notin DOMAIN left' PROVE UnitsOf(blocks[j]) \subseteq mine'
    <3>1. CASE j = i
      BY <1>1, <1>14, <2>1, <3>1
    <3>2. CASE j # i
      <4>1. blocks[j][1] \notin DOMAIN left
        BY <1>1, <1>9, <2>1, <3>2
      <4> QED
        BY <1>1, <4>1 DEF Orderly, MainDone
    <3> QED
      BY <3>1, <3>2
  <2> QED
    BY <1>1, <1>8, <2>1, MainDoneNext
<1>16. ASSUME NEW e, NEW j \in Main, j # i, Due(e, blocks[j]) PROVE DueNext(e, blocks[j])
  BY <1>1, <1>9, <1>16 DEF Due, DueNext
<1>17. m \in Nat /\ Len(wire) \in Nat /\ m <= Len(wire)
  BY <1>3
<1>18. ASSUME NEW k \in 2 .. m PROVE \E j \in Main : j # i /\ Due(wire[k], blocks[j])
  <2>1. k \in 1 .. m /\ 1 \in 1 .. m /\ k # 1
    BY <1>17
  <2>2. PICK j \in Main : Due(wire[k], blocks[j])
    BY <2>1 DEF OnTheWire
  <2>3. wire[k].block = blocks[j] /\ wire[k].block # b
    BY <1>0, <2>1, <2>2 DEF OnTheWire, Due
  <2> QED
    BY <2>2, <2>3
<1>19. ASSUME NEW j \in Main, j # i, blocks[j][1] \in DOMAIN left PROVE \E k \in 2 .. m : wire[k].block = blocks[j]
  <2>1. PICK k \in 1 .. m : wire[k].block = blocks[j]
    BY <1>19 DEF OnTheWire
  <2>2. k # 1
    BY <1>0, <1>9, <1>19, <2>1
  <2> QED
    BY <1>17, <2>1, <2>2
<1>20. m < Len(wire) => gaps' \subseteq Cover'
  BY <1>7, <1>8 DEF OnTheWire
<1>21. ASSUME y = b[2] PROVE Orderly'
  <2>1. Len(wire') = Len(wire) - 1 /\ \A k \in 1 .. Len(wire) - 1 : wire'[k] = wire[k + 1]
    BY <1>0, <1>2, <1>3, <1>21, ServedDoes
  <2>2. \A k \in 1 .. m - 1 : wire'[k] = wire[k + 1] /\ k + 1 \in 2 .. m
    BY <1>17, <2>1
  <2>3. PICK q : q = m - 1
    OBVIOUS
  <2>4. q \in 0 .. Len(wire') /\ q \in Nat /\ q = m - 1 /\ \A k \in 1 .. q : k \in 1 .. m - 1
    BY <1>17, <2>1, <2>3
  <2>5. ASSUME NEW k \in 1 .. q PROVE \E j \in Main' : DueNext(wire'[k], blocks'[j])
    <3>1. wire'[k] = wire[k + 1] /\ k + 1 \in 2 .. m
      BY <2>2, <2>4
    <3>2. PICK j \in Main : j # i /\ Due(wire[k + 1], blocks[j])
      BY <1>18, <3>1
    <3> QED
      BY <1>1, <1>8, <1>16, <3>1, <3>2
  <2>6. ASSUME NEW k \in 1 .. q, NEW l \in 1 .. q, wire'[k].block = wire'[l].block PROVE k = l
    <3>1. wire'[k] = wire[k + 1] /\ wire'[l] = wire[l + 1] /\ k + 1 \in 1 .. m /\ l + 1 \in 1 .. m
      BY <1>17, <2>2, <2>4
    <3>2. k + 1 = l + 1
      BY <2>6, <3>1 DEF OnTheWire
    <3> QED
      BY <2>4, <3>2
  <2>7. ASSUME NEW j \in Main', blocks'[j][1] \in DOMAIN left' PROVE \E k \in 1 .. q : wire'[k].block = blocks'[j]
    <3>1. j \in Main /\ j # i /\ blocks[j][1] \in DOMAIN left
      BY <1>1, <1>8, <1>21, <2>7
    <3>2. PICK k \in 2 .. m : wire[k].block = blocks[j]
      BY <1>19, <3>1
    <3>3. k - 1 \in 1 .. q /\ (k - 1) + 1 = k
      BY <1>17, <2>4
    <3>4. wire'[k - 1] = wire[k]
      BY <2>2, <2>4, <3>3
    <3> QED
      BY <1>1, <3>2, <3>3, <3>4
  <2>8. q < Len(wire') => gaps' \subseteq Cover'
    BY <1>17, <1>20, <2>1, <2>4
  <2>9. OnTheWire(q)'
    BY <2>5, <2>6, <2>7, <2>8, WireNext
  <2> QED
    BY <1>10, <1>11, <1>12, <1>13, <1>15, <2>4, <2>9, OrderlyNext
<1>22. ASSUME y # b[2] PROVE Orderly'
  <2>1. /\ Len(wire') = Len(wire) /\ wire'[1] = [wire[1] EXCEPT !.pos = y, !.mode = how]
        /\ \A k \in 2 .. Len(wire) : wire'[k] = wire[k]
    BY <1>0, <1>2, <1>3, <1>22, ServedDoes
  <2>2. wire[1] \in Requests
    BY <1>3
  <2>3. wire'[1].block = b /\ wire'[1].pos = y /\ wire'[1].mode = how
    BY <1>0, <2>1, <2>2 DEF Requests
  <2>4. DueNext(wire'[1], b)
    <3>1. b[1] <= y
      BY <1>0, <1>2
    <3> QED
      BY <1>1, <1>6, <1>22, <2>3, <3>1 DEF DueNext
  <2>5. ASSUME NEW k \in 1 .. m PROVE k = 1 \/ (k \in 2 .. m /\ k \in 2 .. Len(wire) /\ wire'[k] = wire[k])
    BY <1>17, <2>1
  <2>6. ASSUME NEW k \in 1 .. m PROVE \E j \in Main' : DueNext(wire'[k], blocks'[j])
    <3>1. CASE k = 1
      BY <1>1, <1>8, <2>4, <3>1
    <3>2. CASE k \in 2 .. m /\ wire'[k] = wire[k]
      <4>1. PICK j \in Main : j # i /\ Due(wire[k], blocks[j])
        BY <1>18, <3>2
      <4> QED
        BY <1>1, <1>8, <1>16, <3>2, <4>1
    <3> QED
      BY <2>5, <3>1, <3>2
  <2>7. \A k \in 1 .. m : wire'[k].block = wire[k].block
    BY <1>0, <2>3, <2>5
  <2>8. \A k, l \in 1 .. m : wire'[k].block = wire'[l].block => k = l
    BY <2>7 DEF OnTheWire
  <2>9. \A j \in Main' : blocks'[j][1] \in DOMAIN left' => \E k \in 1 .. m : wire'[k].block = blocks'[j]
    BY <1>1, <1>8, <2>7 DEF OnTheWire
  <2>10. m < Len(wire') => gaps' \subseteq Cover'
    BY <1>20, <2>1
  <2>11. OnTheWire(m)'
    BY <2>6, <2>8, <2>9, <2>10, WireNext
  <2>12. m \in 0 .. Len(wire')
    BY <2>1
  <2> QED
    BY <1>10, <1>11, <1>12, <1>13, <1>15, <2>11, <2>12, OrderlyNext
<1>23. Orderly'
  BY <1>21, <1>22
<1>24. CompletedIsOnDisk'
  <2>1. completed \in Seq(Pairs) /\ \A j \in DOMAIN completed : UnitsOf(completed[j]) \subseteq mine
    BY DEF TypeOK, CompletedIsOnDisk
  <2>2. CompletedIsOnDisk' <=> (honest' => \A j \in DOMAIN completed' : UnitsOf(completed'[j]) \subseteq mine')
    BY DEF CompletedIsOnDisk, UnitsOf
  <2>3. CASE y # b[2]
    BY <1>1, <2>1, <2>2, <2>3
  <2>4. CASE y = b[2]
    <3>1. \A j \in DOMAIN completed' : (j \in DOMAIN completed /\ completed'[j] = completed[j]) \/ completed'[j] = b
      BY <1>1, <2>1, <2>4
    <3> QED
      BY <1>1, <1>14, <2>1, <2>2, <2>4, <3>1
  <2> QED
    BY <2>3, <2>4
<1> QED
  BY <1>1, <1>23, <1>24 DEF HonestPeerFinishes

\* The positions of a window that add_blocks made longer.
LEMMA Widened ==
    ASSUME RxTyped, NEW T \in SUBSET Pairs, IsFiniteSet(T), \A s, t \in T : s[1] = t[1] => s = t,
           add_blocks(T)
    PROVE  /\ \A j \in DOMAIN blocks : j \in DOMAIN blocks' /\ blocks'[j] = blocks[j]
           /\ \A j \in DOMAIN blocks' : j \in Nat
           /\ \A j \in DOMAIN blocks' : j \notin DOMAIN blocks =>
                 blocks'[j] \in News(T) /\ \A k \in DOMAIN blocks : k < j
           /\ \A j, k \in DOMAIN blocks' :
                 j \notin DOMAIN blocks /\ k \notin DOMAIN blocks /\ blocks'[j] = blocks'[k] => j = k
           /\ \A t \in News(T) : \E j \in DOMAIN blocks' : j \notin DOMAIN blocks /\ blocks'[j] = t
<1>0. blocks \in Seq(Pairs) /\ Len(blocks) \in Nat /\ DOMAIN blocks = 1 .. Len(blocks)
  BY DEF RxTyped
<1>1. PICK N : N = News(T)
  OBVIOUS
<1>2. N \in SUBSET Pairs /\ N \in SUBSET T /\ \A s, t \in N : s[1] = t[1] => s = t
  BY <1>1 DEF News
<1>3. IsFiniteSet(N)
  BY <1>2, FS_Subset
<1>4. PICK n : n = Cardinality(N)
  OBVIOUS
<1>5. PICK f : f = InOrder(N)
  OBVIOUS
<1>6. /\ n \in Nat /\ f \in [1 .. n -> N] /\ f \in [1 .. n -> Pairs]
      /\ \A c \in N : \E i \in 1 .. n : f[i] = c
      /\ \A i, j \in 1 .. n : f[i] = f[j] => i = j
  <2>1. /\ n \in Nat /\ f \in [1 .. n -> N]
        /\ \A c \in N : \E i \in 1 .. n : f[i] = c
        /\ \A i, j \in 1 .. n : f[i] = f[j] => i = j
    BY <1>2, <1>3, <1>4, <1>5, OrderIsComplete
  <2>2. f \in [1 .. n -> Pairs]
    BY <1>2, <2>1
  <2> QED
    BY <2>1, <2>2
<1>7. blocks' = blocks \o f
  BY <1>1, <1>5 DEF add_blocks, News
<1>8. /\ blocks' \in Seq(Pairs) /\ Len(blocks') = Len(blocks) + n
      /\ \A i \in 1 .. Len(blocks) : blocks'[i] = blocks[i]
      /\ \A i \in 1 .. n : blocks'[Len(blocks) + i] = f[i]
      /\ \A i \in 1 .. Len(blocks) + n : i \notin 1 .. Len(blocks) => i - Len(blocks) \in 1 .. n /\ blocks'[i] = f[i - Len(blocks)]
  BY <1>0, <1>6, <1>7, Appended
<1>9. DOMAIN blocks' = 1 .. Len(blocks) + n
  BY <1>8
<1>10. \A j \in DOMAIN blocks : j \in DOMAIN blocks' /\ blocks'[j] = blocks[j]
  BY <1>0, <1>6, <1>8, <1>9
<1>11. \A j \in DOMAIN blocks' : j \in Nat
  BY <1>9
<1>12. ASSUME NEW j \in DOMAIN blocks', j \notin DOMAIN blocks
       PROVE  blocks'[j] \in N /\ \A k \in DOMAIN blocks : k < j
  <2>1. j - Len(blocks) \in 1 .. n /\ blocks'[j] = f[j - Len(blocks)]
    BY <1>0, <1>8, <1>9, <1>12
  <2>2. blocks'[j] \in N
    BY <1>6, <2>1
  <2>3. \A k \in DOMAIN blocks : k < j
    BY <1>0, <1>6, <1>9, <1>12
  <2> QED
    BY <2>2, <2>3
<1>13. ASSUME NEW j \in DOMAIN blocks', NEW k \in DOMAIN blocks', j \notin DOMAIN blocks, k \notin DOMAIN blocks,
              blocks'[j] = blocks'[k]
       PROVE  j = k
  <2>1. j - Len(blocks) \in 1 .. n /\ blocks'[j] = f[j - Len(blocks)]
    BY <1>0, <1>8, <1>9, <1>13
  <2>2. k - Len(blocks) \in 1 .. n /\ blocks'[k] = f[k - Len(blocks)]
    BY <1>0, <1>8, <1>9, <1>13
  <2>3. j - Len(blocks) = k - Len(blocks)
    BY <1>6, <1>13, <2>1, <2>2
  <2> QED
    BY <1>0, <1>11, <2>3
<1>14. ASSUME NEW t \in N PROVE \E j \in DOMAIN blocks' : j \notin DOMAIN blocks /\ blocks'[j] = t
  <2>1. PICK i \in 1 .. n : f[i] = t
    BY <1>6
  <2>2. PICK j : j = Len(blocks) + i
    OBVIOUS
  <2>3. j \in DOMAIN blocks' /\ j \notin DOMAIN blocks /\ blocks'[j] = t
    BY <1>0, <1>6, <1>8, <1>9, <2>1, <2>2
  <2> QED
    BY <2>3
<1> QED
  BY <1>1, <1>10, <1>11, <1>12, <1>13, <1>14

\* How a pick of missing runs meets an orderly window.
LEMMA PickMeets ==
    ASSUME TypeOK, Orderly, NEW T \in SUBSET Pairs,
           \A t \in T : UnitsOf(t) \in OpenBlocks(gaps) /\ UnitsOf(t) \subseteq gaps
    PROVE  /\ \A t \in T : \A j \in DOMAIN blocks :
                UnitsOf(t) \cap UnitsOf(blocks[j]) # {} => UnitsOf(t) \subseteq UnitsOf(blocks[j])
           /\ \A t \in T : \A i \in Main :
                UnitsOf(t) \cap UnitsOf(blocks[i]) # {} => blocks[i][1] \in DOMAIN left
           /\ \A t \in T : t[1] \in UnitsOf(t) /\ t[1] \in gaps /\ UnitsOf(t) \cap mine = {}
<1>0. got \subseteq Units /\ mine \subseteq got /\ blocks \in Seq(Pairs)
  BY DEF TypeOK
<1>1. ASSUME NEW t \in T, NEW j \in DOMAIN blocks, UnitsOf(t) \cap UnitsOf(blocks[j]) # {}
      PROVE  UnitsOf(t) \subseteq UnitsOf(blocks[j])
  <2>1. blocks[j] \in Pairs /\ Sealed(blocks[j])
    BY <1>0 DEF Orderly, AllSealed
  <2> QED
    BY <1>0, <1>1, <2>1, OpenInside
<1>2. ASSUME NEW t \in T, NEW i \in Main, UnitsOf(t) \cap UnitsOf(blocks[i]) # {}
      PROVE  blocks[i][1] \in DOMAIN left
  <2>1. blocks[i][1] \notin DOMAIN left => UnitsOf(blocks[i]) \subseteq mine
    BY DEF Orderly, MainDone
  <2> QED
    BY <1>0, <1>2, <2>1 DEF gaps
<1>3. ASSUME NEW t \in T PROVE t[1] \in UnitsOf(t) /\ t[1] \in gaps /\ UnitsOf(t) \cap mine = {}
  <2>1. t[1] \in UnitsOf(t)
    BY PairIs
  <2> QED
    BY <1>0, <2>1 DEF gaps
<1> QED
  BY <1>1, <1>2, <1>3

\* A top-up when the window covers what is missing: whatever it adds races a main
\* block, and the main blocks stay as they are.
LEMMA TopUpRaced ==
    ASSUME TypeOK, Orderly, honest, gaps \subseteq Cover,
           NEW kept \in SUBSET held, \A i \in Main : blocks[i][1] \in DOMAIN left => blocks[i] \in kept,
           NEW max, NEW T \in take_blocks(kept, max), ask(kept, T), add_blocks(T),
           packed' = packed, got' = got, mine' = mine
    PROVE  Orderly'
<1>0. got \subseteq Units /\ RxTyped /\ wire \in Seq(Requests) /\ kept \in SUBSET Pairs /\ blocks \in Seq(Pairs)
  BY DEF TypeOK, RxTyped
<1>1. /\ T \in SUBSET Pairs /\ IsFiniteSet(T)
      /\ \A t \in T : UnitsOf(t) \in OpenBlocks(gaps) /\ UnitsOf(t) \subseteq gaps /\ Sealed(t)
      /\ \A s, t \in T : UnitsOf(s) \cap UnitsOf(t) # {} => s = t
      /\ \A s, t \in T : s[1] = t[1] => s = t
  BY <1>0, TakeDoes
<1>2. PICK N : N = News(T)
  OBVIOUS
<1>3. N \subseteq T
  BY <1>2 DEF News
<1>4. /\ \A j \in DOMAIN blocks : j \in DOMAIN blocks' /\ blocks'[j] = blocks[j]
      /\ \A j \in DOMAIN blocks' : j \in Nat
      /\ \A j \in DOMAIN blocks' : j \notin DOMAIN blocks => blocks'[j] \in N /\ \A k \in DOMAIN blocks : k < j
      /\ \A j, k \in DOMAIN blocks' :
            j \notin DOMAIN blocks /\ k \notin DOMAIN blocks /\ blocks'[j] = blocks'[k] => j = k
  BY <1>0, <1>1, <1>2, Widened
<1>5. /\ \A x : x \in DOMAIN left' <=> x \in DOMAIN left \/ \E t \in N : x = t[1]
      /\ \A x \in DOMAIN left : left'[x] = left[x]
  BY <1>0, <1>1, <1>2, AddDoes
<1>6. held' = kept \cup T
  BY <1>0, <1>1, AskDoes
<1>7. /\ wire' \in Seq(Requests) /\ Cardinality(T) \in Nat
      /\ Len(wire') = Len(wire) + Cardinality(T) /\ \A k \in 1 .. Len(wire) : wire'[k] = wire[k]
  BY <1>0, <1>1, AskDoes, OrderIsComplete
<1>8. /\ \A t \in T : \A j \in DOMAIN blocks :
           UnitsOf(t) \cap UnitsOf(blocks[j]) # {} => UnitsOf(t) \subseteq UnitsOf(blocks[j])
      /\ \A t \in T : \A i \in Main :
           UnitsOf(t) \cap UnitsOf(blocks[i]) # {} => blocks[i][1] \in DOMAIN left
      /\ \A t \in T : t[1] \in UnitsOf(t) /\ t[1] \in gaps
  BY <1>1, PickMeets
<1>9. \A t \in T : \E j \in DOMAIN blocks : UnitsOf(t) \cap UnitsOf(blocks[j]) # {}
  BY <1>8 DEF Cover
<1>10. gaps' = gaps
  BY DEF gaps
<1>11. Main' = Main
  <2>1. ASSUME NEW i \in Main PROVE i \in Main'
    <3>1. i \in DOMAIN blocks /\ \A j \in DOMAIN blocks : j < i => UnitsOf(blocks[j]) \cap UnitsOf(blocks[i]) = {}
      BY DEF Main
    <3>2. ASSUME NEW j \in DOMAIN blocks', j < i PROVE UnitsOf(blocks'[j]) \cap UnitsOf(blocks'[i]) = {}
      <4>1. j \in DOMAIN blocks
        BY <1>0, <1>4, <3>1, <3>2
      <4> QED
        BY <1>4, <3>1, <3>2, <4>1
    <3> QED
      BY <1>4, <3>1, <3>2, MainNext
  <2>2. ASSUME NEW i \in Main' PROVE i \in Main
    <3>1. i \in DOMAIN blocks' /\ \A j \in DOMAIN blocks' : j < i => UnitsOf(blocks'[j]) \cap UnitsOf(blocks'[i]) = {}
      BY MainNext
    <3>2. i \in DOMAIN blocks
      <4> SUFFICES ASSUME i \notin DOMAIN blocks PROVE FALSE
        OBVIOUS
      <4>1. blocks'[i] \in T /\ \A k \in DOMAIN blocks : k < i
        BY <1>3, <1>4, <3>1
      <4>2. PICK j \in DOMAIN blocks : UnitsOf(blocks'[i]) \cap UnitsOf(blocks[j]) # {}
        BY <1>9, <4>1
      <4>3. UnitsOf(blocks'[j]) \cap UnitsOf(blocks'[i]) = {} /\ blocks'[j] = blocks[j]
        BY <1>4, <3>1, <4>1
      <4> QED
        BY <4>2, <4>3
    <3> QED
      BY <1>4, <3>1, <3>2 DEF Main
  <2> QED
    BY <2>1, <2>2
<1>12. Cover' = Cover
  <2>1. \A j \in DOMAIN blocks' : UnitsOf(blocks'[j]) \subseteq Cover
    <3>1. ASSUME NEW j \in DOMAIN blocks', j \in DOMAIN blocks PROVE UnitsOf(blocks'[j]) \subseteq Cover
      BY <1>4, <3>1 DEF Cover
    <3>2. ASSUME NEW j \in DOMAIN blocks', j \notin DOMAIN blocks PROVE UnitsOf(blocks'[j]) \subseteq Cover
      BY <1>1, <1>3, <1>4, <3>2
    <3> QED
      BY <3>1, <3>2
  <2>2. \A j \in DOMAIN blocks : UnitsOf(blocks[j]) \subseteq Cover'
    BY <1>4, CoverNext
  <2>3. Cover' \subseteq Cover
    BY <2>1, CoverNext
  <2>4. Cover \subseteq Cover'
    BY <2>2 DEF Cover
  <2> QED
    BY <2>3, <2>4
<1>13. Nested'
  <2> SUFFICES ASSUME NEW i \in DOMAIN blocks', NEW j \in DOMAIN blocks', i < j,
                      UnitsOf(blocks'[i]) \cap UnitsOf(blocks'[j]) # {}
               PROVE  UnitsOf(blocks'[j]) \subseteq UnitsOf(blocks'[i])
    BY NestedNext
  <2>1. CASE j \in DOMAIN blocks
    <3>1. i \in DOMAIN blocks
      BY <1>0, <1>4, <2>1
    <3> QED
      BY <1>4, <2>1, <3>1 DEF Orderly, Nested
  <2>2. CASE j \notin DOMAIN blocks /\ i \in DOMAIN blocks
    BY <1>3, <1>4, <1>8, <2>2
  <2>3. CASE j \notin DOMAIN blocks /\ i \notin DOMAIN blocks
    <3>1. blocks'[i] \in T /\ blocks'[j] \in T
      BY <1>3, <1>4, <2>3
    <3>2. blocks'[i] = blocks'[j]
      BY <1>1, <3>1
    <3> QED
      BY <3>2
  <2> QED
    BY <2>1, <2>2, <2>3
<1>14. AllSealed'
  <2>1. (\A j \in DOMAIN blocks : SealedIn(blocks[j], gaps)) /\ \A h \in held : SealedIn(h, gaps)
    BY DEF Orderly, AllSealed, Sealed
  <2>2. \A t \in T : SealedIn(t, gaps)
    BY <1>1 DEF Sealed
  <2>3. \A j \in DOMAIN blocks' : SealedIn(blocks'[j], gaps)
    BY <1>3, <1>4, <2>1, <2>2
  <2> QED
    BY <1>6, <1>10, <2>1, <2>2, <2>3, AllSealedNext
<1>15. HeldCovered'
  BY <1>10, <1>12, HeldCoveredNext
<1>16. ASSUME NEW i \in Main PROVE /\ blocks'[i] = blocks[i]
                                   /\ blocks[i][1] \in DOMAIN left' <=> blocks[i][1] \in DOMAIN left
  <2>1. i \in DOMAIN blocks /\ blocks[i] \in Pairs
    <3>1. i \in DOMAIN blocks
      BY DEF Main
    <3> QED
      BY <1>0, <3>1
  <2>2. blocks[i][1] \in UnitsOf(blocks[i])
    BY <2>1, PairIs
  <2>3. (\E t \in N : blocks[i][1] = t[1]) => blocks[i][1] \in DOMAIN left
    BY <1>3, <1>8, <2>2
  <2> QED
    BY <1>4, <1>5, <2>1, <2>3
<1>17. MainHeld'
  BY <1>6, <1>11, <1>16, MainHeldNext
<1>18. MainDone'
  BY <1>11, <1>16, MainDoneNext DEF Orderly, MainDone
<1>19. PICK m \in 0 .. Len(wire) : OnTheWire(m)
  BY DEF Orderly
<1>20. m \in Nat /\ Len(wire) \in Nat /\ m <= Len(wire) /\ \A k \in 1 .. m : wire'[k] = wire[k]
  BY <1>0, <1>7
<1>21. OnTheWire(m)'
  <2>1. ASSUME NEW k \in 1 .. m PROVE \E i \in Main' : DueNext(wire'[k], blocks'[i])
    <3>1. PICK i \in Main : Due(wire[k], blocks[i])
      BY <1>19 DEF OnTheWire
    <3>2. DueNext(wire[k], blocks[i])
      BY <1>5, <3>1 DEF Due, DueNext
    <3> QED
      BY <1>11, <1>16, <1>20, <3>2
  <2>2. \A k, l \in 1 .. m : wire'[k].block = wire'[l].block => k = l
    BY <1>19, <1>20 DEF OnTheWire
  <2>3. \A i \in Main' : blocks'[i][1] \in DOMAIN left' => \E k \in 1 .. m : wire'[k].block = blocks'[i]
    BY <1>11, <1>16, <1>19, <1>20 DEF OnTheWire
  <2>4. gaps' \subseteq Cover'
    BY <1>10, <1>12
  <2> QED
    BY <2>1, <2>2, <2>3, <2>4, WireNext
<1>22. m \in 0 .. Len(wire')
  BY <1>7, <1>20
<1> QED
  BY <1>13, <1>14, <1>15, <1>17, <1>18, <1>21, <1>22, OrderlyNext

\* When every missing run is held, the window covers all that is missing.
LEMMA HeldIsCovered ==
    ASSUME TypeOK, AllSealed, HeldCovered, NEW kept \in SUBSET held,
           \A b \in OpenBlocks(gaps) : \E h \in kept : UnitsOf(h) \cap b # {}
    PROVE  gaps \subseteq Cover
<1> SUFFICES ASSUME NEW u \in gaps PROVE u \in Cover
  OBVIOUS
<1>0. got \subseteq Units /\ held \subseteq Pairs
  BY DEF TypeOK
<1>1. PICK b \in OpenBlocks(gaps) : u \in b
  BY <1>0, OpenCover
<1>2. PICK h \in kept : UnitsOf(h) \cap b # {}
  OBVIOUS
<1>3. h \in held /\ h \in Pairs /\ Sealed(h)
  BY <1>0 DEF AllSealed
<1>4. b \subseteq UnitsOf(h)
  BY <1>0, <1>2, <1>3, OpenInside
<1> QED
  BY <1>1, <1>3, <1>4 DEF HeldCovered

\* A top-up that finds missing bytes outside the window: its blocks are new main
\* blocks, and the peer serves them after the ones it owes.
LEMMA TopUpFresh ==
    ASSUME TypeOK, Window, Orderly, honest, ~(gaps \subseteq Cover),
           NEW kept \in SUBSET held, \A i \in Main : blocks[i][1] \in DOMAIN left => blocks[i] \in kept,
           NEW max, NEW T \in take_blocks(kept, max), ask(kept, T), add_blocks(T),
           packed' = packed, got' = got, mine' = mine
    PROVE  Orderly'
<1>0. got \subseteq Units /\ RxTyped /\ wire \in Seq(Requests) /\ kept \in SUBSET Pairs /\ blocks \in Seq(Pairs)
  BY DEF TypeOK, RxTyped
<1>1. /\ T \in SUBSET Pairs /\ IsFiniteSet(T)
      /\ \A t \in T : UnitsOf(t) \in OpenBlocks(gaps) /\ UnitsOf(t) \subseteq gaps /\ Sealed(t)
      /\ \A s, t \in T : UnitsOf(s) \cap UnitsOf(t) # {} => s = t
      /\ \A s, t \in T : s[1] = t[1] => s = t
      /\ \/ \A t \in T, h \in kept : UnitsOf(t) \cap UnitsOf(h) = {}
         \/ \A b \in OpenBlocks(gaps) : \E h \in kept : UnitsOf(h) \cap b # {}
  BY <1>0, TakeDoes
<1>2. \A t \in T, h \in kept : UnitsOf(t) \cap UnitsOf(h) = {}
  <2>1. AllSealed /\ HeldCovered
    BY DEF Orderly
  <2> QED
    BY <1>1, <2>1, HeldIsCovered
<1>3. /\ \A t \in T : \A i \in Main :
           UnitsOf(t) \cap UnitsOf(blocks[i]) # {} => blocks[i][1] \in DOMAIN left
      /\ \A t \in T : t[1] \in UnitsOf(t) /\ t[1] \in gaps /\ UnitsOf(t) \cap mine = {}
  BY <1>1, PickMeets
<1>4. ASSUME NEW t \in T, NEW j \in DOMAIN blocks PROVE UnitsOf(t) \cap UnitsOf(blocks[j]) = {}
  <2>1. PICK i \in Main : UnitsOf(blocks[j]) \subseteq UnitsOf(blocks[i])
    BY <1>0, InsideMain DEF Orderly
  <2>2. UnitsOf(t) \cap UnitsOf(blocks[i]) = {}
    BY <1>2, <1>3
  <2> QED
    BY <2>1, <2>2
<1>5. ASSUME NEW t \in T PROVE t[1] \notin DOMAIN left /\ t[1] \notin DOMAIN packed
  <2>1. starting(t[1]) = {}
    <3> SUFFICES ASSUME NEW j \in DOMAIN blocks, blocks[j][1] = t[1] PROVE FALSE
      BY DEF starting
    <3>1. blocks[j] \in Pairs
      BY <1>0
    <3>2. blocks[j][1] \in UnitsOf(blocks[j])
      BY <3>1, PairIs
    <3> QED
      BY <1>3, <1>4, <3>2
  <2> QED
    BY <2>1 DEF Window
<1>6. News(T) = T
  BY <1>5 DEF News
<1>7. /\ \A j \in DOMAIN blocks : j \in DOMAIN blocks' /\ blocks'[j] = blocks[j]
      /\ \A j \in DOMAIN blocks' : j \in Nat
      /\ \A j \in DOMAIN blocks' : j \notin DOMAIN blocks => blocks'[j] \in T /\ \A k \in DOMAIN blocks : k < j
      /\ \A j, k \in DOMAIN blocks' :
            j \notin DOMAIN blocks /\ k \notin DOMAIN blocks /\ blocks'[j] = blocks'[k] => j = k
      /\ \A t \in T : \E j \in DOMAIN blocks' : j \notin DOMAIN blocks /\ blocks'[j] = t
  BY <1>0, <1>1, <1>6, Widened
<1>8. /\ \A x : x \in DOMAIN left' <=> x \in DOMAIN left \/ \E t \in T : x = t[1]
      /\ \A x \in DOMAIN left : left'[x] = left[x]
      /\ \A t \in T : left'[t[1]] = t[2] - t[1]
  BY <1>0, <1>1, <1>6, AddDoes
<1>9. PICK n : n = Cardinality(T)
  OBVIOUS
<1>10. PICK f : f = InOrder(T)
  OBVIOUS
<1>11. /\ held' = kept \cup T /\ wire' \in Seq(Requests)
       /\ Len(wire') = Len(wire) + n /\ \A k \in 1 .. Len(wire) : wire'[k] = wire[k]
       /\ \A i \in 1 .. n : wire'[Len(wire) + i] = [block |-> f[i], pos |-> f[i][1], mode |-> "new"]
  BY <1>0, <1>1, <1>9, <1>10, AskDoes
<1>12. /\ n \in Nat /\ f \in [1 .. n -> T]
       /\ \A c \in T : \E i \in 1 .. n : f[i] = c
       /\ \A i, j \in 1 .. n : f[i] = f[j] => i = j
  BY <1>1, <1>9, <1>10, OrderIsComplete
<1>13. gaps' = gaps
  BY DEF gaps
<1>14. ASSUME NEW i \in DOMAIN blocks', NEW j \in DOMAIN blocks', i \notin DOMAIN blocks, i # j
       PROVE  UnitsOf(blocks'[i]) \cap UnitsOf(blocks'[j]) = {}
  <2>0. blocks'[i] \in T
    BY <1>7, <1>14
  <2>1. CASE j \in DOMAIN blocks
    BY <1>4, <1>7, <2>0, <2>1
  <2>2. CASE j \notin DOMAIN blocks
    <3>1. blocks'[j] \in T /\ blocks'[i] # blocks'[j]
      BY <1>7, <1>14, <2>2
    <3> QED
      BY <1>1, <2>0, <3>1
  <2> QED
    BY <2>1, <2>2
<1>15. \A i : i \in Main' <=> i \in Main \/ (i \in DOMAIN blocks' /\ i \notin DOMAIN blocks)
  <2>1. ASSUME NEW i \in Main PROVE i \in Main'
    <3>1. i \in DOMAIN blocks /\ \A j \in DOMAIN blocks : j < i => UnitsOf(blocks[j]) \cap UnitsOf(blocks[i]) = {}
      BY DEF Main
    <3>2. ASSUME NEW j \in DOMAIN blocks', j < i PROVE UnitsOf(blocks'[j]) \cap UnitsOf(blocks'[i]) = {}
      <4>1. j \in DOMAIN blocks
        BY <1>0, <1>7, <3>1, <3>2
      <4> QED
        BY <1>7, <3>1, <3>2, <4>1
    <3> QED
      BY <1>7, <3>1, <3>2, MainNext
  <2>2. ASSUME NEW i \in Main', i \in DOMAIN blocks PROVE i \in Main
    <3>1. \A j \in DOMAIN blocks' : j < i => UnitsOf(blocks'[j]) \cap UnitsOf(blocks'[i]) = {}
      BY MainNext
    <3> QED
      BY <1>7, <2>2, <3>1 DEF Main
  <2>3. ASSUME NEW i \in DOMAIN blocks', i \notin DOMAIN blocks PROVE i \in Main'
    <3>1. \A j \in DOMAIN blocks' : j < i => UnitsOf(blocks'[j]) \cap UnitsOf(blocks'[i]) = {}
      <4>1. \A j \in DOMAIN blocks' : j < i => j # i
        BY <1>7
      <4> QED
        BY <1>14, <2>3, <4>1
    <3> QED
      BY <3>1, MainNext
  <2>4. \A i \in Main' : i \in DOMAIN blocks'
    BY MainNext
  <2> QED
    BY <2>1, <2>2, <2>3, <2>4
<1>16. Cover \subseteq Cover' /\ \A t \in T : UnitsOf(t) \subseteq Cover'
  <2>1. \A j \in DOMAIN blocks' : UnitsOf(blocks'[j]) \subseteq Cover'
    BY CoverNext
  <2>2. \A j \in DOMAIN blocks : UnitsOf(blocks[j]) \subseteq Cover'
    BY <1>7, <2>1
  <2>3. Cover \subseteq Cover'
    BY <2>2 DEF Cover
  <2> QED
    BY <1>7, <2>1, <2>3
<1>17. Nested'
  <2> SUFFICES ASSUME NEW i \in DOMAIN blocks', NEW j \in DOMAIN blocks', i < j,
                      UnitsOf(blocks'[i]) \cap UnitsOf(blocks'[j]) # {}
               PROVE  UnitsOf(blocks'[j]) \subseteq UnitsOf(blocks'[i])
    BY NestedNext
  <2>0. i # j
    BY <1>7
  <2>1. CASE j \in DOMAIN blocks
    <3>1. i \in DOMAIN blocks
      BY <1>0, <1>7, <2>1
    <3> QED
      BY <1>7, <2>1, <3>1 DEF Orderly, Nested
  <2>2. CASE j \notin DOMAIN blocks
    BY <1>14, <2>0, <2>2
  <2> QED
    BY <2>1, <2>2
<1>18. AllSealed'
  <2>1. (\A j \in DOMAIN blocks : SealedIn(blocks[j], gaps)) /\ \A h \in held : SealedIn(h, gaps)
    BY DEF Orderly, AllSealed, Sealed
  <2>2. \A t \in T : SealedIn(t, gaps)
    BY <1>1 DEF Sealed
  <2>3. \A j \in DOMAIN blocks' : SealedIn(blocks'[j], gaps)
    BY <1>7, <2>1, <2>2
  <2> QED
    BY <1>11, <1>13, <2>1, <2>2, <2>3, AllSealedNext
<1>19. HeldCovered'
  <2>1. \A h \in held : UnitsOf(h) \cap gaps \subseteq Cover
    BY DEF Orderly, HeldCovered
  <2>2. \A h \in held' : UnitsOf(h) \cap gaps \subseteq Cover'
    BY <1>11, <1>16, <2>1
  <2> QED
    BY <1>13, <2>2, HeldCoveredNext
<1>20. ASSUME NEW i \in Main
       PROVE  blocks'[i] = blocks[i] /\ (blocks[i][1] \in DOMAIN left' <=> blocks[i][1] \in DOMAIN left)
  <2>1. i \in DOMAIN blocks /\ blocks[i] \in Pairs
    <3>1. i \in DOMAIN blocks
      BY DEF Main
    <3> QED
      BY <1>0, <3>1
  <2>2. blocks[i][1] \in UnitsOf(blocks[i])
    BY <2>1, PairIs
  <2>3. ~\E t \in T : blocks[i][1] = t[1]
    BY <1>3, <1>4, <2>1, <2>2
  <2> QED
    BY <1>7, <1>8, <2>1, <2>3
<1>21. MainHeld'
  <2>1. ASSUME NEW i \in Main', blocks'[i][1] \in DOMAIN left' PROVE blocks'[i] \in held'
    <3>1. CASE i \in Main
      BY <1>11, <1>20, <2>1, <3>1
    <3>2. CASE i \in DOMAIN blocks' /\ i \notin DOMAIN blocks
      BY <1>7, <1>11, <3>2
    <3> QED
      BY <1>15, <3>1, <3>2
  <2> QED
    BY <2>1, MainHeldNext
<1>22. MainDone'
  <2>1. ASSUME NEW i \in Main', blocks'[i][1] \notin DOMAIN left' PROVE UnitsOf(blocks'[i]) \subseteq mine'
    <3>1. CASE i \in Main
      BY <1>20, <2>1, <3>1 DEF Orderly, MainDone
    <3>2. CASE i \in DOMAIN blocks' /\ i \notin DOMAIN blocks
      BY <1>7, <1>8, <2>1, <3>2
    <3> QED
      BY <1>15, <3>1, <3>2
  <2> QED
    BY <2>1, MainDoneNext
<1>23. PICK m \in 0 .. Len(wire) : OnTheWire(m)
  BY DEF Orderly
<1>24. m = Len(wire) /\ m \in Nat
  BY <1>0, <1>23 DEF OnTheWire
<1>25. PICK q : q = m + n
  OBVIOUS
<1>26. q = Len(wire') /\ q \in Nat /\ \A k \in 1 .. q : (k \in 1 .. m) \/ (k - m \in 1 .. n /\ k = m + (k - m))
  BY <1>11, <1>12, <1>24, <1>25
<1>27. \A k \in 1 .. m : wire'[k] = wire[k] /\ k \in 1 .. q
  BY <1>11, <1>12, <1>24, <1>25
<1>28. \A i \in 1 .. n : m + i \in 1 .. q /\ wire'[m + i] = [block |-> f[i], pos |-> f[i][1], mode |-> "new"]
  BY <1>11, <1>12, <1>24, <1>25
<1>29. ASSUME NEW k \in 1 .. m PROVE \E i \in Main : wire'[k].block = blocks[i] /\ DueNext(wire'[k], blocks[i])
  <2>1. PICK i \in Main : Due(wire[k], blocks[i])
    BY <1>23 DEF OnTheWire
  <2>2. DueNext(wire[k], blocks[i]) /\ wire[k].block = blocks[i]
    BY <1>8, <2>1 DEF Due, DueNext
  <2> QED
    BY <1>27, <2>2
<1>30. ASSUME NEW i \in 1 .. n PROVE wire'[m + i].block = f[i] /\ f[i] \in T /\ DueNext(wire'[m + i], f[i])
  <2>1. PICK t : t = f[i]
    OBVIOUS
  <2>2. t \in T
    BY <1>12, <2>1
  <2>3. PICK e : e = wire'[m + i]
    OBVIOUS
  <2>4. e.block = t /\ e.pos = t[1] /\ e.mode = "new"
    <3>1. e = [block |-> t, pos |-> t[1], mode |-> "new"]
      BY <1>28, <2>1, <2>3
    <3> QED
      BY <3>1
  <2>5. t[1] \in Nat /\ t[1] .. (t[1] - 1) = {}
    BY <1>1, <2>2, PairIs
  <2>6. UnitsOf(t) \cap mine' = t[1] .. (t[1] - 1)
    BY <1>3, <2>2, <2>5
  <2>7. t[1] \in DOMAIN left' /\ left'[t[1]] = t[2] - t[1] /\ t[1] <= t[1] /\ t[1] \notin DOMAIN packed'
    BY <1>5, <1>8, <2>2, <2>5
  <2>8. DueNext(e, t)
    BY <2>4, <2>6, <2>7 DEF DueNext
  <2> QED
    BY <2>1, <2>2, <2>3, <2>4, <2>8
<1>31. OnTheWire(q)'
  <2>1. ASSUME NEW k \in 1 .. q PROVE \E i \in Main' : DueNext(wire'[k], blocks'[i])
    <3>1. CASE k \in 1 .. m
      BY <1>15, <1>20, <1>29, <3>1
    <3>2. CASE k - m \in 1 .. n /\ k = m + (k - m)
      <4>1. f[k - m] \in T /\ DueNext(wire'[k], f[k - m])
        BY <1>30, <3>2
      <4>2. PICK j \in DOMAIN blocks' : j \notin DOMAIN blocks /\ blocks'[j] = f[k - m]
        BY <1>7, <4>1
      <4> QED
        BY <1>15, <4>1, <4>2
    <3> QED
      BY <1>26, <3>1, <3>2
  <2>2. ASSUME NEW k \in 1 .. m, NEW i \in 1 .. n PROVE wire'[k].block # wire'[m + i].block
    <3>1. PICK j \in Main : wire'[k].block = blocks[j]
      BY <1>29
    <3>2. j \in DOMAIN blocks /\ blocks[j] \in Pairs
      <4>1. j \in DOMAIN blocks
        BY DEF Main
      <4> QED
        BY <1>0, <4>1
    <3>3. wire'[m + i].block = f[i] /\ f[i] \in T
      BY <1>30
    <3>4. UnitsOf(f[i]) \cap UnitsOf(blocks[j]) = {} /\ f[i][1] \in UnitsOf(f[i])
      BY <1>3, <1>4, <3>2, <3>3
    <3> QED
      BY <3>1, <3>3, <3>4
  <2>3. ASSUME NEW k \in 1 .. q, NEW l \in 1 .. q, wire'[k].block = wire'[l].block PROVE k = l
    <3>1. CASE k \in 1 .. m /\ l \in 1 .. m
      BY <1>23, <1>27, <2>3, <3>1 DEF OnTheWire
    <3>2. CASE k \in 1 .. m /\ l - m \in 1 .. n /\ l = m + (l - m)
      BY <2>2, <2>3, <3>2
    <3>3. CASE l \in 1 .. m /\ k - m \in 1 .. n /\ k = m + (k - m)
      BY <2>2, <2>3, <3>3
    <3>4. CASE k - m \in 1 .. n /\ k = m + (k - m) /\ l - m \in 1 .. n /\ l = m + (l - m)
      <4>1. wire'[k].block = f[k - m]
        BY <1>30, <3>4
      <4>2. wire'[l].block = f[l - m]
        BY <1>30, <3>4
      <4>3. k - m = l - m
        BY <1>12, <2>3, <3>4, <4>1, <4>2
      <4> QED
        BY <1>24, <1>26, <4>3
    <3> QED
      BY <1>26, <3>1, <3>2, <3>3, <3>4
  <2>4. ASSUME NEW i \in Main', blocks'[i][1] \in DOMAIN left' PROVE \E k \in 1 .. q : wire'[k].block = blocks'[i]
    <3>1. CASE i \in Main
      <4>1. PICK k \in 1 .. m : wire[k].block = blocks[i]
        BY <1>20, <1>23, <2>4, <3>1 DEF OnTheWire
      <4> QED
        BY <1>20, <1>27, <3>1, <4>1
    <3>2. CASE i \in DOMAIN blocks' /\ i \notin DOMAIN blocks
      <4>1. blocks'[i] \in T
        BY <1>7, <3>2
      <4>2. PICK j \in 1 .. n : f[j] = blocks'[i]
        BY <1>12, <4>1
      <4> QED
        BY <1>28, <1>30, <4>2
    <3> QED
      BY <1>15, <3>1, <3>2
  <2>5. q < Len(wire') => gaps' \subseteq Cover'
    BY <1>26
  <2> QED
    BY <2>1, <2>3, <2>4, <2>5, WireNext
<1>32. q \in 0 .. Len(wire')
  BY <1>26
<1> QED
  BY <1>17, <1>18, <1>19, <1>21, <1>22, <1>31, <1>32, OrderlyNext

\* A new window: every missing byte held is in, so the blocks asked for are fresh
\* and the peer owes nothing else; asked for none, the file has no gap left.
LEMMA AskOrderly ==
    ASSUME TypeOK, Window, Orderly, CompletedIsOnDisk, honest, honest' = honest, Ask
    PROVE  (Running' => Orderly') /\ CompletedIsOnDisk' /\ HonestPeerFinishes'
<1>0. /\ got \subseteq Units /\ mine \subseteq got /\ held \in SUBSET Pairs /\ wire \in Seq(Requests)
      /\ blocks \in Seq(Pairs) /\ pc = "ask" /\ DOMAIN left = {}
  BY DEF TypeOK, Window, Ask
<1>1. Nested /\ AllSealed /\ HeldCovered /\ MainDone
  BY DEF Orderly
<1>2. Cover \cap gaps = {}
  BY <1>0, <1>1, AllIsIn
<1>3. \A h \in held : UnitsOf(h) \cap gaps = {}
  BY <1>1, <1>2 DEF HeldCovered
<1>4. ASSUME \A b \in OpenBlocks(gaps) : \E h \in held : UnitsOf(h) \cap b # {} PROVE gaps = {}
  <2>1. gaps \subseteq Cover
    BY <1>1, <1>4, HeldIsCovered
  <2> QED
    BY <1>2, <2>1
<1>5. PICK T \in take_blocks(held, MaxRequest) :
          \/ T = {} /\ pc' = "ended" /\ UNCHANGED <<rxVars, held, no_more_blocks, wire>>
          \/ /\ T # {} /\ ask(held, T)
             /\ blocks' = InOrder(T)
             /\ left' = [x \in {blk[1] : blk \in T} |-> (CHOOSE blk \in T : blk[1] = x)[2] - x]
             /\ completed' = <<>> /\ packed' = <<>>
             /\ no_more_blocks' = FALSE
             /\ pc' = "read"
  BY DEF Ask
<1>6. got' = got /\ mine' = mine
  BY DEF Ask
<1>7. gaps' = gaps
  BY <1>6 DEF gaps
<1>8. /\ T \in SUBSET Pairs /\ IsFiniteSet(T)
      /\ \A t \in T : UnitsOf(t) \in OpenBlocks(gaps) /\ UnitsOf(t) \subseteq gaps /\ Sealed(t)
      /\ \A s, t \in T : UnitsOf(s) \cap UnitsOf(t) # {} => s = t
      /\ \A s, t \in T : s[1] = t[1] => s = t
      /\ T = {} /\ MaxRequest \in Nat \ {0} =>
            \A b \in OpenBlocks(gaps) : \E h \in held : UnitsOf(h) \cap b # {}
  BY <1>0, TakeDoes
<1>9. CASE T = {} /\ pc' = "ended" /\ UNCHANGED <<rxVars, held, no_more_blocks, wire>>
  <2>1. gaps' = {}
    BY <1>4, <1>7, <1>8, <1>9, ReceiverAssumption
  <2>2. completed' = completed
    BY <1>9 DEF rxVars
  <2>3. CompletedIsOnDisk'
    BY <1>6, <2>2 DEF CompletedIsOnDisk, UnitsOf
  <2> QED
    BY <1>9, <2>1, <2>3 DEF Running, HonestPeerFinishes
<1>10. CASE /\ T # {} /\ ask(held, T)
            /\ blocks' = InOrder(T)
            /\ left' = [x \in {blk[1] : blk \in T} |-> (CHOOSE blk \in T : blk[1] = x)[2] - x]
            /\ completed' = <<>> /\ packed' = <<>>
            /\ no_more_blocks' = FALSE
            /\ pc' = "read"
  <2>1. PICK n : n = Cardinality(T)
    OBVIOUS
  <2>2. PICK f : f = InOrder(T)
    OBVIOUS
  <2>3. /\ n \in Nat /\ f \in [1 .. n -> T]
        /\ \A c \in T : \E i \in 1 .. n : f[i] = c
        /\ \A i, j \in 1 .. n : f[i] = f[j] => i = j
    BY <1>8, <2>1, <2>2, OrderIsComplete
  <2>4. blocks' = f /\ DOMAIN blocks' = 1 .. n /\ \A i \in 1 .. n : i \in Nat /\ blocks'[i] \in T
    BY <1>10, <2>2, <2>3
  <2>5. /\ held' = held \cup T /\ wire' \in Seq(Requests)
        /\ Len(wire') = Len(wire) + n
        /\ \A i \in 1 .. n : wire'[Len(wire) + i] = [block |-> f[i], pos |-> f[i][1], mode |-> "new"]
    BY <1>0, <1>8, <1>10, <2>1, <2>2, AskDoes
  <2>6. ASSUME NEW t \in T
        PROVE  /\ t[1] \in UnitsOf(t) /\ UnitsOf(t) \cap mine = {} /\ t[1] \in Nat
               /\ t[1] \in DOMAIN left' /\ left'[t[1]] = t[2] - t[1]
    <3>1. t[1] \in UnitsOf(t) /\ t[1] \in Nat
      BY <1>8, PairIs
    <3>2. UnitsOf(t) \cap mine = {}
      BY <1>0, <1>8 DEF gaps
    <3>3. t[1] \in DOMAIN left' /\ left'[t[1]] = (CHOOSE blk \in T : blk[1] = t[1])[2] - t[1]
      BY <1>10
    <3>4. (CHOOSE blk \in T : blk[1] = t[1])[2] - t[1] = t[2] - t[1]
      BY <1>8, ExpectedOf
    <3> QED
      BY <3>1, <3>2, <3>3, <3>4
  <2>7. Len(wire) = 0
    <3>1. PICK m \in 0 .. Len(wire) : OnTheWire(m)
      BY DEF Orderly
    <3>2. ~(1 \in 1 .. m)
      BY <1>0, <3>1 DEF OnTheWire, Due
    <3>3. m = 0 /\ Len(wire) \in Nat
      BY <1>0, <3>2
    <3>4. gaps # {}
      <4>1. PICK t \in T : TRUE
        BY <1>10
      <4>2. t[1] \in UnitsOf(t)
        BY <2>6
      <4>3. UnitsOf(t) \subseteq gaps
        BY <1>8
      <4> QED
        BY <4>2, <4>3
    <3>5. ~(gaps \subseteq Cover)
      BY <1>2, <3>4
    <3> QED
      BY <3>1, <3>3, <3>5 DEF OnTheWire
  <2>8. Len(wire') = n /\ \A i \in 1 .. n : wire'[i] = [block |-> f[i], pos |-> f[i][1], mode |-> "new"]
    <3>1. \A i \in 1 .. n : 0 + i = i
      BY <2>3
    <3> QED
      BY <2>3, <2>5, <2>7, <3>1
  <2>9. ASSUME NEW i \in 1 .. n, NEW j \in 1 .. n, i # j PROVE UnitsOf(blocks'[i]) \cap UnitsOf(blocks'[j]) = {}
    <3>1. blocks'[i] \in T /\ blocks'[j] \in T /\ blocks'[i] # blocks'[j]
      BY <2>3, <2>4, <2>9
    <3> QED
      BY <1>8, <3>1
  <2>10. Main' = 1 .. n
    <3>1. \A i, j \in 1 .. n : j < i => j # i
      BY <2>3
    <3> QED
      BY <2>4, <2>9, <3>1, MainNext
  <2>11. \A t \in T : UnitsOf(t) \subseteq Cover'
    BY <2>3, <2>4, CoverNext
  <2>12. Nested'
    <3>1. \A i, j \in 1 .. n : i < j => j # i
      BY <2>3
    <3> QED
      BY <2>4, <2>9, <3>1, NestedNext
  <2>13. AllSealed'
    <3>1. \A h \in held : SealedIn(h, gaps)
      BY <1>1 DEF AllSealed, Sealed
    <3>2. \A t \in T : SealedIn(t, gaps)
      BY <1>8 DEF Sealed
    <3> QED
      BY <1>7, <2>4, <2>5, <3>1, <3>2, AllSealedNext
  <2>14. HeldCovered'
    <3>1. \A h \in held' : UnitsOf(h) \cap gaps \subseteq Cover'
      BY <1>3, <2>5, <2>11
    <3> QED
      BY <1>7, <3>1, HeldCoveredNext
  <2>15. MainHeld'
    BY <2>4, <2>5, <2>10, MainHeldNext
  <2>16. MainDone'
    BY <2>4, <2>6, <2>10, MainDoneNext
  <2>17. ASSUME NEW i \in 1 .. n PROVE wire'[i].block = blocks'[i] /\ DueNext(wire'[i], blocks'[i])
    <3>1. PICK t : t = blocks'[i]
      OBVIOUS
    <3>2. t \in T /\ t = f[i]
      BY <2>4, <3>1
    <3>3. PICK e : e = wire'[i]
      OBVIOUS
    <3>4. e = [block |-> t, pos |-> t[1], mode |-> "new"]
      BY <2>8, <3>2, <3>3
    <3>5. e.block = t /\ e.pos = t[1] /\ e.mode = "new"
      BY <3>4
    <3>6. t[1] \in Nat /\ t[1] .. (t[1] - 1) = {}
      BY <2>6, <3>2
    <3>7. UnitsOf(t) \cap mine' = t[1] .. (t[1] - 1)
      BY <1>6, <2>6, <3>2, <3>6
    <3>8. t[1] \in DOMAIN left' /\ left'[t[1]] = t[2] - t[1] /\ t[1] <= t[1] /\ t[1] \notin DOMAIN packed'
      BY <1>10, <2>6, <3>2, <3>6
    <3>9. DueNext(e, t)
      BY <3>5, <3>7, <3>8 DEF DueNext
    <3> QED
      BY <3>1, <3>3, <3>5, <3>9
  <2>18. OnTheWire(n)'
    <3>1. \A k \in 1 .. n : \E i \in Main' : DueNext(wire'[k], blocks'[i])
      BY <2>10, <2>17
    <3>2. \A k, l \in 1 .. n : wire'[k].block = wire'[l].block => k = l
      BY <2>3, <2>4, <2>17
    <3>3. \A i \in Main' : blocks'[i][1] \in DOMAIN left' => \E k \in 1 .. n : wire'[k].block = blocks'[i]
      BY <2>10, <2>17
    <3>4. ~(n < Len(wire'))
      BY <2>3, <2>8
    <3> QED
      BY <3>1, <3>2, <3>3, <3>4, WireNext
  <2>19. n \in 0 .. Len(wire')
    BY <2>3, <2>8
  <2>20. Orderly'
    BY <2>12, <2>13, <2>14, <2>15, <2>16, <2>18, <2>19, OrderlyNext
  <2>21. CompletedIsOnDisk'
    BY <1>10 DEF CompletedIsOnDisk
  <2> QED
    BY <1>10, <2>20, <2>21 DEF HonestPeerFinishes
<1> QED
  BY <1>5, <1>9, <1>10

\* The top-up leaves the window orderly: what it lets go of is complete, so every
\* open main block stays held.
LEMMA TopUpOrderly ==
    ASSUME TypeOK, Window, Orderly, CompletedIsOnDisk, honest, honest' = honest, TopUp
    PROVE  (Running' => Orderly') /\ CompletedIsOnDisk' /\ HonestPeerFinishes'
<1>1. completed' = <<>> /\ pc' = "read" /\ packed' = packed /\ got' = got /\ mine' = mine
  BY DEF TopUp
<1> DEFINE kept == held \ {completed[i] : i \in DOMAIN completed}
<1>2. PICK m \in 0 .. Len(wire) : OnTheWire(m)
  BY DEF Orderly
<1>3. ASSUME NEW i \in Main, blocks[i][1] \in DOMAIN left PROVE blocks[i] \in kept
  <2>1. ~(UnitsOf(blocks[i]) \subseteq mine)
    BY <1>2, <1>3, OpenIsOwed
  <2>2. \A j \in DOMAIN completed : UnitsOf(completed[j]) \subseteq mine
    BY DEF CompletedIsOnDisk
  <2>3. blocks[i] \in held
    BY <1>3 DEF Orderly, MainHeld
  <2> QED
    BY <2>1, <2>2, <2>3
<1>4. \/ held' = kept /\ UNCHANGED <<blocks, left, no_more_blocks, wire>>
      \/ \E T \in take_blocks(kept, Len(completed)) : ask(kept, T) /\ add_blocks(T)
  BY DEF TopUp
<1>5. kept \in SUBSET held
  OBVIOUS
<1> HIDE DEF kept
<1>6. CASE held' = kept /\ UNCHANGED <<blocks, left, no_more_blocks, wire>>
  <2>1. gaps' \subseteq gaps
    BY <1>1 DEF gaps
  <2>2. Orderly'
    BY <1>1, <1>3, <1>5, <1>6, <2>1, OrderlyKept
  <2> QED
    BY <1>1, <2>2 DEF CompletedIsOnDisk, HonestPeerFinishes
<1>7. ASSUME NEW T \in take_blocks(kept, Len(completed)), ask(kept, T), add_blocks(T)
      PROVE  (Running' => Orderly') /\ CompletedIsOnDisk' /\ HonestPeerFinishes'
  <2>1. CASE gaps \subseteq Cover
    <3>1. Orderly'
      BY <1>1, <1>3, <1>5, <1>7, <2>1, TopUpRaced
    <3> QED
      BY <1>1, <3>1 DEF CompletedIsOnDisk, HonestPeerFinishes
  <2>2. CASE ~(gaps \subseteq Cover)
    <3>1. Orderly'
      BY <1>1, <1>3, <1>5, <1>7, <2>2, TopUpFresh
    <3> QED
      BY <1>1, <3>1 DEF CompletedIsOnDisk, HonestPeerFinishes
  <2> QED
    BY <2>1, <2>2
<1> QED
  BY <1>4, <1>6, <1>7

\* A trailer that is settled stays so while the blocks of the window are the same.
LEMMA StillSettled ==
    ASSUME LateIsSettled, blocks' = blocks, DOMAIN left' \subseteq DOMAIN left, mine \subseteq mine',
           gaps' \subseteq gaps, late' \subseteq late
    PROVE  LateIsSettled'
<1>1. Main' = Main
  BY MainNext DEF Main
<1>2. CASE AllIn
  BY <1>1, <1>2 DEF AllIn, LateIsSettled
<1>3. CASE \A x \in late : Settled(x)
  <2>1. \A x : starting(x)' = starting(x) /\ first(starting(x))' = first(starting(x))
    BY DEF starting, first
  <2>2. \A x : Settled(x) => Settled(x)'
    BY <2>1 DEF Settled, UnitsOf
  <2> QED
    BY <1>3, <2>2 DEF LateIsSettled
<1> QED
  BY <1>2, <1>3 DEF LateIsSettled

\* Blocks are asked for in gaps, so none starts where a settled one did.
LEMMA AskLate ==
    ASSUME TypeOK, LateIsSettled, Ask, late' = late
    PROVE  Running' => LateIsSettled'
<1> SUFFICES ASSUME Running' PROVE LateIsSettled'
  OBVIOUS
<1>0. got \subseteq Units /\ mine \subseteq got /\ late \subseteq Starts
  BY DEF TypeOK
<1>1. PICK T \in take_blocks(held, MaxRequest) :
          /\ T # {} /\ blocks' = InOrder(T)
          /\ left' = [x \in {blk[1] : blk \in T} |-> (CHOOSE blk \in T : blk[1] = x)[2] - x]
  BY DEF Ask, Running
<1>2. mine' = mine
  BY DEF Ask
<1>3. /\ T \in SUBSET Pairs /\ IsFiniteSet(T)
      /\ \A t \in T : UnitsOf(t) \subseteq gaps
      /\ \A s, t \in T : s[1] = t[1] => s = t
  BY <1>0, TakeDoes
<1>4. \A t \in T : t[1] \in gaps
  BY <1>3, PairIs
<1>5. ~AllIn
  BY <1>1, <1>4 DEF AllIn
<1>6. ASSUME NEW x \in late PROVE Settled(x)'
  <2>1. x \in mine /\ \A t \in T : t[1] # x
    BY <1>0, <1>4, <1>5, <1>6 DEF LateIsSettled, Settled, gaps
  <2>2. x \notin DOMAIN left'
    BY <1>1, <2>1
  <2>3. \A i \in DOMAIN blocks' : blocks'[i] \in T
    <3>1. InOrder(T) \in [1 .. Cardinality(T) -> T]
      BY <1>3, OrderIsComplete
    <3> QED
      BY <1>1, <3>1
  <2>4. starting(x)' = {}
    BY <2>1, <2>3 DEF starting
  <2> QED
    BY <1>2, <2>1, <2>2, <2>4 DEF Settled
<1> QED
  BY <1>6 DEF LateIsSettled

\* So it is with the top-up; and when no gap is left, none is added.
LEMMA TopUpLate ==
    ASSUME TypeOK, LateIsSettled, TopUp, late' = late
    PROVE  LateIsSettled'
<1>0. got \subseteq Units /\ mine \subseteq got /\ late \subseteq Starts /\ RxTyped /\ blocks \in Seq(Pairs)
  BY TypesAre DEF TypeOK
<1>1. got' = got /\ mine' = mine
  BY DEF TopUp
<1>2. gaps' = gaps
  BY <1>1 DEF gaps
<1>3. \/ blocks' = blocks /\ left' = left
      \/ \E kept, max : \E T \in take_blocks(kept, max) : add_blocks(T)
  BY DEF TopUp
<1>4. CASE blocks' = blocks /\ left' = left
  BY <1>1, <1>2, <1>4, StillSettled
<1>5. ASSUME NEW kept, NEW max, NEW T \in take_blocks(kept, max), add_blocks(T) PROVE LateIsSettled'
  <2>1. /\ T \in SUBSET Pairs /\ IsFiniteSet(T)
        /\ \A t \in T : UnitsOf(t) \subseteq gaps
        /\ \A s, t \in T : s[1] = t[1] => s = t
    BY <1>0, TakeDoes
  <2>2. \A t \in T : t[1] \in gaps
    BY <2>1, PairIs
  <2>3. /\ \A j \in DOMAIN blocks : j \in DOMAIN blocks' /\ blocks'[j] = blocks[j]
        /\ \A j \in DOMAIN blocks' : j \notin DOMAIN blocks => blocks'[j] \in News(T)
    BY <1>0, <1>5, <2>1, Widened
  <2>4. \A x : x \in DOMAIN left' <=> x \in DOMAIN left \/ \E t \in News(T) : x = t[1]
    BY <1>0, <1>5, <2>1, AddDoes
  <2>5. News(T) \subseteq T
    BY DEF News
  <2>6. CASE AllIn
    <3>1. News(T) = {}
      BY <2>2, <2>5, <2>6 DEF AllIn
    <3>2. DOMAIN blocks' = DOMAIN blocks /\ \A j \in DOMAIN blocks : blocks'[j] = blocks[j]
      BY <2>3, <3>1
    <3>3. Main' = Main
      BY <3>2, MainNext DEF Main
    <3>4. \A i \in Main : i \in DOMAIN blocks
      BY DEF Main
    <3> QED
      BY <1>2, <2>4, <2>6, <3>1, <3>2, <3>3, <3>4 DEF AllIn, LateIsSettled
  <2>7. CASE \A x \in late : Settled(x)
    <3>1. ASSUME NEW x \in late PROVE Settled(x)'
      <4>1. x \in mine /\ x \notin DOMAIN left /\ \A t \in T : t[1] # x
        BY <1>0, <2>2, <2>7, <3>1 DEF Settled, gaps
      <4>2. x \notin DOMAIN left'
        BY <2>4, <2>5, <4>1
      <4>3. CASE starting(x) = {}
        <5>1. \A j \in DOMAIN blocks' : blocks'[j][1] # x
          BY <2>3, <2>5, <4>1, <4>3 DEF starting
        <5>2. starting(x)' = {}
          BY <5>1 DEF starting
        <5> QED
          BY <1>1, <4>1, <4>2, <5>2 DEF Settled
      <4>4. CASE starting(x) # {}
        <5>1. /\ Cardinality(News(T)) \in Nat
              /\ InOrder(News(T)) \in [1 .. Cardinality(News(T)) -> Pairs]
              /\ blocks' = blocks \o InOrder(News(T))
          BY <1>0, <1>5, <2>1, AddDoes
        <5>2. first(starting(x))' = first(starting(x))
          BY <1>0, <4>4, <5>1, StartKept
        <5>3. UnitsOf(first(starting(x))) \subseteq mine
          BY <2>7, <3>1, <4>4 DEF Settled
        <5> QED
          BY <1>1, <4>1, <4>2, <5>2, <5>3 DEF Settled, UnitsOf
      <4> QED
        BY <4>3, <4>4
    <3> QED
      BY <3>1 DEF LateIsSettled
  <2> QED
    BY <2>6, <2>7 DEF LateIsSettled
<1> QED
  BY <1>3, <1>4, <1>5

\* The last byte of a main block settles its start.
LEMMA ServedSettles ==
    ASSUME TypeOK, wire # <<>>, NEW i \in Main, NEW b, b = blocks[i], Due(wire[1], blocks[i]),
           NEW p, p = wire[1].pos, Credited(b, p, b[2], "packed"), late' \subseteq {b[1]}
    PROVE  LateIsSettled'
<1>0. /\ b \in Pairs /\ p \in Nat /\ b[1] \in Nat /\ b[2] \in Nat
      /\ b[1] <= p /\ p < b[2] /\ blocks \in Seq(Pairs)
  BY DueIs DEF TypeOK
<1>1. blocks' = blocks /\ mine' = mine \cup (p .. (b[2] - 1)) /\ b[1] \notin DOMAIN left'
  BY DEF Credited
<1>2. UnitsOf(b) \cap mine = b[1] .. (p - 1)
  BY DEF Due
<1>3. UnitsOf(b) \subseteq mine' /\ b[1] \in UnitsOf(b)
  <2>1. \A u \in UnitsOf(b) : u \in b[1] .. (p - 1) \/ u \in p .. (b[2] - 1)
    BY <1>0 DEF UnitsOf
  <2> QED
    BY <1>0, <1>1, <1>2, <2>1, PairIs
<1>4. starting(b[1])' = starting(b[1]) /\ first(starting(b[1]))' = first(starting(b[1]))
  BY <1>1 DEF starting, first
<1>5. first(starting(b[1])) = b
  BY <1>0, MainIsFirst
<1>6. \A x \in late' : x = b[1]
  OBVIOUS
<1>7. Settled(b[1])'
  BY <1>1, <1>3, <1>4, <1>5 DEF Settled, UnitsOf
<1> QED
  BY <1>6, <1>7 DEF LateIsSettled

\* A trailer on its own cuts the session off, or is taken for the beginning of a
\* stream whose block is in already.
LEMMA TrailerStep ==
    ASSUME TypeOK, Window, Orderly, LateIsSettled, CompletedIsOnDisk, honest, honest' = honest, TypeOK',
           ServeTrailer
    PROVE  Fair' /\ CompletedIsOnDisk' /\ HonestPeerFinishes'
<1>0. wire' = wire /\ RxTyped /\ late \subseteq Starts /\ mine \subseteq got /\ blocks \in Seq(Pairs)
  BY TypesAre DEF ServeTrailer, TypeOK
<1>1. PICK x \in late : \/ reject /\ late' = late
                        \/ /\ starting(x) # {} /\ late' \in {late, {}}
                           /\ \E n \in 0 .. 1 : AcceptPacked(x, n, FALSE, FALSE)
  BY DEF ServeTrailer
<1>2. CASE reject /\ late' = late
  <2>1. CompletedIsOnDisk'
    BY <1>2 DEF reject, rxVars, CompletedIsOnDisk, UnitsOf
  <2> QED
    BY <1>1, <1>2, <2>1 DEF reject, Fair, Running, HonestPeerFinishes
<1>3. ASSUME starting(x) # {}, late' \in {late, {}}, NEW n \in 0 .. 1, AcceptPacked(x, n, FALSE, FALSE)
      PROVE  Fair' /\ CompletedIsOnDisk' /\ HonestPeerFinishes'
  <2>0. n \in Nat /\ x \in Nat /\ late' \subseteq late
    BY <1>0, <1>3 DEF Starts
  <2>1. CASE AllIn
    <3>1. \E ended, surplus \in BOOLEAN : AcceptPacked(x, n, ended, surplus)
      BY <1>3
    <3>2. gaps \subseteq Cover /\ \A i \in Main : blocks[i][1] \notin DOMAIN left
      BY <2>1 DEF AllIn
    <3>3. (Running' => Orderly') /\ AllIn' /\ CompletedIsOnDisk' /\ HonestPeerFinishes'
      BY <2>0, <3>1, <3>2, RacedPacket
    <3> QED
      BY <3>3 DEF Fair, LateIsSettled
  <2>2. CASE ~AllIn
    <3>1. Settled(x)
      BY <2>2 DEF LateIsSettled
    <3>2. PICK blk \in Pairs : blk = first(starting(x)) /\ blk[1] = x
      BY <1>0, <1>3, StartIs
    <3> DEFINE pb == IF x \in DOMAIN packed THEN packed[x]
                     ELSE [written |-> 0, total |-> first(starting(x))[2] - x]
               out == pb.written + n
               grown == [z \in DOMAIN packed \cup {x} |->
                           IF z = x THEN [pb EXCEPT !.written = out] ELSE packed[z]]
    <3>3. pb.written \in Nat /\ pb.total = blk[2] - x
      <4>1. CASE x \in DOMAIN packed
        BY <3>2, <4>1, GeometryAssumption DEF Window, RxTyped, TypeOK, Streams
      <4>2. CASE x \notin DOMAIN packed
        BY <3>2, <4>2
      <4> QED
        BY <4>1, <4>2
    <3>4. \A z : z # x => /\ z \in DOMAIN grown <=> z \in DOMAIN packed
                          /\ z \in DOMAIN packed => grown[z] = packed[z]
      OBVIOUS
    <3>5. ~over_or_short(out, pb.total, n, FALSE, FALSE)
      BY DEF over_or_short
    <3>6. \/ packed' = grown /\ UNCHANGED <<left, completed, got, mine>> /\ accepted
          \/ out <= pb.total /\ credit(x, n, grown) /\ write(x + pb.written, x + out) /\ accepted
      <4>1. \/ starting(x) = {} /\ reject
            \/ over_or_short(out, pb.total, n, FALSE, FALSE) /\ reject
            \/ packed' = grown /\ UNCHANGED <<left, completed, got, mine>> /\ accepted
            \/ out <= pb.total /\ credit(x, n, grown) /\ write(x + pb.written, x + out) /\ accepted
        BY <1>3 DEF AcceptPacked
      <4> HIDE DEF pb, out, grown
      <4> QED
        BY <1>3, <3>5, <4>1
    <3> HIDE DEF grown
    <3>7. x \notin DOMAIN left /\ x \in mine /\ UnitsOf(blk) \subseteq mine
      BY <1>3, <3>1, <3>2 DEF Settled
    <3>8. /\ packed' = grown /\ completed' = completed /\ accepted
          /\ DOMAIN left' = DOMAIN left /\ \A z \in DOMAIN left : left'[z] = left[z]
          /\ mine' = mine /\ got' = got
      <4>1. CASE out <= pb.total /\ credit(x, n, grown) /\ write(x + pb.written, x + out) /\ accepted
        <5>1. (x + pb.written) .. ((x + out) - 1) \subseteq UnitsOf(blk)
          <6> HIDE DEF pb
          <6> QED
            BY <2>0, <3>2, <3>3, <4>1, PairIs
        <5>2. mine' = mine /\ got' = got
          <6> HIDE DEF pb, out
          <6>1. (x + pb.written) .. ((x + out) - 1) \subseteq mine
            BY <3>7, <5>1
          <6>2. /\ mine' = mine \cup ((x + pb.written) .. ((x + out) - 1))
                /\ got' = got \cup ((x + pb.written) .. ((x + out) - 1))
            BY <4>1 DEF write
          <6> QED
            BY <1>0, <6>1, <6>2
        <5>3. ~closes(x, n)
          BY <3>7 DEF closes
        <5>4. packed' = grown /\ completed' = completed
          BY <4>1, <5>3 DEF credit
        <5>5. left' = [z \in DOMAIN left |-> IF z = x THEN left[z] - n ELSE left[z]]
          BY <4>1, <5>3 DEF credit
        <5>6. DOMAIN left' = DOMAIN left /\ \A z \in DOMAIN left : left'[z] = left[z]
          BY <3>7, <5>5
        <5> QED
          BY <4>1, <5>2, <5>4, <5>6
      <4>2. CASE packed' = grown /\ UNCHANGED <<left, completed, got, mine>> /\ accepted
        BY <4>2
      <4> QED
        BY <3>6, <4>1, <4>2
    <3>9. blocks' = blocks /\ held' = held /\ pc' = "topup" /\ gaps' = gaps
      BY <3>8 DEF accepted, gaps
    <3>10. Orderly'
      <4> HIDE DEF pb, out
      <4>0. packed' = grown
        BY <3>8
      <4>1. \A z \in DOMAIN left : /\ z \in DOMAIN packed' <=> z \in DOMAIN packed
                                   /\ z \in DOMAIN packed => packed'[z] = packed[z]
        <5> TAKE z \in DOMAIN left
        <5>1. z # x
          BY <3>7
        <5>2. (z \in DOMAIN grown <=> z \in DOMAIN packed) /\ (z \in DOMAIN packed => grown[z] = packed[z])
          BY <3>4, <5>1
        <5> QED
          BY <4>0, <5>2
      <4>2. \A i \in Main : blocks[i][1] \in DOMAIN left => blocks[i] \in held'
        BY <3>9 DEF Orderly, MainHeld
      <4>3. gaps' \subseteq gaps /\ held' \subseteq held
        BY <3>9
      <4>4. DOMAIN left' = DOMAIN left /\ \A z \in DOMAIN left : left'[z] = left[z]
        BY <3>8
      <4>5. mine' = mine /\ blocks' = blocks
        BY <3>8, <3>9
      <4> HIDE <3>8
      <4> QED
        BY <1>0, <4>1, <4>2, <4>3, <4>4, <4>5, OrderlyKept
    <3>11. LateIsSettled'
      BY <2>0, <3>8, <3>9, StillSettled
    <3>12. CompletedIsOnDisk'
      BY <3>8 DEF CompletedIsOnDisk, UnitsOf
    <3> QED
      BY <3>9, <3>10, <3>11, <3>12 DEF Fair, HonestPeerFinishes
  <2> QED
    BY <2>1, <2>2
<1> QED
  BY <1>1, <1>2, <1>3

\* Every step of a session with an honest peer leaves its window orderly.
LEMMA HonestStep ==
    ASSUME ReceiverInv, [Next]_vars, TypeOK', honest
    PROVE  Fair' /\ CompletedIsOnDisk' /\ HonestPeerFinishes'
<1>0. TypeOK /\ Window /\ Fair /\ CompletedIsOnDisk /\ HonestPeerFinishes /\ RxTyped /\ wire \in Seq(Requests) /\ wire' \in Seq(Requests)
  BY TypesAre, TypesNext DEF ReceiverInv
<1> USE <1>0
<1>1. ASSUME Running PROVE Orderly /\ LateIsSettled
  BY <1>1 DEF Fair
<1>2. CASE Ask /\ late' = late /\ honest' = honest
  <2>1. Orderly /\ LateIsSettled
    BY <1>1, <1>2 DEF Ask, Running
  <2>2. (Running' => Orderly') /\ CompletedIsOnDisk' /\ HonestPeerFinishes'
    BY <1>2, <2>1, AskOrderly
  <2>3. Running' => LateIsSettled'
    BY <1>2, <2>1, AskLate
  <2> QED
    BY <2>2, <2>3 DEF Fair
<1>3. CASE TopUp /\ late' = late /\ honest' = honest
  <2>1. Orderly /\ LateIsSettled
    BY <1>1, <1>3 DEF TopUp, Running
  <2>2. (Running' => Orderly') /\ CompletedIsOnDisk' /\ HonestPeerFinishes'
    BY <1>3, <2>1, TopUpOrderly
  <2>3. LateIsSettled'
    BY <1>3, <2>1, TopUpLate
  <2> QED
    BY <2>2, <2>3 DEF Fair
<1>4. ASSUME wire # <<>>, Orderly, NEW m \in 0 .. Len(wire), OnTheWire(m), m # 0
      PROVE  m >= 1 /\ \E i \in Main : Due(wire[1], blocks[i])
  <2>1. m >= 1 /\ 1 \in 1 .. m
    BY <1>4
  <2> QED
    BY <1>4, <2>1 DEF OnTheWire
<1>h. ASSUME wire # <<>> PROVE /\ Head(wire) = wire[1] /\ wire[1] \in Requests /\ wire[1].pos \in Nat
                               /\ wire[1].block \in Pairs /\ wire[1].block[1] \in Nat /\ wire[1].block[2] \in Nat
  <2>1. Head(wire) = wire[1] /\ wire[1] \in Requests
    BY <1>h
  <2>2. wire[1].pos \in Nat /\ wire[1].block \in Pairs
    BY <2>1, GeometryAssumption DEF Requests
  <2> QED
    BY <2>1, <2>2, PairIs
\* Behind the main blocks there are only raced ones.
<1>r. ASSUME wire # <<>>, OnTheWire(0) PROVE gaps \subseteq Cover /\ \A i \in Main : blocks[i][1] \notin DOMAIN left
  <2>1. 0 < Len(wire)
    BY <1>r
  <2> QED
    BY <1>r, <2>1 DEF OnTheWire
<1>5. CASE ServeRaw /\ late' = late /\ honest' = honest
  <2>0. wire # <<>> /\ pc = "read" /\ Running
    BY <1>5 DEF ServeRaw, reading, Running
  <2>l. late' = {} /\ LateIsSettled'
    BY <1>5 DEF ServeRaw, LateIsSettled
  <2>1. PICK y \in (Head(wire).pos + 1) .. Head(wire).block[2] : AcceptRaw(Head(wire).pos, y) /\ served(y, "raw")
    BY <1>5 DEF ServeRaw
  <2>2. PICK p : p = wire[1].pos
    OBVIOUS
  <2>3. p \in Nat /\ y \in (p + 1) .. wire[1].block[2] /\ AcceptRaw(p, y) /\ y \in Nat /\ Orderly
    <3>1. Orderly
      BY <1>1, <2>0
    <3>2. Head(wire) = wire[1] /\ p \in Nat /\ wire[1].block[2] \in Nat
      BY <1>h, <2>0, <2>2
    <3>3. y \in (p + 1) .. wire[1].block[2] /\ AcceptRaw(p, y)
      BY <2>1, <2>2, <3>2
    <3> QED
      BY <3>1, <3>2, <3>3
  <2>4. PICK m \in 0 .. Len(wire) : OnTheWire(m)
    BY <2>3 DEF Orderly
  <2>5. CASE m = 0
    <3>1. OnTheWire(0)
      BY <2>4, <2>5
    <3> QED
      BY <1>5, <1>r, <2>0, <2>l, <2>3, <3>1, RacedPacket DEF Fair
  <2>6. CASE m # 0
    <3>1. PICK i \in Main : Due(wire[1], blocks[i])
      BY <1>4, <2>0, <2>3, <2>4, <2>6
    <3>2. PICK b : b = blocks[i]
      OBVIOUS
    <3>3. m >= 1 /\ b = wire[1].block
      BY <1>4, <2>0, <2>3, <2>4, <2>6, <3>1, <3>2 DEF Due
    <3>4. y \in (p + 1) .. b[2] /\ y \in p .. b[2]
      <4>1. b[2] \in Nat
        BY <1>h, <2>0, <3>3
      <4> QED
        BY <2>3, <3>3, <4>1
    <3>5. Credited(b, p, y, "raw")
      BY <2>0, <2>2, <2>3, <3>1, <3>2, <3>4, RawCredited
    <3> QED
      BY <1>5, <2>0, <2>l, <2>1, <2>2, <2>3, <2>4, <3>1, <3>2, <3>3, <3>4, <3>5, MainServed DEF Fair
  <2> QED
    BY <2>5, <2>6
<1>6. CASE ServePacked /\ honest' = honest
  <2>0. wire # <<>> /\ pc = "read" /\ Running /\ wire[1].mode \in {"new", "packed"}
    BY <1>6, <1>h DEF ServePacked, reading, Running
  <2>1. PICK y \in Head(wire).pos .. Head(wire).block[2], ended \in BOOLEAN :
           /\ ended => y = Head(wire).block[2]
           /\ AcceptPacked(Head(wire).block[1], y - Head(wire).pos, ended, FALSE)
           /\ served(y, "packed")
           /\ late' = IF y = Head(wire).block[2] /\ ~ended THEN {Head(wire).block[1]} ELSE {}
    BY <1>6 DEF ServePacked
  <2>2. PICK p : p = wire[1].pos
    OBVIOUS
  <2>b. PICK b : b = wire[1].block
    OBVIOUS
  <2>3. Head(wire) = wire[1] /\ p \in Nat /\ b[1] \in Nat /\ b[2] \in Nat
    BY <1>h, <2>0, <2>2, <2>b
  <2>4. /\ y \in p .. b[2] /\ (ended => y = b[2]) /\ AcceptPacked(b[1], y - p, ended, FALSE) /\ Orderly
        /\ late' = IF y = b[2] /\ ~ended THEN {b[1]} ELSE {}
    BY <1>1, <2>0, <2>1, <2>2, <2>b, <2>3
  <2>5. PICK m \in 0 .. Len(wire) : OnTheWire(m)
    BY <2>4 DEF Orderly
  <2>6. CASE m = 0
    <3>1. OnTheWire(0) /\ y - p \in Nat
      BY <2>3, <2>4, <2>5, <2>6
    <3>2. \E e, s \in BOOLEAN : AcceptPacked(b[1], y - p, e, s)
      <4>1. FALSE \in BOOLEAN
        OBVIOUS
      <4> QED
        BY <2>4, <4>1
    <3>3. (Running' => Orderly') /\ AllIn' /\ CompletedIsOnDisk' /\ HonestPeerFinishes'
      BY <1>6, <1>r, <2>0, <2>3, <2>4, <3>1, <3>2, RacedPacket
    <3> QED
      BY <3>3 DEF Fair, LateIsSettled
  <2>7. CASE m # 0
    <3>1. m >= 1 /\ \E i \in Main : Due(wire[1], blocks[i])
      BY <1>4, <2>0, <2>4, <2>5, <2>7
    <3>2. PICK i \in Main : Due(wire[1], blocks[i])
      BY <3>1
    <3>3. b = blocks[i]
      BY <2>b, <3>2 DEF Due
    <3>4. Credited(b, p, y, "packed")
      BY <2>0, <2>2, <2>4, <3>2, <3>3, PackedCredited
    <3>5. (Running' => Orderly') /\ CompletedIsOnDisk' /\ HonestPeerFinishes'
      BY <1>6, <2>0, <2>1, <2>2, <2>4, <2>5, <3>1, <3>2, <3>3, <3>4, MainServed
    <3>6. CASE y = b[2]
      <4>1. Credited(b, p, b[2], "packed") /\ late' \subseteq {b[1]}
        BY <2>4, <3>4, <3>6
      <4>2. LateIsSettled'
        BY <2>0, <2>2, <3>2, <3>3, <4>1, ServedSettles
      <4> QED
        BY <3>5, <4>2 DEF Fair
    <3>7. CASE y # b[2]
      <4>1. LateIsSettled'
        BY <2>4, <3>7 DEF LateIsSettled
      <4> QED
        BY <3>5, <4>1 DEF Fair
    <3> QED
      BY <3>6, <3>7
  <2> QED
    BY <2>6, <2>7
<1>t. CASE ServeTrailer /\ honest' = honest
  BY <1>1, <1>t, TrailerStep DEF ServeTrailer, reading, Running
<1>7. CASE SendAnything /\ honest' = honest
  BY <1>7 DEF SendAnything
<1>8. CASE WindowDone /\ late' = late /\ honest' = honest
  <2>1. /\ rxVars' = rxVars /\ held' = held /\ got' = got /\ mine' = mine /\ wire' = wire /\ pc = "read" /\ pc' = "ask"
    BY <1>8 DEF WindowDone
  <2>2. Orderly /\ LateIsSettled
    BY <1>1, <2>1 DEF Running
  <2>3. gaps' \subseteq gaps /\ \A i \in Main : blocks[i][1] \in DOMAIN left => blocks[i] \in held'
    BY <2>1, <2>2 DEF gaps, Orderly, MainHeld
  <2>4. Orderly'
    BY <2>1, <2>2, <2>3, OrderlyKept DEF rxVars
  <2>5. CompletedIsOnDisk'
    BY <1>8, <2>1 DEF CompletedIsOnDisk, UnitsOf, rxVars
  <2>6. LateIsSettled'
    BY <1>8, <2>1, <2>2, <2>3, StillSettled DEF rxVars
  <2> QED
    BY <2>1, <2>4, <2>5, <2>6 DEF Fair, HonestPeerFinishes
<1>9. CASE OthersCommit /\ late' = late /\ honest' = honest
  <2>1. /\ rxVars' = rxVars /\ held' = held /\ mine' = mine /\ wire' = wire /\ pc' = pc /\ got \subseteq got'
    BY <1>9 DEF OthersCommit
  <2>2. gaps' \subseteq gaps
    BY <2>1 DEF gaps
  <2>3. CompletedIsOnDisk'
    BY <1>9, <2>1 DEF CompletedIsOnDisk, UnitsOf, rxVars
  <2>4. HonestPeerFinishes'
    BY <1>9, <2>1, <2>2 DEF HonestPeerFinishes
  <2>5. ASSUME Running PROVE Orderly' /\ LateIsSettled'
    <3>1. Orderly /\ LateIsSettled
      BY <1>1, <2>5
    <3>2. \A i \in Main : blocks[i][1] \in DOMAIN left => blocks[i] \in held'
      BY <2>1, <3>1 DEF Orderly, MainHeld
    <3>3. Orderly'
      BY <2>1, <2>2, <3>1, <3>2, OrderlyKept DEF rxVars
    <3>4. LateIsSettled'
      BY <1>9, <2>1, <2>2, <3>1, StillSettled DEF rxVars
    <3> QED
      BY <3>3, <3>4
  <2>6. Running' => Running
    BY <2>1 DEF Running
  <2> QED
    BY <2>1, <2>3, <2>4, <2>5, <2>6 DEF Fair
<1>10. CASE UNCHANGED vars
  <2>1. /\ rxVars' = rxVars /\ held' = held /\ got' = got /\ mine' = mine /\ wire' = wire /\ pc' = pc /\ honest' = honest /\ late' = late
    BY <1>10 DEF vars
  <2>2. gaps' \subseteq gaps /\ gaps' = gaps
    BY <2>1 DEF gaps
  <2>3. CompletedIsOnDisk'
    BY <2>1 DEF CompletedIsOnDisk, UnitsOf, rxVars
  <2>4. HonestPeerFinishes'
    BY <2>1, <2>2 DEF HonestPeerFinishes
  <2>5. ASSUME Running PROVE Orderly' /\ LateIsSettled'
    <3>1. Orderly /\ LateIsSettled
      BY <1>1, <2>5
    <3>2. \A i \in Main : blocks[i][1] \in DOMAIN left => blocks[i] \in held'
      BY <2>1, <3>1 DEF Orderly, MainHeld
    <3>3. Orderly'
      BY <2>1, <2>2, <3>1, <3>2, OrderlyKept DEF rxVars
    <3>4. LateIsSettled'
      BY <2>1, <2>2, <3>1, StillSettled DEF rxVars
    <3> QED
      BY <3>3, <3>4
  <2>6. Running' => Running
    BY <2>1 DEF Running
  <2> QED
    BY <2>1, <2>3, <2>4, <2>5, <2>6 DEF Fair
<1> QED
  BY <1>2, <1>3, <1>5, <1>6, <1>7, <1>8, <1>9, <1>10, <1>t DEF Next

\* The invariant holds before the first request.
LEMMA InvInit == Init => ReceiverInv
<1> SUFFICES ASSUME Init PROVE ReceiverInv
  OBVIOUS
<1>1. /\ blocks = <<>> /\ left = <<>> /\ completed = <<>> /\ packed = <<>> /\ wire = <<>>
      /\ held = {} /\ got = {} /\ mine = {} /\ written = {} /\ no_more_blocks = FALSE /\ honest \in BOOLEAN /\ pc = "ask" /\ late = {}
  BY DEF Init
<1>2. DOMAIN blocks = {} /\ DOMAIN left = {} /\ DOMAIN packed = {} /\ DOMAIN completed = {} /\ Len(wire) = 0
  BY <1>1
<1>3. blocks \in Seq(Pairs) /\ completed \in Seq(Pairs) /\ wire \in Seq(Requests)
  BY <1>1
<1>4. TypeOK
  BY <1>1, <1>2, <1>3 DEF TypeOK
<1>5. Main = {}
  BY <1>2 DEF Main
<1>6. OnTheWire(0) /\ 0 \in 0 .. Len(wire)
  <2>1. \A k : k \notin 1 .. 0
    OBVIOUS
  <2> QED
    BY <1>2, <1>5, <2>1 DEF OnTheWire
<1>7. Orderly
  BY <1>1, <1>2, <1>5, <1>6 DEF Orderly, Nested, AllSealed, HeldCovered, MainHeld, MainDone
<1>8. LateIsSettled
  BY <1>1 DEF LateIsSettled
<1> QED
  BY <1>1, <1>2, <1>4, <1>7, <1>8 DEF ReceiverInv, Window, WritesStayInside, Fair, CompletedIsOnDisk, HonestPeerFinishes

\* Every step keeps the invariant.
LEMMA InvStep == ReceiverInv /\ [Next]_vars => ReceiverInv'
<1> SUFFICES ASSUME ReceiverInv, [Next]_vars PROVE ReceiverInv'
  OBVIOUS
<1>1. TypeOK' /\ Window' /\ WritesStayInside'
  BY WindowStep DEF ReceiverInv
<1>2. CASE honest
  <2>1. Fair' /\ CompletedIsOnDisk' /\ HonestPeerFinishes'
    BY <1>1, <1>2, HonestStep
  <2> QED
    BY <1>1, <2>1 DEF ReceiverInv
<1>3. CASE ~honest
  <2>1. honest' = honest
    BY DEF Next, vars
  <2> QED
    BY <1>1, <1>3, <2>1 DEF ReceiverInv, Fair, CompletedIsOnDisk, HonestPeerFinishes
<1> QED
  BY <1>2, <1>3

\* The window's accounting follows from the invariant: between two packets, a
\* window of disjoint blocks has only main blocks, and a main block is closed
\* exactly when all of it came.
LEMMA AccountingFollows == ReceiverInv => AccountingIsExact
<1> SUFFICES ASSUME ReceiverInv, honest, pc = "read", Disjoint
             PROVE  is_done <=> \A i \in DOMAIN blocks : UnitsOf(blocks[i]) \subseteq mine
  BY DEF ReceiverInv, AccountingIsExact, DoneWhenReceived
<1>0. TypeOK /\ Window /\ Orderly /\ blocks \in Seq(Pairs)
  BY DEF ReceiverInv, Fair, Running, TypeOK
<1>1. Main = DOMAIN blocks
  <2>1. \A i, j \in DOMAIN blocks : j < i => j # i
    BY <1>0
  <2> QED
    BY <2>1 DEF Main, Disjoint
<1>2. ASSUME is_done PROVE \A i \in DOMAIN blocks : UnitsOf(blocks[i]) \subseteq mine
  BY <1>0, <1>1, <1>2 DEF is_done, Orderly, MainDone
<1>3. ASSUME ~is_done PROVE \E i \in DOMAIN blocks : ~(UnitsOf(blocks[i]) \subseteq mine)
  <2>1. PICK x \in DOMAIN left : TRUE
    BY <1>3 DEF is_done
  <2>2. PICK i \in DOMAIN blocks : blocks[i][1] = x
    BY <1>0, <2>1 DEF Window, starting
  <2>3. PICK m \in 0 .. Len(wire) : OnTheWire(m)
    BY <1>0 DEF Orderly
  <2>4. i \in Main /\ blocks[i][1] \in DOMAIN left
    BY <1>1, <2>1, <2>2
  <2>5. ~(UnitsOf(blocks[i]) \subseteq mine)
    BY <1>0, <2>3, <2>4, OpenIsOwed
  <2> QED
    BY <2>5
<1> QED
  BY <1>2, <1>3

\* Whatever any peer sends, raw or compressed, in any pieces and any order, each
\* write stays inside one block of the window (accept_raw, accept_packed).
THEOREM WritesAreContained == Spec => []WritesStayInside
<1>1. ReceiverInv => WritesStayInside
  BY DEF ReceiverInv
<1> QED
  BY <1>1, InvInit, InvStep, PTL DEF Spec

\* With a peer that serves what it is asked for, a block is reported complete only
\* when all of it is on disk, and the window is done exactly when all of it came
\* (credit, take_completed, is_done), with other sessions closing gaps around it
\* and the endgame asking twice for the same bytes.
THEOREM AccountsBalance == Spec => []AccountingIsExact
<1> QED
  BY AccountingFollows, InvInit, InvStep, PTL DEF Spec

\* The session of such a peer ends only when the file has no gap left, and while
\* one is, it is cut off by no error but that of a stream's trailer which comes in
\* a piece of its own (accept's error paths, the block loop of run_peer).
THEOREM HonestPeersFinish == Spec => []HonestPeerFinishes
<1>1. ReceiverInv => HonestPeerFinishes
  BY DEF ReceiverInv
<1> QED
  BY <1>1, InvInit, InvStep, PTL DEF Spec
=============================================================================
