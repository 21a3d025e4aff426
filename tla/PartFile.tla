------------------------------ MODULE PartFile ------------------------------
(***************************************************************************)
(* part_file.rs: the gap list of a download and the block allocator.       *)
(* A gap is a record [start, end) with the end EXCLUSIVE; the list is kept *)
(* sorted and merged by normalize.  The list is shown to implement the set *)
(* of missing units of module GapSet, and next_blocks to meet the contract *)
(* (BlockLattice!IsPick) that module Download takes for granted.           *)
(* State and specification have names of their own, because Download keeps *)
(* the same gap list as a set and Download_proofs extends both modules.    *)
(***************************************************************************)
EXTENDS BlockLattice, Sequences

\* A gap as a met may record it, and a range as another source may hold it.
AnyGap == [start : Nat, end : Nat]
AnyRange == {x \in Nat \X Nat : x[1] < x[2]}

CONSTANTS
    MetGaps,        \* gap lists a part.met on disk may carry, tampered or not
    Reservations,   \* sets of ranges <<start, end>> that other sources may hold
    Limits,         \* how many blocks a source may be asked for
    Rarities        \* how many sources may hold a part

ASSUME PartFileAssumption ==
    /\ MetGaps \subseteq Seq(AnyGap)
    /\ Reservations \subseteq SUBSET AnyRange
    /\ Limits \subseteq Nat
    /\ Rarities \subseteq Nat

VARIABLES
    list,   \* PartFile.gaps
    marks   \* PartFile.corrupted

listVars == <<list, marks>>

Gap(s, e) == [start |-> s, end |-> e]
Touches(g, s, e) == g.start < e /\ g.end > s

min(x, y) == IF x < y THEN x ELSE y
max(x, y) == IF x > y THEN x ELSE y

data_part_count == (Size + PartSize - 1) \div PartSize
part_start(p) == p * PartSize
part_size(p) == min(Size - part_start(p), PartSize)
part_end(p) == part_start(p) + part_size(p)

\* normalize: clamp to the size, drop the empty, sort by start, merge.
clamp(g) == LET e == min(g.end, Size) IN Gap(min(g.start, e), e)

\* The members of S one by one, by the strict order `before` (a set of pairs).
InOrder(S, before) ==
    [n \in 1 .. Cardinality(S) |->
        CHOOSE x \in S : Cardinality({y \in S : <<y, x>> \in before}) = n - 1]

\* The gaps that are not empty, by start; the sort is stable.
sorted(gs) ==
    LET kept == {i \in DOMAIN gs : gs[i].start < gs[i].end}
        sooner == {x \in kept \X kept :
                     \/ gs[x[1]].start < gs[x[2]].start
                     \/ gs[x[1]].start = gs[x[2]].start /\ x[1] < x[2]}
        order == InOrder(kept, sooner)
    IN [n \in DOMAIN order |-> gs[order[n]]]

merge_step(out, g) ==
    IF out # <<>> /\ g.start <= out[Len(out)].end
    THEN [out EXCEPT ![Len(out)].end = max(@, g.end)]
    ELSE Append(out, g)

merge(gs) ==
    LET merged[n \in 0 .. Len(gs)] ==
            IF n = 0 THEN <<>> ELSE merge_step(merged[n - 1], gs[n])
    IN merged[Len(gs)]

normalize(gs) == merge(sorted([i \in DOMAIN gs |-> clamp(gs[i])]))

\* One gap with [s, e) cut out of it: untouched, or its left and right rest.
cut_long(g, s, e) ==
    IF ~Touches(g, s, e) THEN <<g>>
    ELSE (IF g.start < s THEN <<Gap(g.start, s)>> ELSE <<>>)
         \o (IF g.end > e + 1 THEN <<Gap(e + 1, g.end)>> ELSE <<>>)
cut(g, s, e) ==
    IF ~Touches(g, s, e) THEN <<g>>
    ELSE (IF g.start < s THEN <<Gap(g.start, s)>> ELSE <<>>)
         \o (IF g.end > e THEN <<Gap(e, g.end)>> ELSE <<>>)

fill_gap(gs, s, e) ==
    LET rest[n \in 0 .. Len(gs)] ==
            IF n = 0 THEN <<>> ELSE rest[n - 1] \o cut(gs[n], s, e)
    IN IF s >= e THEN gs ELSE normalize(rest[Len(gs)])

reopen_range(gs, s, e) ==
    IF s >= e \/ e > Size THEN gs ELSE normalize(Append(gs, Gap(s, e)))

whole_file == <<Gap(0, Size)>>

FillGap(s, e) == list' = fill_gap(list, s, e) /\ UNCHANGED marks

ReopenRange(s, e) == list' = reopen_range(list, s, e) /\ UNCHANGED marks

\* (Marking a part without re-opening it.)
MarkCorrupt_keeps(p) == marks' = marks \cup {p} /\ UNCHANGED list

MarkCorrupt(p) ==
    /\ list' = normalize(Append(list, Gap(part_start(p), part_end(p))))
    /\ marks' = marks \cup {p}

ClearCorrupt(p) == marks' = marks \ {p} /\ UNCHANGED list

ResetList == list' = whole_file /\ marks' = {}

\* PartFile::new, or PartFile::resume from whatever list the met holds.
ListInit ==
    \/ list = whole_file /\ marks = {}
    \/ \E gs \in MetGaps, c \in SUBSET Parts : list = normalize(gs) /\ marks = c

ListNext ==
    \/ \E s, e \in 0 .. (Size + 1) : FillGap(s, e) \/ ReopenRange(s, e)
    \/ \E p \in 0 .. (data_part_count - 1) : MarkCorrupt(p) \/ ClearCorrupt(p)
    \/ ResetList

ListSpec == ListInit /\ [][ListNext]_listVars
-----------------------------------------------------------------------------
missing ==
    LET total[n \in 0 .. Len(list)] ==
            IF n = 0 THEN 0 ELSE total[n - 1] + (list[n].end - list[n].start)
    IN total[Len(list)]

contiguous_prefix == IF list = <<>> THEN Size ELSE Head(list).start

is_part_complete_list(p) ==
    \A i \in DOMAIN list : ~Touches(list[i], part_start(p), part_end(p))

part_missing(p) ==
    LET inside(g) == IF Touches(g, part_start(p), part_end(p))
                     THEN min(g.end, part_end(p)) - max(g.start, part_start(p)) ELSE 0
        total[n \in 0 .. Len(list)] == IF n = 0 THEN 0 ELSE total[n - 1] + inside(list[n])
    IN total[Len(list)]

wanted_parts_list == {p \in 0 .. (data_part_count - 1) : ~is_part_complete_list(p)}

\* Rarest first, or forward for a preview; the sort is stable, so that the order of
\* wanted_parts (most complete first, then by index) breaks ties.
part_order(rarity, preview) ==
    LET wanted == wanted_parts_list
        key(p) == IF preview THEN p ELSE rarity[p]
        sooner == {x \in wanted \X wanted :
                     \/ key(x[1]) < key(x[2])
                     \/ /\ key(x[1]) = key(x[2])
                        /\ \/ part_missing(x[1]) < part_missing(x[2])
                           \/ part_missing(x[1]) = part_missing(x[2]) /\ x[1] < x[2]}
    IN InOrder(wanted, sooner)

NoBlock == <<0, 0>>

\* The first gap that still reaches past the cursor, clamped to its cell and part.
block_at(p, cursor) ==
    LET hits == {i \in DOMAIN list : Touches(list[i], cursor, part_end(p))}
        g == list[CHOOSE i \in hits : \A j \in hits : i <= j]
        start == max(cursor, g.start)
        cell_end == part_start(p)
                      + BlockSize * ((start - part_start(p)) \div BlockSize + 1)
        end == min(min(g.end, cell_end), part_end(p))
    IN IF cursor >= part_end(p) \/ hits = {} \/ start >= end THEN NoBlock ELSE <<start, end>>

\* Whether a block is spoken for.
spoken_for(blk, reserved) == blk # NoBlock /\ \E r \in reserved : r[1] < blk[2] /\ r[2] > blk[1]

\* The cursor passes the blocks that are spoken for, one a round; each moves it on,
\* so that it stands still after as many rounds as the part has bytes.
next_block_in_part_from(p, first, reserved) ==
    LET cursor[n \in 0 .. PartSize] ==
            IF n = 0 THEN first
            ELSE LET at == cursor[n - 1]
                     blk == block_at(p, at)
                 IN IF spoken_for(blk, reserved) THEN blk[2] ELSE at
    IN block_at(p, cursor[PartSize])

next_block_in_part_late(p, reserved) ==
    next_block_in_part_from(p, part_start(p) + 1, reserved)
next_block_in_part(p, reserved) == next_block_in_part_from(p, part_start(p), reserved)

\* The blocks of one part on top of `got`, until there are `most` or no more; each
\* round adds one.
drain_part(p, got, reserved, most) ==
    LET out[n \in 0 .. most] ==
            IF n = 0 THEN got
            ELSE LET before == out[n - 1]
                     blk == next_block_in_part(p, reserved \cup before)
                 IN IF Cardinality(before) >= most \/ blk = NoBlock THEN before
                    ELSE before \cup {blk}
    IN out[most]

\* The parts the source holds are drained in that order.
next_blocks(available, reserved, most, rarity, endgame, preview) ==
    LET parts == part_order(rarity, preview)
        out[n \in 0 .. Cardinality(wanted_parts_list)] ==
            IF n = 0 THEN {}
            ELSE LET p == parts[n]
                 IN IF p \notin available THEN out[n - 1]
                    ELSE drain_part(p, out[n - 1], IF endgame THEN {} ELSE reserved, most)
    IN out[Cardinality(wanted_parts_list)]
-----------------------------------------------------------------------------
ListTypeOK ==
    /\ list \in Seq([start : 0 .. Size, end : 0 .. Size])
    /\ marks \subseteq Parts

\* The units a gap list covers.
UnitsOf(gs) == UNION {gs[i].start .. (gs[i].end - 1) : i \in DOMAIN gs}

\* After every operation, and after resuming from a damaged met, the list is
\* tidy: no empty gap, none past the end, sorted, no two that touch.  missing()
\* never exceeds the size (the FFI subtracts it) and the preview prefix is
\* exactly the leading run of received bytes.
ListIsTidy ==
    /\ \A i \in DOMAIN list : list[i].start < list[i].end /\ list[i].end <= Size
    /\ \A i \in 1 .. (Len(list) - 1) : list[i].end < list[i + 1].start
    /\ missing = Cardinality(UnitsOf(list)) /\ missing <= Size
    /\ \A u \in Units : u < contiguous_prefix => u \notin UnitsOf(list)
    /\ contiguous_prefix = Size \/ contiguous_prefix \in UnitsOf(list)

\* The list implements the set of missing units.
Promise == INSTANCE GapSet WITH missing <- UnitsOf(list), bad <- marks
ImplementsGapSet == Promise!Spec

\* Each operation changes exactly the bytes it was called for, whatever the list
\* looks like: a fill takes [s, e) out, split and overlapped gaps included, and a
\* re-opening puts [s, e) back unless it runs past the end (fill_gap,
\* reopen_range).  The refinement leaves the range open; this pins it down.
OperationsAreExact ==
    \A s, e \in 0 .. (Size + 1) :
       LET range == Promise!Range(s, e)
       IN /\ UnitsOf(fill_gap(list, s, e)) = UnitsOf(list) \ range
          /\ UnitsOf(reopen_range(list, s, e)) =
                IF e <= Size THEN UnitsOf(list) \cup range ELSE UnitsOf(list)

\* The gap list is well formed and exact at every moment, whatever the met held
\* and whatever was filled, re-opened or reset (normalize, fill_gap, reopen_range).
ListIsSound == ListTypeOK /\ ListIsTidy /\ OperationsAreExact

AsUnits(blks) == {blk[1] .. (blk[2] - 1) : blk \in blks}

\* next_blocks meets its contract for every gap list, reservation, holding and
\* part order: nothing that is reserved, nothing that is not missing, nothing
\* the source lacks, no block across a cell or part boundary, and never fewer
\* blocks than there are to give.
AllocatorMeetsContract ==
    \A available \in SUBSET Parts, reserved \in Reservations, most \in Limits,
       rarity \in [Parts -> Rarities], endgame, preview \in BOOLEAN :
       LET free == Requestable(UnitsOf(list),
                               IF endgame THEN {} ELSE AsUnits(reserved), available)
       IN IsPick(AsUnits(next_blocks(available, reserved, most, rarity,
                                     endgame, preview)), free, most)
=============================================================================
