---------------------------- MODULE BlockLattice ----------------------------
(***************************************************************************)
(* The geometry every download shares: a file of Size units is cut into    *)
(* parts of PartSize units (PARTSIZE, the unit of MD4 verification), and    *)
(* each part into cells of BlockSize units (EMBLOCKSIZE, the unit of        *)
(* request).  A unit stands for the bytes one data packet carries.          *)
(*                                                                         *)
(* A gap list is abstracted to the SET of units still missing; module      *)
(* PartFile models the list itself and shows that the two agree.  A block  *)
(* (start, end) is the set of units start .. end-1.                        *)
(***************************************************************************)
EXTENDS Integers, FiniteSets

CONSTANTS
    Size,       \* length of the file
    PartSize,   \* PARTSIZE
    BlockSize   \* EMBLOCKSIZE

ASSUME GeometryAssumption ==
    /\ Size \in Nat \ {0}
    /\ PartSize \in Nat \ {0}
    /\ BlockSize \in Nat \ {0}

Units == 0 .. (Size - 1)

PartOf(u) == u \div PartSize

\* data_part_count: the parts that hold at least one byte.
Parts == {PartOf(u) : u \in Units}

PartUnits(p) == {u \in Units : PartOf(u) = p}

\* The lattice cell of a unit: cells restart at every part boundary, so the
\* last cell of a part may be short.
CellOf(u) == <<PartOf(u), (u % PartSize) \div BlockSize>>

Cells == {CellOf(u) : u \in Units}

\* Whether every unit of part p has arrived.
is_part_complete(p, gaps) == PartUnits(p) \cap gaps = {}

\* Parts with something still to fetch.
wanted_parts(gaps) == {p \in Parts : ~is_part_complete(p, gaps)}

(***************************************************************************)
(* The blocks next_block_in_part can return while nothing is reserved: the *)
(* maximal runs of missing units inside one cell.  A block is bounded by   *)
(* the gap AND by the cell, so it can be shorter than BlockSize.           *)
(***************************************************************************)
IsOpenBlock(a, b, gaps) ==
    /\ a <= b
    /\ \A u \in a .. b : u \in gaps /\ CellOf(u) = CellOf(a)
    /\ ~ (a - 1 \in gaps /\ CellOf(a - 1) = CellOf(a))
    /\ ~ (b + 1 \in gaps /\ CellOf(b + 1) = CellOf(a))

OpenBlocks(gaps) ==
    {ab[1] .. ab[2] : ab \in {xy \in gaps \X gaps : IsOpenBlock(xy[1], xy[2], gaps)}}

Overlaps(b, taken) == \E r \in taken : r \cap b # {}

\* The part a block lies in (a block never straddles two parts).
BlockPart(b) == CHOOSE p \in Parts : \E u \in b : PartOf(u) = p

Precedes(c, b) == \A u \in c, v \in b : u < v

\* What a source holding `parts` could still be asked for.
Requestable(gaps, taken, parts) ==
    {b \in OpenBlocks(gaps) : BlockPart(b) \in parts /\ ~Overlaps(b, taken)}

(***************************************************************************)
(* The contract of PartFile::next_blocks: at most max blocks, as many as   *)
(* there are; parts are drained one after the other in SOME order (rarity, *)
(* completeness or the preview order decide which), each from its first    *)
(* block on.  Module PartFile checks the algorithm against this contract;  *)
(* module Download takes any pick the contract allows.                     *)
(***************************************************************************)
IsPick(T, free, max) ==
    /\ T \subseteq free
    /\ Cardinality(T) <= max
    /\ Cardinality(T) < max => T = free
    /\ \A b \in T, c \in free :
          (BlockPart(b) = BlockPart(c) /\ Precedes(c, b)) => c \in T
    /\ \A b, c \in free \ T :
          ((\E d \in T : BlockPart(d) = BlockPart(b))
            /\ (\E d \in T : BlockPart(d) = BlockPart(c)))
          => BlockPart(b) = BlockPart(c)

Picks(free, max) == {T \in SUBSET free : IsPick(T, free, max)}
=============================================================================
