---------------------------- MODULE BlockReceiver ----------------------------
(***************************************************************************)
(* transfer.rs, BlockReceiver: the accounting of one window of requested   *)
(* blocks, driven by the receive loop of run_peer (multi_source.rs) for    *)
(* one session; the other sessions of the file only close gaps around it.  *)
(* A block is a pair <<start, end>> with the end exclusive.  The receiver  *)
(* keeps the bytes still expected in `left`, keyed by a block's START, and *)
(* credits a raw packet to the FIRST block of the window containing it.    *)
(*                                                                         *)
(* The peer is external: an honest one serves what it was asked for, in    *)
(* order, each block raw or as one compressed stream, cut into pieces      *)
(* anywhere, behind the last byte of output too; the other one sends any   *)
(* range and any stream.                                                   *)
(***************************************************************************)
EXTENDS BlockLattice, Sequences

CONSTANTS
    MaxRequest,    \* STANDARD_BLOCKS_REQUEST
    EndgameLimit,  \* ENDGAME_LIMIT; 0 turns racing off
    MaxBlocks      \* bound: blocks a window may come to hold under a peer that
                   \* re-sends what it has sent, and so is asked again

ASSUME ReceiverAssumption ==
    /\ MaxRequest \in Nat \ {0}
    /\ EndgameLimit \in Nat
    /\ MaxBlocks \in Nat

VARIABLES
    blocks,     \* BlockReceiver.blocks, in request order
    left,       \* BlockReceiver.left: start -> bytes still expected
    completed,  \* BlockReceiver.completed
    packed,     \* BlockReceiver.packed: start -> [written, total]
    held,       \* HeldBlocks: what the session has reserved
    got,        \* units committed by any session: their gap is closed
    mine,       \* units this session received
    written,    \* units of the last write
    no_more_blocks,
    honest,     \* whether the peer serves exactly what it is asked for
    wire,       \* what the peer still has to send: [block, pos, mode]
    late,       \* start of the block whose stream has still to end, all of its
                \* output sent: its trailer comes before the rest of `wire`
    pc          \* "ask", "read", "topup", "ended" (nothing left to ask for), or
                \* "cut" (an error)

rxVars == <<blocks, left, completed, packed>>
vars == <<rxVars, held, got, mine, written, no_more_blocks, honest, wire, late, pc>>

Pairs == {blk \in (0 .. Size) \X (0 .. Size) : blk[1] < blk[2]}
UnitsOf(blk) == blk[1] .. (blk[2] - 1)
PairOf(b) == CHOOSE blk \in Pairs : UnitsOf(blk) = b

\* The blocks of T in file order (next_blocks drains a part front to back).
Rank(T, blk) == Cardinality({b \in T : b[1] < blk[1]})
InOrder(T) == [i \in 1 .. Cardinality(T) |-> CHOOSE blk \in T : Rank(T, blk) = i - 1]

gaps == Units \ got
is_done == DOMAIN left = {}

\* take_blocks by this session, which holds `own` and nobody else anything.
take_blocks(own, max) ==
    LET fresh == Requestable(gaps, {UnitsOf(h) : h \in own}, Parts)
        race == Requestable(gaps, {}, Parts)
        endgame == fresh = {} /\ gaps # {} /\ Cardinality(gaps) <= EndgameLimit
    IN {{PairOf(b) : b \in T} : T \in Picks(IF endgame THEN race ELSE fresh, max)}

ask(own, T) ==
    /\ held' = own \cup T
    /\ wire' = IF ~honest THEN wire
               ELSE wire \o [i \in 1 .. Cardinality(T) |->
                               [block |-> InOrder(T)[i], pos |-> InOrder(T)[i][1],
                                mode |-> "new"]]

Init ==
    /\ blocks = <<>> /\ left = <<>> /\ completed = <<>> /\ packed = <<>>
    /\ held = {} /\ got = {} /\ mine = {} /\ written = {}
    /\ no_more_blocks = FALSE
    /\ honest \in BOOLEAN
    /\ wire = <<>> /\ late = {}
    /\ pc = "ask"

\* BlockReceiver::new over the blocks just requested; none left ends the session.
Ask ==
    /\ pc = "ask"
    /\ \E T \in take_blocks(held, MaxRequest) :
          \/ /\ T = {}
             /\ pc' = "ended"
             /\ UNCHANGED <<rxVars, held, no_more_blocks, wire>>
          \/ /\ T # {}
             /\ ask(held, T)
             /\ blocks' = InOrder(T)
             /\ left' = [x \in {blk[1] : blk \in T} |->
                           (CHOOSE blk \in T : blk[1] = x)[2] - x]
             /\ completed' = <<>> /\ packed' = <<>>
             /\ no_more_blocks' = FALSE
             /\ pc' = "read"
    /\ UNCHANGED <<got, mine, written>>
-----------------------------------------------------------------------------
contains_start(blk, x, y) == blk[1] <= x /\ x < blk[2]
contains(blk, x, y) == blk[1] <= x /\ y <= blk[2]

\* Positions in the window: of the blocks that contain a range, of those that
\* start at x; and the first block of some positions.
containing(x, y) == {i \in DOMAIN blocks : contains(blocks[i], x, y)}
starting(x) == {i \in DOMAIN blocks : blocks[i][1] = x}
first(is) == blocks[CHOOSE i \in is : \A j \in is : i <= j]

\* credit n bytes to the block starting at x; pk is the inflate state so far.
closes_early(x, n) == x \in DOMAIN left /\ left[x] <= n + 1
closes(x, n) == x \in DOMAIN left /\ left[x] <= n

without(f, x) == [z \in DOMAIN f \ {x} |-> f[z]]

credit(x, n, pk) ==
    /\ left' = IF closes(x, n) THEN without(left, x)
               ELSE [z \in DOMAIN left |-> IF z = x THEN left[z] - n ELSE left[z]]
    /\ packed' = IF closes(x, n) THEN without(pk, x) ELSE pk
    /\ completed' = IF closes(x, n) THEN Append(completed, first(starting(x))) ELSE completed

write(x, y) ==
    /\ written' = x .. (y - 1)
    /\ got' = got \cup (x .. (y - 1))
    /\ mine' = mine \cup (x .. (y - 1))

\* accept returned an error: the session ends and HeldBlocks is dropped.
reject ==
    /\ pc' = "cut"
    /\ held' = {}
    /\ UNCHANGED <<rxVars, got, mine, written, no_more_blocks>>

\* Ok: commit the writes, then look for completed blocks.
accepted == pc' = "topup" /\ UNCHANGED <<held, blocks, no_more_blocks>>

AcceptRaw(x, y) ==
    LET asked == containing(x, y) # {}
    IN \/ /\ y <= x \/ y > Size \/ ~asked
          /\ reject
       \/ /\ x < y /\ y <= Size /\ asked
          /\ credit(first(containing(x, y))[1], y - x, packed)
          /\ write(x, y)
          /\ accepted

\* Over-expansion, or a stream that ends short of its block.
over_or_short_or_idle(out, total, n, ended, surplus) ==
    (out = total /\ surplus) \/ (ended /\ out # total) \/ n = 0
over_or_short(out, total, n, ended, surplus) ==
    (out = total /\ surplus) \/ (ended /\ out # total)

\* One fragment of the stream for the block starting at x: it yields n bytes,
\* `ended` says the stream closed, `surplus` that input was left unconsumed.
AcceptPacked(x, n, ended, surplus) ==
    LET asked == starting(x) # {}
        blk == first(starting(x))
        pb == IF x \in DOMAIN packed THEN packed[x]
              ELSE [written |-> 0, total |-> blk[2] - x]
        out == pb.written + n
        bad == over_or_short(out, pb.total, n, ended, surplus)
        grown == [z \in DOMAIN packed \cup {x} |->
                    IF z = x THEN [pb EXCEPT !.written = out] ELSE packed[z]]
    IN \/ ~asked /\ reject
       \/ /\ asked /\ out <= pb.total      \* the buffer never grows
          /\ bad
          /\ reject
       \/ /\ asked /\ out <= pb.total /\ ~bad /\ n = 0
          /\ packed' = grown
          /\ written' = {}
          /\ UNCHANGED <<left, completed, got, mine>>
          /\ accepted
       \/ /\ asked /\ out <= pb.total /\ ~bad /\ n > 0
          /\ credit(x, n, grown)
          /\ write(x + pb.written, x + out)
          /\ accepted

\* The loop's `while !rx.is_done()`: a packet is read only while bytes are due.
reading == pc = "read" /\ ~is_done

\* The honest peer: the next piece of the block it is serving.
served(to, how) ==
    wire' = IF to = Head(wire).block[2] THEN Tail(wire)
            ELSE <<[Head(wire) EXCEPT !.pos = to, !.mode = how]>> \o Tail(wire)

ServeRaw ==
    /\ reading /\ honest /\ late = {} /\ wire # <<>>
    /\ Head(wire).mode \in {"new", "raw"}
    /\ \E y \in (Head(wire).pos + 1) .. Head(wire).block[2] :
          AcceptRaw(Head(wire).pos, y) /\ served(y, "raw")

ServePacked ==
    /\ reading /\ honest /\ late = {} /\ wire # <<>>
    /\ Head(wire).mode \in {"new", "packed"}
    /\ \E y \in Head(wire).pos .. Head(wire).block[2], ended \in BOOLEAN :
          /\ ended => y = Head(wire).block[2]
          /\ AcceptPacked(Head(wire).block[1], y - Head(wire).pos, ended, FALSE)
          /\ served(y, "packed")
          /\ late' = IF y = Head(wire).block[2] /\ ~ended THEN {Head(wire).block[1]} ELSE {}

\* What was left of that stream comes on its own.  Its block is closed and its
\* inflate state is gone, so it meets a fresh inflater, which makes nothing of it,
\* or takes it for the beginning of a stream; in a later window it meets a range
\* nobody asked for.
ServeTrailer ==
    /\ reading /\ honest
    /\ \E x \in late :
          \/ reject /\ UNCHANGED late
          \/ /\ starting(x) # {}
             /\ \E n \in 0 .. 1 : AcceptPacked(x, n, FALSE, FALSE)
             /\ late' \in {late, {}}
    /\ UNCHANGED wire

\* The other peer: anything at all.
SendAnything ==
    /\ reading /\ ~honest
    /\ Len(blocks) <= MaxBlocks
    /\ \/ \E x, y \in 0 .. (Size + 1) : AcceptRaw(x, y)
       \/ \E x, n \in 0 .. Size, ended, surplus \in BOOLEAN :
             AcceptPacked(x, n, ended, surplus)
    /\ UNCHANGED wire

\* add_blocks: a start that is still in flight is not added again.
add_blocks(T) ==
    LET news == {blk \in T : blk[1] \notin DOMAIN left}
    IN /\ blocks' = blocks \o InOrder(news)
       /\ left' = [x \in DOMAIN left \cup {blk[1] : blk \in news} |->
                     IF x \in DOMAIN left THEN left[x]
                     ELSE (CHOOSE blk \in news : blk[1] = x)[2] - x]

\* take_completed, release, and the continuous top-up.
TopUp ==
    /\ pc = "topup"
    /\ completed' = <<>>
    /\ pc' = "read"
    /\ UNCHANGED <<packed, got, mine, written>>
    /\ LET done == {completed[i] : i \in DOMAIN completed}
           kept == held \ done
       IN \/ /\ done = {} \/ no_more_blocks
             /\ held' = kept
             /\ UNCHANGED <<blocks, left, no_more_blocks, wire>>
          \/ /\ done # {} /\ ~no_more_blocks
             /\ \E T \in take_blocks(kept, Len(completed)) :
                   /\ no_more_blocks' = (T = {})
                   /\ ask(kept, T)
                   /\ add_blocks(T)

\* rx.is_done(): back to the top of the block loop.
WindowDone ==
    /\ pc = "read" /\ is_done
    /\ pc' = "ask"
    /\ UNCHANGED <<rxVars, held, got, mine, written, no_more_blocks, wire>>

\* Another session closes a gap: one nobody holds, or a raced one.
OthersCommit ==
    /\ \E u \in gaps :
          /\ \/ \A h \in held : u \notin UnitsOf(h)
             \/ Cardinality(gaps) <= EndgameLimit
          /\ got' = got \cup {u}
    /\ UNCHANGED <<rxVars, held, mine, written, no_more_blocks, wire, pc>>

Next ==
    /\ \/ ServePacked \/ ServeTrailer
       \/ /\ Ask \/ ServeRaw \/ SendAnything \/ TopUp \/ WindowDone \/ OthersCommit
          /\ UNCHANGED late
    /\ UNCHANGED honest

Spec == Init /\ [][Next]_vars
-----------------------------------------------------------------------------
Starts == 0 .. (Size - 1)
Streams == [written : 0 .. Size, total : 1 .. Size]
Requests == [block : Pairs, pos : 0 .. Size, mode : {"new", "raw", "packed"}]

TypeOK ==
    /\ blocks \in Seq(Pairs) /\ completed \in Seq(Pairs)
    /\ DOMAIN left \subseteq Starts /\ \A x \in DOMAIN left : left[x] \in 1 .. Size
    /\ DOMAIN packed \subseteq Starts /\ \A x \in DOMAIN packed : packed[x] \in Streams
    /\ held \subseteq Pairs
    /\ got \subseteq Units /\ mine \subseteq got
    /\ written \subseteq Units
    /\ no_more_blocks \in BOOLEAN /\ honest \in BOOLEAN
    /\ wire \in Seq(Requests) /\ late \subseteq Starts
    /\ pc \in {"ask", "read", "topup", "ended", "cut"}

\* Whatever a peer sends, in whatever pieces, a write stays inside ONE block of
\* the window: no stream runs past its block's end, and no range reaches into
\* bytes nobody asked for (accept_raw, accept_packed).
WritesStayInside ==
    pc = "topup" => written = {} \/ \E i \in DOMAIN blocks : written \subseteq UnitsOf(blocks[i])

\* A block is reported complete, and so released to other sessions, only when
\* its every byte is on disk (credit, take_completed): an honest peer never
\* makes the driver give up a block early.
CompletedIsOnDisk ==
    honest => \A i \in DOMAIN completed : UnitsOf(completed[i]) \subseteq mine

\* is_done is "true once every requested byte has been received", and not
\* before: between two packets a window of disjoint blocks is done exactly when
\* it all came, in whatever mix of raw pieces and compressed streams.
Disjoint == \A i, j \in DOMAIN blocks :
               i # j => UnitsOf(blocks[i]) \cap UnitsOf(blocks[j]) = {}

DoneWhenReceived ==
    honest /\ pc = "read" /\ Disjoint =>
       (is_done <=> \A i \in DOMAIN blocks : UnitsOf(blocks[i]) \subseteq mine)

\* The window's accounting agrees with the bytes that came: per block when it is
\* reported complete, and for the window as a whole (credit, is_done).
AccountingIsExact == TypeOK /\ CompletedIsOnDisk /\ DoneWhenReceived

\* The session of a peer that serves what it was asked for ends only when no gap
\* is left for it, and while one is, only one thing gets the peer cut off by an
\* error: the end of a stream that came in a piece of its own, behind the last
\* byte of output, after credit dropped the inflate state (accept_packed).
HonestPeerFinishes ==
    honest => /\ pc = "ended" => gaps = {}
              /\ pc = "cut" => gaps = {} \/ late # {}
=============================================================================
