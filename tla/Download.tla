------------------------------ MODULE Download ------------------------------
(***************************************************************************)
(* One file pulled from many peers: multi_source.rs (Download, HeldBlocks, *)
(* run_peer), the watchdog of fetch.rs (fetch_one) and the finalizing half *)
(* of engine.rs (finish_download, finalize_completed, cancel_download).    *)
(*                                                                         *)
(* Every peer session is a tokio future that can be DROPPED at any await;  *)
(* the write of a block runs on the blocking pool, outside the download    *)
(* lock, and survives the future that started it.  The steps below are the *)
(* stretches of code between two awaits (or between two locks).            *)
(***************************************************************************)
EXTENDS BlockLattice

CONSTANTS
    Sessions,      \* the peers; at most one session per peer at a time
    Honest,        \* the peers whose bytes and hashsets are right
    Holds,         \* Holds[s]: the parts peer s says it has (OP_FILESTATUS)
    EndgameLimit,  \* ENDGAME_LIMIT
    MaxRequest,    \* STANDARD_BLOCKS_REQUEST
    MetSaveBytes,  \* MET_SAVE_BYTES
    MaxEvents      \* bound: disturbances (drops, revocations, kills, commands)

ASSUME DownloadAssumption ==
    /\ Honest \subseteq Sessions
    /\ Holds \in [Sessions -> SUBSET Parts]
    /\ EndgameLimit \in Nat
    /\ MaxRequest \in Nat \ {0}
    /\ MetSaveBytes \in Nat \ {0}
    /\ MaxEvents \in Nat

\* The two tasks that finalize: the tail of the fetch task, and the heartbeat.
Finalizers == {"tail", "beat"}

Blocks == SUBSET Units
Bytes == {"none", "good", "bad"}
Writes == [unit : Units, val : {"good", "bad"}]
NoWrite == [unit |-> -1, val |-> "none"]
Hashsets == {"none", "true", "spoofed"}
Mets == [gaps : SUBSET Units, corrupted : SUBSET Parts,
         part_hashes : Hashsets, paused : BOOLEAN]
NoMet == [gaps |-> {-1}, corrupted |-> {}, part_hashes |-> "none", paused |-> FALSE]

VARIABLES
    \* -- Download.inner.store: the gap list, and what is on disk
    gaps,        \* units still missing (PartFile.gaps)
    corrupted,   \* PartFile.corrupted
    part_hashes, \* the hashset: "none", "true", or "spoofed" by a peer
    since,       \* Inner.since_met_save
    met,         \* the live NNN.part.met, or NoMet
    data,        \* the bytes of the .part (or of the moved file), per unit
    file,        \* "part", "moved" (finish_in_place) or "deleted"
    \* -- the rest of Download
    reserved,    \* blocks some peer has asked for
    block_sources, \* who fed each cell
    banned,
    paused, cancelled,
    finalizing,
    \* -- the sessions
    pc,          \* where each run_peer is
    held,        \* HeldBlocks.blocks
    rx,          \* BlockReceiver.blocks: everything asked for in this window
    due,         \* units of the held blocks not yet delivered
    draining,    \* run_peer's no_more_blocks
    cur,         \* the write its commit is waiting for
    orphans,     \* writes still running whose session was dropped
    \* -- the engine
    registered,  \* whether the download is in Engine.downloads
    cancel_pc,   \* progress of cancel_download: "idle", "flag", "discard"
    flush,       \* persist_downloads holds this download in its snapshot
    fin,         \* progress of finish_download, per finalizing task
    fin_bad,     \* the parts localize_corruption found bad, per task
    shared,      \* pushed to the shared library
    events       \* disturbances so far, against MaxEvents

storeVars == <<gaps, corrupted, since, met>>
flagVars == <<paused, cancelled, finalizing>>
sessVars == <<pc, held, rx, due, draining, cur>>
finVars == <<fin, fin_bad, shared>>
engineVars == <<registered, cancel_pc, flush>>
blameVars == <<block_sources, banned>>
vars == <<storeVars, part_hashes, data, file, reserved, blameVars, flagVars,
          sessVars, orphans, engineVars, finVars, events>>

PCs == {"idle", "hashset", "slot", "recv", "write", "close", "topup"}
FinPCs == {"idle", "verify", "bad", "blame", "reset", "ok", "move", "moved"}

TypeOK ==
    /\ gaps \subseteq Units
    /\ corrupted \subseteq Parts
    /\ part_hashes \in Hashsets
    /\ since \in 0 .. (MetSaveBytes - 1)
    /\ met \in Mets \cup {NoMet}
    /\ data \in [Units -> Bytes]
    /\ file \in {"part", "moved", "deleted"}
    /\ reserved \subseteq Blocks
    /\ block_sources \in [Cells -> SUBSET Sessions]
    /\ banned \subseteq Sessions
    /\ paused \in BOOLEAN /\ cancelled \in BOOLEAN /\ finalizing \in BOOLEAN
    /\ pc \in [Sessions -> PCs]
    /\ held \in [Sessions -> SUBSET Blocks]
    /\ rx \in [Sessions -> SUBSET Blocks]
    /\ due \in [Sessions -> SUBSET Units]
    /\ draining \in [Sessions -> BOOLEAN]
    /\ cur \in [Sessions -> Writes \cup {NoWrite}]
    /\ orphans \subseteq Writes
    /\ registered \in BOOLEAN
    /\ cancel_pc \in {"idle", "flag", "discard"}
    /\ flush \in BOOLEAN
    /\ fin \in [Finalizers -> FinPCs]
    /\ fin_bad \in [Finalizers -> SUBSET Parts]
    /\ shared \in BOOLEAN
    /\ events \in 0 .. MaxEvents

\* PartStore::create behind Download::new: one gap over the whole file, saved.
Init ==
    /\ gaps = Units /\ corrupted = {} /\ since = 0
    /\ part_hashes = "none"
    /\ met = [gaps |-> Units, corrupted |-> {}, part_hashes |-> "none",
              paused |-> FALSE]
    /\ data = [u \in Units |-> "none"]
    /\ file = "part"
    /\ reserved = {}
    /\ block_sources = [c \in Cells |-> {}] /\ banned = {}
    /\ paused = FALSE /\ cancelled = FALSE /\ finalizing = FALSE
    /\ pc = [s \in Sessions |-> "idle"]
    /\ held = [s \in Sessions |-> {}]
    /\ rx = [s \in Sessions |-> {}]
    /\ due = [s \in Sessions |-> {}]
    /\ draining = [s \in Sessions |-> FALSE]
    /\ cur = [s \in Sessions |-> NoWrite]
    /\ orphans = {}
    /\ registered = TRUE /\ cancel_pc = "idle" /\ flush = FALSE
    /\ fin = [f \in Finalizers |-> "idle"]
    /\ fin_bad = [f \in Finalizers |-> {}]
    /\ shared = FALSE
    /\ events = 0
-----------------------------------------------------------------------------
is_complete == gaps = {}

\* What interferes with a transfer comes from a budget, so that every order of
\* up to MaxEvents disturbances is explored and no more.
disturb == events < MaxEvents /\ events' = events + 1

\* What peer s sends is right, or s is not honest and it costs an event.
sent_by(s, right) ==
    \/ right /\ UNCHANGED events
    \/ ~right /\ s \notin Honest /\ disturb

\* A task that took its Arc while the download was registered keeps it while
\* cancel_download runs.
in_reach == registered \/ cancel_pc # "idle"

\* needs_hashset: the same condition verify_part uses to pick the part hash.
needs_hashset ==
    (Cardinality(Parts) > 1 \/ Size = PartSize) /\ part_hashes = "none"

\* save_met as one step (module PartStore opens it up): the live met takes the
\* gap list g, the corrupted parts c and the paused flag p of its caller.
save_met(g, c, p) ==
    met' = [gaps |-> g, corrupted |-> c, part_hashes |-> part_hashes, paused |-> p]

\* release: give blocks back, by VALUE, whoever else asked for them too.
release_nothing(bs) == UNCHANGED reserved
release(bs) == reserved' = reserved \ bs

\* The tail of run_peer on every exit: HeldBlocks::drop releases the blocks,
\* and a write still on the blocking pool runs on without an owner.
drop_session(s) ==
    /\ release(held[s])
    /\ held' = [held EXCEPT ![s] = {}]
    /\ rx' = [rx EXCEPT ![s] = {}]
    /\ due' = [due EXCEPT ![s] = {}]
    /\ draining' = [draining EXCEPT ![s] = FALSE]
    /\ cur' = [cur EXCEPT ![s] = NoWrite]
    /\ pc' = [pc EXCEPT ![s] = "idle"]
    /\ orphans' = IF pc[s] = "write" THEN orphans \cup {cur[s]} ELSE orphans

\* take_blocks: nothing while cancelled or paused; otherwise a pick among the
\* unreserved blocks, or, near the end and with none left, among all of them.
take_blocks(s, max) ==
    LET fresh == Requestable(gaps, reserved, Holds[s])
        race == Requestable(gaps, {}, Holds[s])
        endgame == fresh = {} /\ gaps # {} /\ Cardinality(gaps) <= EndgameLimit
    IN IF cancelled \/ paused THEN {{}}
       ELSE Picks(IF endgame THEN race ELSE fresh, max)

\* The held set, the reservations and the receiver's window grow together.
extend_held(s, T) ==
    /\ reserved' = reserved \cup T
    /\ held' = [held EXCEPT ![s] = @ \cup T]
    /\ due' = [due EXCEPT ![s] = @ \cup UNION T]
-----------------------------------------------------------------------------
(* The session: fetch_one and run_peer. *)

\* A dial (or an inbound source) that got as far as OP_FILESTATUS.  A peer
\* that holds no part still wanted is left at once (has_needed_part).
FetchOne(s) ==
    /\ pc[s] = "idle"
    /\ in_reach
    /\ ~cancelled /\ ~paused /\ ~is_complete
    /\ s \notin banned
    /\ Holds[s] \cap wanted_parts(gaps) # {}
    /\ pc' = [pc EXCEPT ![s] = IF needs_hashset THEN "hashset" ELSE "slot"]
    /\ UNCHANGED <<storeVars, part_hashes, data, file, reserved, blameVars,
                   flagVars, held, rx, due, draining, cur, orphans, engineVars,
                   finVars, events>>

\* OP_HASHSETANSWER is stored as it came: nothing ties it to the file hash.
SetHashset(s) ==
    /\ pc[s] = "hashset"
    /\ \E h \in {"true", "spoofed"} :
          /\ sent_by(s, h = "true")
          /\ part_hashes' = h
    /\ pc' = [pc EXCEPT ![s] = "slot"]
    /\ UNCHANGED <<storeVars, data, file, reserved, blameVars, flagVars, held, rx,
                   due, draining, cur, orphans, engineVars, finVars>>

\* await_slot returned, or a window is done: the top of the block loop.
\* Reserve a window, or return Ok(delivered).
TakeBlocks(s) ==
    /\ pc[s] = "slot"
    /\ \E T \in take_blocks(s, MaxRequest) :
          \/ /\ T = {}
             /\ drop_session(s)
          \/ /\ T # {}
             /\ extend_held(s, T)
             /\ rx' = [rx EXCEPT ![s] = T]
             /\ pc' = [pc EXCEPT ![s] = "recv"]
             /\ draining' = [draining EXCEPT ![s] = FALSE]
             /\ UNCHANGED <<cur, orphans>>
    /\ UNCHANGED <<storeVars, part_hashes, data, file, blameVars, flagVars,
                   engineVars, finVars, events>>

\* (A commit that does not wait for its write.)
CommitDetach_nowait(s) ==
    /\ pc[s] = "recv"
    /\ \E u \in due[s] :
          /\ cur' = [cur EXCEPT ![s] = [unit |-> u, val |-> "good"]]
          /\ due' = [due EXCEPT ![s] = @ \ {u}]
          /\ orphans' = orphans \cup {[unit |-> u, val |-> "good"]}
    /\ pc' = [pc EXCEPT ![s] = "close"]
    /\ UNCHANGED <<storeVars, part_hashes, data, file, reserved, blameVars,
                   flagVars, held, rx, draining, engineVars, finVars, events>>

\* A data packet, and commit up to the spawn_blocking: the contributor is
\* noted BEFORE the bytes are written.
CommitDetach(s) ==
    /\ pc[s] = "recv"
    /\ \E u \in due[s], v \in {"good", "bad"} :
          /\ sent_by(s, v = "good")
          /\ cur' = [cur EXCEPT ![s] = [unit |-> u, val |-> v]]
          /\ due' = [due EXCEPT ![s] = @ \ {u}]
          /\ block_sources' = [block_sources EXCEPT ![CellOf(u)] = @ \cup {s}]
    /\ pc' = [pc EXCEPT ![s] = "write"]
    /\ UNCHANGED <<storeVars, part_hashes, data, file, reserved, banned,
                   flagVars, held, rx, draining, orphans, engineVars, finVars>>

\* DetachedWrite::write_and_sync, on behalf of a waiting session ...
WriteAndSync(s) ==
    /\ pc[s] = "write"
    /\ data' = [data EXCEPT ![cur[s].unit] = cur[s].val]
    /\ pc' = [pc EXCEPT ![s] = "close"]
    /\ UNCHANGED <<storeVars, part_hashes, file, reserved, blameVars, flagVars,
                   held, rx, due, draining, cur, orphans, engineVars, finVars,
                   events>>

\* ... or of one that is gone: the dup'd descriptor follows the inode through
\* finish_in_place's rename.
WriteOrphan ==
    \E w \in orphans :
       /\ data' = [data EXCEPT ![w.unit] = w.val]
       /\ orphans' = orphans \ {w}
       /\ UNCHANGED <<storeVars, part_hashes, file, reserved, blameVars,
                      flagVars, sessVars, engineVars, finVars, events>>

\* Blocks of s whose every unit has been delivered.  BlockReceiver credits a
\* unit to the FIRST block of the window that contains it, so a block that
\* overlaps another block of its window may or may not be credited in full
\* (module BlockReceiver models the accounting); any other one is.
delivered(s) == {b \in held[s] \cap rx[s] : b \cap due[s] = {}}
credited(s) == {b \in delivered(s) : ~Overlaps(b, rx[s] \ {b})}

\* The byte arm of met_save_due; the clock arm may come true at any moment.
met_save_due_late(n) == n > MetSaveBytes
met_save_due(n) == n >= MetSaveBytes

\* The end of commit: retake the lock, close the gap, save the met when due
\* (by bytes, or by the 60 s clock at any moment); then release what finished.
CommitClose(s) ==
    /\ pc[s] = "close"
    /\ gaps' = gaps \ {cur[s].unit}
    /\ \/ /\ since' = 0
          /\ save_met(gaps', corrupted, paused)
       \/ /\ ~met_save_due(since + 1)
          /\ since' = since + 1
          /\ UNCHANGED met
    /\ \E done \in SUBSET delivered(s) :            \* take_completed
          /\ credited(s) \subseteq done
          /\ release(done)
          /\ held' = [held EXCEPT ![s] = @ \ done]
          /\ pc' = [pc EXCEPT ![s] = IF done = {} \/ draining[s]
                                     THEN "recv" ELSE "topup"]
    /\ cur' = [cur EXCEPT ![s] = NoWrite]
    /\ UNCHANGED <<corrupted, part_hashes, data, file, blameVars, flagVars,
                   rx, due, draining, orphans, engineVars, finVars, events>>

\* Continuous top-up: replace the finished block, or start draining.
TopUp(s) ==
    /\ pc[s] = "topup"
    /\ \E T \in take_blocks(s, 1) :
          /\ extend_held(s, T)
          /\ rx' = [rx EXCEPT ![s] = @ \cup T]
          /\ draining' = [draining EXCEPT ![s] = (T = {})]
    /\ pc' = [pc EXCEPT ![s] = "recv"]
    /\ UNCHANGED <<storeVars, part_hashes, data, file, blameVars, flagVars, cur,
                   orphans, engineVars, finVars, events>>

\* rx.is_done(): nothing awaited is left, back to the top of the block loop.
WindowDone(s) ==
    /\ pc[s] = "recv"
    /\ held[s] \cap rx[s] \subseteq delivered(s) \ credited(s)
    /\ pc' = [pc EXCEPT ![s] = "slot"]
    /\ UNCHANGED <<storeVars, part_hashes, data, file, reserved, blameVars,
                   flagVars, held, rx, due, draining, cur, orphans, engineVars,
                   finVars, events>>

\* OP_OUTOFPARTREQS with a place worth keeping: release_all and queue again
\* (the session that bails instead is DropSession).
OutOfPartReqs(s) ==
    /\ pc[s] = "recv"
    /\ disturb
    /\ release(held[s])
    /\ held' = [held EXCEPT ![s] = {}]
    /\ rx' = [rx EXCEPT ![s] = {}]
    /\ due' = [due EXCEPT ![s] = {}]
    /\ pc' = [pc EXCEPT ![s] = "slot"]
    /\ UNCHANGED <<storeVars, part_hashes, data, file, blameVars, flagVars,
                   draining, cur, orphans, engineVars, finVars>>

\* The future is dropped: deadline, hang-up, error, bail.
DropSession(s) ==
    /\ pc[s] # "idle"
    /\ disturb
    /\ drop_session(s)
    /\ UNCHANGED <<storeVars, part_hashes, data, file, blameVars, flagVars,
                   engineVars, finVars>>

\* fetch_one's watchdog tick: nothing left to do for this download.
Watchdog(s) ==
    /\ pc[s] # "idle"
    /\ is_complete \/ cancelled \/ paused
    /\ drop_session(s)
    /\ UNCHANGED <<storeVars, part_hashes, data, file, blameVars, flagVars,
                   engineVars, finVars, events>>
-----------------------------------------------------------------------------
(* Finalizing: finalize_completed, the tail of spawn_fetch, finish_download. *)

\* try_begin_finalize: one compare-and-swap.
try_begin_finalize_store == finalizing' = TRUE
try_begin_finalize == ~finalizing /\ finalizing' = TRUE

\* The heartbeat sweep, or a fetch task's tail, claims a complete download.
TryBeginFinalize(f) ==
    /\ fin[f] = "idle"
    /\ in_reach
    /\ f = "tail" => ~cancelled
    /\ is_complete
    /\ try_begin_finalize
    /\ fin' = [fin EXCEPT ![f] = "verify"]
    /\ UNCHANGED <<storeVars, part_hashes, data, file, reserved, blameVars,
                   paused, cancelled, sessVars, orphans, engineVars, fin_bad,
                   shared, events>>

all_good == \A u \in Units : data[u] = "good"

\* verify_whole_file_and_aich reads the .part by path, off the lock.
VerifyWholeFile(f) ==
    /\ fin[f] = "verify"
    /\ fin' = [fin EXCEPT ![f] = IF file = "part" /\ all_good THEN "ok" ELSE "bad"]
    /\ UNCHANGED <<storeVars, part_hashes, data, file, reserved, blameVars,
                   flagVars, sessVars, orphans, engineVars, fin_bad, shared,
                   events>>

\* The parts that fail the hashset: the wrong ones, or, when a peer made the
\* hashset up, any of them.
bad_parts ==
    LET complete == {p \in Parts : is_part_complete(p, gaps)}
        wrong == {p \in complete : \E u \in PartUnits(p) : data[u] # "good"}
    IN IF part_hashes = "true" THEN {wrong} ELSE SUBSET complete

\* localize_corruption, reading half: blame parts against the hashset.
LocalizeCorruption(f) ==
    /\ fin[f] = "bad"
    /\ \/ /\ part_hashes # "none" /\ file = "part"
          /\ \E bad \in bad_parts :
                /\ fin_bad' = [fin_bad EXCEPT ![f] = bad]
                /\ fin' = [fin EXCEPT ![f] = IF bad = {} THEN "reset" ELSE "blame"]
       \/ /\ part_hashes = "none" \/ file # "part"
          /\ fin' = [fin EXCEPT ![f] = "reset"]
          /\ UNCHANGED fin_bad
    /\ UNCHANGED <<storeVars, part_hashes, data, file, reserved, blameVars,
                   flagVars, sessVars, orphans, engineVars, shared, events>>

\* The contributors of a part: everyone noted for one of its cells.
contributors(p) == UNION {block_sources[c] : c \in {k \in Cells : k[1] = p}}

\* localize_corruption, acting half: re-open the bad parts, save, ban a part's
\* SOLE contributor, forget the contributors; then reset_finalize.
BlameParts(f) ==
    /\ fin[f] = "blame"
    /\ gaps' = gaps \cup UNION {PartUnits(p) : p \in fin_bad[f]}
    /\ corrupted' = corrupted \cup fin_bad[f]
    /\ UNCHANGED <<since, paused>>
    /\ save_met(gaps', corrupted', paused)
    /\ banned' = banned \cup
          UNION {contributors(p) : p \in {q \in fin_bad[f] :
                                            Cardinality(contributors(q)) = 1}}
    /\ block_sources' = [c \in Cells |->
          IF c[1] \in fin_bad[f] THEN {} ELSE block_sources[c]]
    /\ finalizing' = FALSE
    /\ fin' = [fin EXCEPT ![f] = "idle"]
    /\ fin_bad' = [fin_bad EXCEPT ![f] = {}]
    /\ UNCHANGED <<part_hashes, data, file, reserved, cancelled, sessVars,
                   orphans, engineVars, shared, events>>

\* No part to blame: re-open the whole file, save; then reset_finalize.
ResetAllGaps(f) ==
    /\ fin[f] = "reset"
    /\ gaps' = Units
    /\ corrupted' = {}
    /\ UNCHANGED <<since, paused>>
    /\ save_met(Units, {}, paused)
    /\ finalizing' = FALSE
    /\ fin' = [fin EXCEPT ![f] = "idle"]
    /\ UNCHANGED <<part_hashes, data, file, reserved, blameVars, cancelled,
                   sessVars, orphans, engineVars, fin_bad, shared, events>>

\* Verified: leave the registry, unless cancelled during the verify.
LeaveRegistry(f) ==
    /\ fin[f] = "ok"
    /\ \/ /\ cancelled
          /\ fin' = [fin EXCEPT ![f] = "idle"]
          /\ UNCHANGED registered
       \/ /\ ~cancelled
          /\ fin' = [fin EXCEPT ![f] = "move"]
          /\ registered' = FALSE
    /\ UNCHANGED <<storeVars, part_hashes, data, file, reserved, blameVars,
                   flagVars, sessVars, orphans, cancel_pc, flush, fin_bad,
                   shared, events>>

\* (finish_to without its check under the lock.)
FinishTo_unchecked(f) ==
    /\ fin[f] = "move" /\ file = "part"
    /\ file' = "moved" /\ met' = NoMet
    /\ fin' = [fin EXCEPT ![f] = "moved"]
    /\ UNCHANGED <<gaps, corrupted, since, part_hashes, data, reserved,
                   blameVars, flagVars, sessVars, orphans, engineVars, fin_bad,
                   shared, events>>

\* finish_to: under the download lock, refuse a cancelled download, else
\* rename the .part into place and remove the met.  The rename may fail.
FinishTo(f) ==
    /\ fin[f] = "move"
    /\ \/ /\ ~cancelled /\ file = "part"
          /\ file' = "moved"
          /\ met' = NoMet
          /\ fin' = [fin EXCEPT ![f] = "moved"]
          /\ UNCHANGED events
       \/ /\ \/ (cancelled \/ file # "part") /\ UNCHANGED events
             \/ disturb                              \* an I/O error
          /\ fin' = [fin EXCEPT ![f] = "idle"]
          /\ UNCHANGED <<file, met>>
    /\ UNCHANGED <<gaps, corrupted, since, part_hashes, data, reserved,
                   blameVars, flagVars, sessVars, orphans, engineVars, fin_bad,
                   shared>>

\* known2.append, persist_shared_file and the push to the shared library.
ShareFile(f) ==
    /\ fin[f] = "moved"
    /\ shared' = (shared \/ ~cancelled)
    /\ fin' = [fin EXCEPT ![f] = "idle"]
    /\ UNCHANGED <<storeVars, part_hashes, data, file, reserved, blameVars,
                   flagVars, sessVars, orphans, engineVars, fin_bad, events>>
-----------------------------------------------------------------------------
(* The user and the heartbeat. *)

\* cancel_download: out of the registry, then the flag, then the files.
CancelRemove ==
    /\ cancel_pc = "idle" /\ registered
    /\ disturb
    /\ registered' = FALSE
    /\ cancel_pc' = "flag"
    /\ UNCHANGED <<storeVars, part_hashes, data, file, reserved, blameVars,
                   flagVars, sessVars, orphans, flush, finVars>>

CancelFlag ==
    /\ cancel_pc = "flag"
    /\ cancelled' = TRUE
    /\ cancel_pc' = "discard"
    /\ UNCHANGED <<storeVars, part_hashes, data, file, reserved, blameVars,
                   paused, finalizing, sessVars, orphans, registered, flush,
                   finVars, events>>

\* discard_files -> remove_backing_files, under the download lock.
CancelDiscard ==
    /\ cancel_pc = "discard"
    /\ file' = IF file = "part" THEN "deleted" ELSE file
    /\ met' = NoMet
    /\ cancel_pc' = "idle"
    /\ UNCHANGED <<gaps, corrupted, since, part_hashes, data, reserved,
                   blameVars, flagVars, sessVars, orphans, registered, flush,
                   finVars, events>>

\* pause_download / resume_download: set_paused flips the flag and saves.
SetPaused ==
    /\ registered
    /\ disturb
    /\ paused' = ~paused
    /\ UNCHANGED <<gaps, corrupted, since>>
    /\ save_met(gaps, corrupted, paused')
    /\ UNCHANGED <<part_hashes, data, file, reserved, blameVars, cancelled,
                   finalizing, sessVars, orphans, engineVars, finVars>>

\* persist_downloads snapshots the registry ...
PersistSnapshot ==
    /\ registered /\ ~flush
    /\ disturb
    /\ flush' = TRUE
    /\ UNCHANGED <<storeVars, part_hashes, data, file, reserved, blameVars,
                   flagVars, sessVars, orphans, registered, cancel_pc, finVars>>

\* ... and saves every download in the snapshot, whatever became of it since.
Persist ==
    /\ flush
    /\ flush' = FALSE
    /\ since' = 0
    /\ UNCHANGED <<gaps, corrupted, paused>>
    /\ save_met(gaps, corrupted, paused)
    /\ UNCHANGED <<part_hashes, data, file, reserved, blameVars, cancelled,
                   finalizing, sessVars, orphans, registered, cancel_pc,
                   finVars, events>>
-----------------------------------------------------------------------------
\* The bytes after a kill: each write in flight has landed or it has not.
after_kill(W) ==
    {d \in [Units -> Bytes] : \A u \in Units :
        d[u] \in {data[u]} \cup {w.val : w \in {x \in W : x.unit = u}}}

\* What PartStore::open needs: the met, and the .part beside it.
resumable == met # NoMet /\ file = "part"

\* iPadOS kills the suspended process; the next start runs resume_downloads,
\* which opens what has both a met and a .part and forgets everything else.
KillAndRestart ==
    /\ disturb
    /\ data' \in after_kill(orphans \cup {cur[s] : s \in {t \in Sessions : pc[t] = "write"}})
    /\ registered' = resumable
    /\ gaps' = IF registered' THEN met.gaps ELSE Units
    /\ corrupted' = IF registered' THEN met.corrupted ELSE {}
    /\ paused' = (registered' /\ met.paused)
    /\ since' = 0
    /\ reserved' = {}
    /\ block_sources' = [c \in Cells |-> {}] /\ banned' = {}
    /\ cancelled' = FALSE /\ finalizing' = FALSE
    /\ pc' = [s \in Sessions |-> "idle"]
    /\ held' = [s \in Sessions |-> {}]
    /\ rx' = [s \in Sessions |-> {}]
    /\ due' = [s \in Sessions |-> {}]
    /\ draining' = [s \in Sessions |-> FALSE]
    /\ cur' = [s \in Sessions |-> NoWrite]
    /\ orphans' = {}
    /\ cancel_pc' = "idle" /\ flush' = FALSE
    /\ fin' = [f \in Finalizers |-> "idle"]
    /\ fin_bad' = [f \in Finalizers |-> {}]
    /\ part_hashes' = IF registered' THEN met.part_hashes ELSE "none"
    /\ UNCHANGED <<met, file, shared>>

SessionStep(s) ==
    \/ FetchOne(s) \/ SetHashset(s) \/ TakeBlocks(s)
    \/ CommitDetach(s) \/ WriteAndSync(s) \/ CommitClose(s) \/ TopUp(s)
    \/ WindowDone(s) \/ OutOfPartReqs(s) \/ DropSession(s)
    \/ Watchdog(s)

FinishStep(f) ==
    \/ TryBeginFinalize(f) \/ VerifyWholeFile(f) \/ LocalizeCorruption(f)
    \/ BlameParts(f) \/ ResetAllGaps(f) \/ LeaveRegistry(f) \/ FinishTo(f)
    \/ ShareFile(f)

EngineStep ==
    \/ CancelRemove \/ CancelFlag \/ CancelDiscard \/ SetPaused
    \/ PersistSnapshot \/ Persist \/ KillAndRestart

Next ==
    \/ \E s \in Sessions : SessionStep(s)
    \/ WriteOrphan
    \/ \E f \in Finalizers : FinishStep(f)
    \/ EngineStep

Spec == Init /\ [][Next]_vars

\* What a session does on its own, once nothing disturbs it any more.
Progress(s) ==
    \/ FetchOne(s) \/ SetHashset(s) \/ TakeBlocks(s) \/ CommitDetach(s)
    \/ WriteAndSync(s) \/ CommitClose(s) \/ TopUp(s) \/ WindowDone(s)
    \/ Watchdog(s)

\* tokio polls every ready task; a sweep re-dials while the file is incomplete;
\* the heartbeat runs finalize_completed every second.
Fairness ==
    /\ \A s \in Sessions : WF_vars(Progress(s))
    /\ \A f \in Finalizers : WF_vars(FinishStep(f))
    /\ WF_vars(CancelFlag) /\ WF_vars(CancelDiscard)

FairSpec == Spec /\ Fairness
-----------------------------------------------------------------------------
(* Safety *)

\* Every reservation belongs to a live session.  Sessions end mostly by being
\* dropped, so a reservation that outlived its holder would keep its block
\* from every other peer for the life of the process (the `reserved` field).
NoLeakedReservation ==
    \A b \in reserved : \E s \in Sessions : b \in held[s]

\* The gap list never claims bytes the disk does not hold, whatever commits,
\* drops, re-openings and restarts came before (part_store.rs module docs).
ClosedGapsAreOnDisk ==
    \A u \in Units \ gaps : data[u] # "none"

\* Nor does the met that the next start will read, in any order of saves.
MetNeverOverclaims ==
    met # NoMet => \A u \in Units \ met.gaps : data[u] # "none"

\* "An unclean stop loses at most one PART's worth of received data": what
\* memory has closed and the met still lists as missing is less than
\* MET_SAVE_BYTES (multi_source.rs, MET_SAVE_BYTES).
LossIsBounded ==
    met # NoMet => Cardinality(met.gaps \ gaps) < MetSaveBytes

\* The fetch tail and the heartbeat never finalize at the same time
\* (try_begin_finalize), and until one of them is through, verified and moved or
\* found bad, nobody re-opens a gap under it.
FinalizeIsExclusive ==
    \A f \in Finalizers : fin[f] # "idle" =>
       /\ \A g \in Finalizers \ {f} : fin[g] = "idle"
       /\ gaps = {}

\* cancel_download and finish_to exclude each other through the download lock:
\* once the cancel flag is up the file is never moved into place, a discarded
\* file never comes back, a moved one is never deleted, and neither returns to
\* the registry after a restart.
CancelAndMoveExclude ==
    [][/\ cancelled /\ file = "part" => file' # "moved"
       /\ file # "part" => file' = file /\ ~registered']_vars

\* What makes the above inductive: a session that is past detach_writer carries
\* a real write, and one past write_and_sync has its bytes on disk (commit) ...
WaitingWrites ==
    \A s \in Sessions :
       /\ pc[s] \in {"write", "close"} => cur[s] \in Writes
       /\ pc[s] = "close" => data[cur[s].unit] # "none"

\* ... since_met_save counts every gap closed since the met was saved ...
LossIsCounted == met # NoMet => Cardinality(met.gaps \ gaps) <= since

\* ... and whoever finalizes owns the claim.
OwnsTheClaim == \A f \in Finalizers : fin[f] # "idle" => finalizing

\* A download that is being cancelled or moved, or whose file is gone, is out
\* of the registry.
GoneIsUnregistered ==
    cancel_pc # "idle" \/ file # "part" \/ (\E f \in Finalizers : fin[f] = "move")
       => ~registered
-----------------------------------------------------------------------------
(* Liveness *)

\* Once the disturbances are over, a download that is not left paused leaves
\* the registry: finished or cancelled, never stranded behind reservations
\* nobody serves or a finalize claim nobody holds.
EventuallySettles == <>[]paused \/ <>~registered
=============================================================================
