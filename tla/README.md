# padMule: TLA+ models, checks and proofs

padMule is an eD2k/Kad client: a Rust engine (`crates/`), a SwiftUI app over a
C interface (`ios/`, `crates/mule-ffi`), and a vendored copy of aMule 3.0.1 that
serves as the reference implementation. This directory holds TLA+ models of the
engine's stateful core, the TLC configurations that check them, and TLAPS proofs
of the properties that matter most.

All paths below are relative to `src/`. `PROJECT.json` lists, for every
definition, the source lines it stands for.

## 1. Inventory

The engine runs on a multi-threaded tokio runtime. Three facts shape every model:

* a future may be **dropped at any await** (timeouts, `select!`, task abort), and
  the only clean-up then is what `Drop` implementations do;
* `spawn_blocking` work is **not** dropped with the future that started it: it runs
  to its end;
* iPadOS kills the suspended process at any moment, so what is on disk between two
  file system calls is a state the next start has to cope with.

| Component | State | Operations | What makes it correct |
|---|---|---|---|
| Gap list, block allocator (`part_file.rs`) | sorted list of missing ranges, corrupted parts | `fill_gap`, `reopen_range`, `mark_corrupt`, `clear_corrupt`, `reset_all_gaps`, `resume`; `next_blocks` | the list stays sorted, disjoint, inside the file; it is a set of missing bytes; a block is missing, unreserved, held by the source, inside one cell of one part |
| Part store (`part_store.rs`) | `NNN.part`, `.part.met`, `.bak`, `.tmp` | `create`, `save_met`, `finish_in_place`, `remove_backing_files`, `open` | a finished save is never lost; a finished or cancelled download does not come back; two downloads never share files |
| Multi-source download (`multi_source.rs`) | reservations, contributors, bans, pause/cancel/finalize flags, throttle of met saves | `take_blocks`, `commit`, `release`, `set_hashset`, `localize_corruption`, `reset_all_gaps`, `finish_to`, `discard_files`, `set_paused`, `persist`, AICH recovery | no reservation outlives its session; the gap list and the met never claim bytes that were not written; bounded loss; one finalizer; cancel and move exclude each other |
| Block receiver (`transfer.rs`) | bytes left per block, inflate state per block | `accept` (raw, compressed), `take_completed`, `add_blocks`, `is_done` | no write outside a requested block; complete means received; an honest peer is not cut off or waited for in vain |
| Fetch manager (`fetch.rs`) | scoreboard, parked sessions, permits | sweep, workers, `fetch_one` and its watchdog | permits come back; sessions notice that the download stopped; no session outlives its sweep; sources found while sessions are parked are dialled |
| Engine (`engine.rs`) | registry of downloads, shared library, settings | add, cancel, pause, resume, finalize, checkpoint, search, server and Kad orchestration | a download is in the registry or finished or cancelled |
| Upload gate and serving (`share.rs`) | free slots, score-ordered queue, served lists | `try_grant`, `enqueue`, `granted`, guards' drops, `register_served`, rotation | slots conserved; queue holds exactly the waiters; no dead source handed out; no waiter asleep beside a free slot |
| Credits, secure identification (`secure_ident.rs`, `credit_store.rs`, `credits.rs`) | one session per connection (keys, challenges, what was sent and verified); one credit record per userhash, and its copy in `clients.met` | `start`, `on_packet`, `bind_verified`, accrual, score, save and load | a key is bound only after its private half signed our challenge; nothing counted before is inherited; the bonus needs a signature by the key on file; honest peers get identified |
| Kad lookup (`mule-kad/lookup.rs`, `drive_lookup` in `kad_live.rs`) | candidates, tried, responded, failed, budgets; requests in flight; the slots pending in the read loop; `SlotGuard` | `refill`, `on_response`, `on_timeout`, `harvest`; send, match, expire, cancel | no slot outlives its owner; nobody is asked twice; candidates are walked in order and none is left behind; the lookup ends |
| Kad routing table (`routing.rs`, its writers in `kad_live.rs`) | a tree of zones with bins of contacts; per contact address, verified bit, verify key, type and lease; solicited ACKs | `add` with split, refresh and freeze; `set_alive`, `note_verify_key`, `verify_contact`, `sweep`; probes | every contact is in the one bin a lookup descends to; what the table says of a contact was earned at the address it stores; the caps hold; only the unresponsive are evicted |
| Flood tracker (`hardening.rs`) | counts and bans per source | gate, ban, prune | bans hold with a full table |
| Server link (`link.rs`) | connection, pending request | connect, pause, resume, request loop | one request at a time, paused means closed |
| Codecs and formats (`mule-proto`, `mule-files`) | none | parse, write | covered by the repository's golden and differential tests |

Interactions: a session (`run_peer`) reserves blocks in its `Download`, feeds packets
to its `BlockReceiver`, hands the bytes to the blocking pool and closes gaps in the
`PartFile` inside the `PartStore`, which saves the met. The tail of a fetch task and
the one-second heartbeat both finalize; the FFI calls cancel, pause and resume under
the engine mutex; the checkpoint works on a snapshot of the registry. Inbound
connections (`serve_shared`) share one `UploadGate`, and inbound and outbound ones the
`CreditStore`. The Kad node is lent by the engine to one method at a time; its read loop
is a task of its own, and the two share the routing table and the pending slots.

The behaviours that are hard here, and that unit tests hardly reach, are listed at
their lines under `hazards` in `PROJECT.json`.

## 2. Modules

    BlockLattice ── geometry of parts, cells, blocks; contract of the allocator
      ├─ GapSet          abstract: a set of missing units
      ├─ PartFile        the gap list and the allocator; implements GapSet
      ├─ BlockReceiver   the accounting of one window of requested blocks
      │    └─ BlockReceiver_proofs
      └─ Download        sessions, commits, finalize, cancel, pause, kill/restart
           └─ Download_proofs   extends Download and PartFile
    FetchSweep           one file's sweep, its workers, the sessions that park
      └─ FetchSweep_proofs
    PartStore            the directory of part and met files, call by call
      └─ PartStore_proofs
    UploadGate           slots, queue, served lists
      └─ UploadGate_proofs
    KadLookup            one lookup: CSearch, its driver, the pending requests
      └─ KadLookup_proofs
    KadTable             the routing table and everything that writes it
      └─ KadTable_proofs
    SecureIdent          identification and the credit record of one userhash
      └─ SecureIdent_proofs

`MC*` modules only give finite sets and values to the constants.

**BlockLattice.** A file is `Size` units, cut in parts of `PartSize` and, inside each
part, in cells of `BlockSize`; a unit stands for the bytes of one data packet.
`IsPick` is the contract of `PartFile::next_blocks`. Download and BlockReceiver take
any pick the contract allows; that the algorithm meets it is checked by the `partfile` run
and proved.

**PartFile / GapSet.** The gap list as a sequence of `[start, end)` records, with
`normalize` (clamp, drop, sort, merge) inside every operation as in the code, and the
allocator's loops. A loop is a function of its round: the value after the last round is
what the code is left with. Reservations are a set of ranges and so is what `next_blocks`
returns, because the code only asks whether one overlaps and how many there are. Init is a new file or any list, tidy or damaged, that a met may
carry. The refinement maps the list to the set of units it covers.

**Download.** One action per stretch of code between two awaits or two locks. A commit
is three: `CommitDetach` (contributor noted, write handed to the blocking pool),
`WriteAndSync` (or `WriteOrphan` once the session is gone), `CommitClose` (lock
retaken, gap closed, met saved when due, finished blocks released). `drop_session` is
what `HeldBlocks::drop` does on every exit. Finalizing follows `finish_download`: claim,
verify off the lock, then either localize, blame and re-open, or leave the registry,
move under the lock, share. `cancel_download` is its three steps. `KillAndRestart` keeps
what is on disk, lets each write in flight land or not, and resumes from the met. What
peers send is "good" or "bad"; hashsets are "true" or "spoofed". Everything that
disturbs a transfer (drops, revocations, bad data, commands, I/O errors, kills) spends
one of `MaxEvents`.

A block that overlaps another block of the same window (possible in the endgame) may or
may not be credited by the receiver; `CommitClose` allows both, and `WindowDone` lets the
session go on. In the code raw bytes are credited to the first block of the window that
contains them, so a block re-requested inside it may never be credited, `is_done` stays
false with nothing left to come, and the session waits until its deadline drops it; for
the download both ends release the same blocks.

**BlockReceiver.** `left`, `packed`, `completed` and the window, with the receive loop of
`run_peer` around them. The peer is external: an honest one serves each block raw or as
one compressed stream, cut into pieces anywhere; the other sends any range and stream.
The data of a stream is abstracted to how many bytes a fragment yields, whether the
stream ended and whether input was left over. An honest stream need not end with its last
byte of output: what is left of it (its checksum, the end of its last deflate block) may
come in packets of their own (`late`, `ServeTrailer`). By then `credit` has dropped the
inflate state, so such a packet meets a fresh inflater and is an error, or passes for the
beginning of a stream and may yield a byte; in a later window nobody asked for it.

**FetchSweep.** The engine selects an idle download, looks for sources and spawns a
fetch (it may have stopped meanwhile); `download_file` is a loop with a program counter
(head, fold, round, sleep, drain), its workers, and each session as a task of its own:
dialling, connected, holding a permit but not yet announced ("claimed"), parked,
returned from `fetch_one` but not yet through the task's tail ("over"), done. A worker
leaves its session by the join or by the `on_park` channel; that branch of the `select!`
does not tell a parked session from one whose sender was dropped, and neither does
`Released`. The scoreboard's order is any order, a ban is a free choice to skip a
source, the priority a free choice of rounds and parallelism within the bounds. What a
session does with the file is Download; here a session hangs up whenever it likes.

**PartStore.** Each file system call is a step: `save_met` is write tmp, rename met to
`.bak`, rename tmp to met; finishing and cancelling drop the `.part`, then the met. A
download's calls are serialised by its own lock only; creation and cancellation also by
the engine mutex (`engine_busy`). A met is abstracted to whose it is and how much it
records. Late saves by tasks that still hold a finished or cancelled download are
modelled (`Save`).

**UploadGate.** One task per inbound connection; a step ends where the gate's lock is
released or the code awaits. `notify_waiters` is modelled as tokio documents it: it wakes
the futures enabled at that moment and stores nothing. Arming, looking and parking are
separate steps, and so are a guard's release and its notification.

**KadLookup.** Composes three parts: the state machine `CSearch`, the loop of
`drive_lookup` with the request futures of its `JoinSet`, and the matching half of the
read loop. A contact is its XOR distance to the target, 1 being the closest, so "closer"
is `<`; several contacts may live on one host (`Ip`), because the read loop falls back
from the exact address to the first slot waiting on the host. `phase` is where the driver
is: at the top, sending value asks, sending the refill's or an answer's finds, or in
`select!`. A request is registered and put under the guard before its send is awaited; an
answer may arrive during that await ("early"), after the deadline, twice, or never; a send
may fail; a request task may panic; the caller may drop the lookup at any await. Answers
are any sequence of up to `MaxAnswer` contacts that `frontier_filter` lets through. Slots
are numbered in the order they were registered. `on_response` is stated in closed form,
without the code's loop over the contacts of an answer: which of them are new, which are
closer than the best so far, and which of those are dispatched at once.

**KadTable.** Ids are their distance to our own; a leaf is its level and index, with its
contacts oldest first. `GatedAdd` is one critical section (caps, `Zone::add` with its
splits, the lease); the verify key that came with the datagram is stored in a second one
(`noting`, then `NoteVerifyKey`), between which the other writer may move the contact. The
writers are the engine's borrow of the node (seeding, answers, sweep and probes, one at a
time) and the read loop (inbound HELLO and ACK). Time is counted in sweep periods. A probe
carries the address the sweep saw, and its answer is applied at that address. `proven`,
`heard`, `keyed` and `unanswered` are history: what was really shown from where.

**SecureIdent.** Several connections that claim one userhash, its owner's and somebody
else's, inbound and outbound. `SecureIdentSession` runs packet by packet at our end and at
an honest peer's end of a FIFO stream. Any other peer sends what it likes: any key, ours
too; any challenge, ours too; any signature by any peer's key over our key and this
connection's challenge (made by the peer, or relayed from an owner that was shown them);
and every signature made so far, our own among them, which we make when we are shown our
own key and challenge. RSA is abstracted to which key signed what. An inbound connection
is in the peek of `classify_inbound` until it asks for a file (`FileRequest`, it is a
leecher and keeps its session) or is silent for one peek (`Quiet`, it is a called-back
source, its session is dropped and the same link goes on; `Ignore`). Silence may fall
whatever is under way. The key on file is read when a connection opens; the record is
bound, counted, saved, lost in a restart, expired and scored at any time after that.

## 3. Runs

| Run | Instance | Shows |
|---|---|---|
| `partfile` | 6 units, parts of 4, cells of 3; all lists of up to two gaps from a small grid as met contents; up to one reserved range of any place and length, limits 1 and 2, rarities 0 and 1 | `ListIsSound` (the list stays tidy, every fill and re-opening changes exactly its range), `AllocatorMeetsContract` for every availability, reservation, part order, endgame and preview setting, `ImplementsGapSet` |
| `download_safe` | 2 peers, one of them dishonest; the other holding only the last part; 2 one-unit parts; 3 events | type, `ClosedGapsAreOnDisk`, `FinalizeIsExclusive`, `CancelAndMoveExclude` |
| `download_live` | 2 honest peers; 3 units in 2 parts, cells of 2, saves every 2 units; 1 event | `NoLeakedReservation`, `MetNeverOverclaims`, `LossIsBounded`, and `EventuallySettles` under fairness |
| `receiver` | 5 units in cells of 2, windows of 2, endgame at 2, both kinds of peer | `WritesStayInside`; `AccountingIsExact` (completed is on disk, done exactly when all came); `HonestPeerFinishes` (only the end of a stream in a packet of its own gets it cut off while gaps are left) |
| `partstore` | 2 downloads, 2 indices, progress up to 2, 2 kills | `SavedProgressIsKept`, `GoneStaysGone` |
| `uploadgate` | 3 connections (two of one peer), 1 slot, queue of 2, 2 files, 2 scores, 4 queueings | slots conserved, queue exact, no dead source |
| `sweep` | 2 sources, 2 workers, 2 rounds, 1 permit, 2 changes between running and not | `ParksAreTracked` (permits come back, marks are of live sessions), `NoSessionOutlivesSweep`; under fairness `SweepEnds`, `FreshSourcesAreDialed` |
| `kad_lookup` | 4 contacts, two of them on one host; alpha 2, frontier 2, find budget 3, value budget 2, one result ends it; answers of up to 2 contacts, 1 panic | `RequestsAreTracked`, `AskedOnce`, `NoLimbo`, `ClosestFirst`, `NothingStranded`; under fairness `LookupEnds` |
| `kad_table` | ids of 2 bits, 3 ids that may live at 5 addresses, bins of 2, caps of 1 per host, 2 per /24, 1 per bin, 2 per /16; lease 2, probe window 1, 1 probe per sweep; `nodes.dat` with 0 or 2 entries | `TreeIsExact`, `VerifiedIsProven`, `KeyIsItsHosts`, `LeaseIsEarned`, `TableIsDiverse`, `EvictionIsDeserved` |
| `secure_ident` | 2 inbound connections, one of the owner and one of a peer that sends anything; 2 keys and ours, counters up to 2, 3 stray packets, 1 restart | `BoundIsProven`, `NothingInherited`, `BonusNeedsTheKey`; under fairness `HonestIsKnown` |
| two violation runs | as small as shows the case | the findings of section 5 |

*Why the bounds are enough.* The cases that matter need two of everything: two sessions
to race for a block, a full and a short part, a full and a short cell, one write in
flight while another actor moves, two finalizers, two saves around a kill, two waiters
behind a slot, two writers of the routing table, a bin that splits and one that may not,
a contact that moves between hosts and back. Three events in `download_safe` cover every pair of disturbances and a
third on top (a drop, bad data and a kill; a cancel, a pause and a checkpoint...); one
event in `download_live` keeps the liveness graph small on a file with more blocks. The
safety properties of every module are proved for all values (section 4); for these
the runs serve as a check of the model and of the mutations. `MaxSeq`, `MaxKills`, `MaxIndex`,
`MaxProgress`, `MaxBlocks`, `MaxEvents`, `MaxFlips`, `MaxAnswer`, `MaxPanics`, `MaxStray`
and `MaxRestarts` are the bounds that the code does not have; `MaxRounds` and
`MaxParallel` stand for the largest values a priority gives, `MaxBytes` for where the
credit counters saturate.

*Deadlock* is not checked where a system may really stop: a finished or cancelled
download, a spent event budget, an ended session. `PartFile`, `KadLookup`, `KadTable` and
`SecureIdent` never stop and are checked.

*Fairness.* In `download_live`: weak fairness of a session's own progress (tokio polls
every ready task; the sweep re-dials a source while the file is incomplete), of the
finalizing steps (the heartbeat runs `finalize_completed` every second and tasks that are
ready run), and of the two remaining steps of a cancel that has begun. Nothing is assumed
of drops, of the clock arm of the met throttle or of the user. All peers of that run are
honest: with a peer that spoofs the hashset the code gives no such promise. The property
lets a download end paused, because nothing obliges the user to resume it. In `sweep`:
weak fairness of the sweep, of each worker and of each session's own steps and timers
(`CONNECT_TIMEOUT`, `per_peer`, the watchdog every `PARK_POLL`); nothing of the peers, of
the user or of `PARK_BACKSTOP`. In `kad_lookup`: weak fairness of the driver's own steps
(tokio polls a ready task, a UDP send completes) and of the per-request deadlines, and
strong fairness of joining a finished request, because `select!` polls its branches in
random order and the stall tick may come in between any number of times; nothing of the
peers, and nothing of the overall deadline, which the lookup does not need in order to
end. In `secure_ident`: what is on a stream is read at either end.

*Conditions in the properties.* `LossIsBounded` is stated for saves that succeed: the code
restarts the throttle after a failed save too (a hazard on the list). `SavedProgressIsKept`
and `GoneStaysGone` speak of a download whose index was never given to another one
(`sole`): when it was, a late save overwrites the other's met, the situation finding 1
leads to. `NothingStranded` excepts a pass in which a send failed and requests whose task
panicked (section 5 says what happens then). `TableIsDiverse` states the caps per host and
per /16; the /24 cap of the whole table is in the model, but no /24 of this instance has
more hosts than it allows, and the cap per bin is waived while the table is starved and for an
id that moves, so it is no invariant. `BonusNeedsTheKey` speaks of connections that were
opened when the userhash had a key: before that the code scores everybody who claims it.
It and `BoundIsProven` say which key signed which challenge, not who brought the signature:
the code cannot tell, and section 5 says what that allows. `HonestIsKnown` excepts a link
that closes, another key on file, and a silent peek. `HonestPeerFinishes` excepts one error,
the one of a late stream end. `LeaseIsEarned` takes for a proof of life what the code takes,
a HELLO_REQ with any sender key or none; the comment of `set_alive` promises more (section 5).

The `secure_ident` instance has accepted connections only: a connection we dial binds no key
and earns no bonus, and what it downloads for the userhash a called-back source does there
too. The proofs are for any mix of both.

## 4. Proofs

Each `*_proofs` module is checked by TLAPS for every value of the constants that satisfies
the assumptions of the module it extends. These say what the code's constants and inputs
satisfy: sizes, budgets and limits are numbers and, where the code divides by them or counts
down from them, positive (`GeometryAssumption`, `DownloadAssumption`, `ReceiverAssumption`,
`GateAssumption`, `LookupAssumption`); sources, connections and ids are finitely many
(`SweepAssumption`, `GateAssumption`, `TableAssumption`); names such as "none" or `NoKey` are
not those of downloads or keys (`StoreAssumption`, `IdentAssumption`). Four are about the
domain: the one byte that stands for a wiped counter is below the minimum that credit needs
(`1 < CREDIT_MIN_DOWNLOADED`), one host lies in one /16, a probe is
answered or given up before an alive lease ends (`Window <= Lease`; 120 and 3600 seconds in
`routing.rs`), and a starved table, which has
fewer contacts than one bin holds, is below the cap per /16 (`K <= MaxPer16`; 10 and 32 in
the code).

Invariants are proved in one way throughout: an inductive invariant, a lemma that the
initial states satisfy it, one lemma per action or group of actions that keeps it, and a
temporal step. Where a property depends on few variables, a lemma first states which actions
touch them, so that its induction looks only at those. Where a definition recurses on a
number, what it computes is proved from a least counterexample (`LeastNat`, from
`WellFoundedInduction`), because the induction theorems of the library take an operator as
a parameter. The loops of PartFile are treated so too: `LoopRuns` says that the function of
rounds exists, and a loop's own invariant holds after every round because there is no first
round that breaks it.

The theorems on PartFile are in `Download_proofs`, which extends both modules. They hold for
whatever a met lists, as long as it is pairs of numbers, for all sets of non-empty ranges as
reservations, and for all numbers as limits and rarities (`PartFileAssumption`).

| Theorem | Statement | Inductive argument |
|---|---|---|
| **Download** | | |
| `TypeCorrect` | `[]TypeOK` | `TypeInv`: types, plus `WaitingWrites`: a session past `detach_writer` carries a real write, and past `write_and_sync` its bytes are on disk |
| `ReservationsNeverLeak` | `[]NoLeakedReservation` | release takes away exactly what leaves `held`; taking adds to both |
| `GapListIsTruthful`, `MetIsTruthful` | `[]ClosedGapsAreOnDisk`, `[]MetNeverOverclaims` | bytes once written are never unwritten (`BytesStay`); a session about to close a gap has its bytes on disk (`WaitingWrites`); a save copies a truthful gap list |
| `LossBounded` | `[]LossIsBounded` | `LossIsCounted`: `since_met_save` bounds the gaps closed since the save, and it stays below `MET_SAVE_BYTES` |
| `FinalizeExclusive` | `[]FinalizeIsExclusive` | `OwnsTheClaim`: whoever is past `try_begin_finalize` owns the flag, and only it clears the flag or re-opens gaps |
| `CancelMoveExclusion` | `CancelAndMoveExclude` | `GoneIsUnregistered`: a download that is being cancelled or moved, or whose file is gone, is out of the registry, and nothing puts it back |
| **PartFile** | | `ListInv`: the list is `Tidy` (no empty gap, none past the end, each ends before the next starts), which any list is once normalized |
| `ListStaysSound` | `[]ListIsSound` | sorting keeps what is covered (`SortedDoes`, from `InOrderDoes`: the members of a finite strict order, each once) and merging keeps it and separates the gaps (`MergeDoes`); `CutDoes`, `FillDoes`, `ReopenDoes`: a unit is covered afterwards exactly if it should be; `MissingCounts`: the lengths of disjoint gaps add up |
| `ListImplementsSet` | `ImplementsGapSet` | the same lemmas, step by step; `PartRange`: the bytes `mark_corrupt` re-opens are the units of the part |
| `AllocatorKeepsContract` | `[]AllocatorMeetsContract` | `BlockAtDoes`: from a cursor at the edge of a run, the code finds the next maximal run of missing bytes of one cell; `NextBlockDoes`: each round passes one that is spoken for, and `PartSize` rounds suffice; `DrainDoes`: rounds add the first block left until there are enough or none; `Collected`: over the parts in any order (`PartOrderDoes`), what was taken is all of the parts that had their turn, at most one excepted |
| **BlockReceiver** | | `ReceiverInv` |
| `WritesAreContained` | `[]WritesStayInside` | `Window`: every counter and every stream belongs to a block of the window, and a stream's total is that block's size |
| `AccountsBalance` | `[]AccountingIsExact` | `Orderly`, which an honest peer's window is until its session ends. The *main* blocks are those that overlap no earlier one; a later block lies inside an earlier one or beside it (`Nested`), because each was a whole run of missing bytes of one cell and gaps only close (`AllSealed`). An open main block is still reserved, a closed one was received in full |
| `HonestPeersFinish` | `[]HonestPeerFinishes` | `OnTheWire`: what the peer still owes begins with exactly the open main blocks, each at the position the counters expect; anything behind them was asked for in a race, when the window covered all that was missing. `LateIsSettled`: the block of a stream that has still to end is in, whatever window its end is read in, so what a fresh inflater makes of it changes no byte, counter or block |
| **PartStore** | | `StoreInv` |
| `FinishedSavesAreKept` | `[]SavedProgressIsKept` | `FilesAtHome` and `SaveIsCurrent`: the files of an index are those of the downloads that have it, and a save under way carries what is in memory, never less than the last finished one; so whichever of met and `.bak` a kill leaves is recent enough |
| `GoneIsForGood` | `GoneStaysGone` | `GoneHasNoPart`: the `.part` goes first, so a met that a late save puts back has none beside it and no restart resumes it |
| **FetchSweep** | | `SweepInv` |
| `ParksComeBack` | `[]ParksAreTracked` | permits and marks change together with the session that holds them; `RoundsInOrder`: a source has one session per round, so no two share a place |
| `SweepJoinsItsSessions` | `[]NoSessionOutlivesSweep` | `SessionsOwned`: a live session is waited for by its worker or is among those joined at the end; `Between`: workers run within a round only |
| **UploadGate** | | |
| `SlotsNeverLeak` | `[]SlotsConserved` | the count of holders changes by one exactly with `slots_free` |
| `QueueStaysExact` | `[]QueueIsExact` | `KeysAreFresh`: a connection has a key exactly while it is queued, and keys are older than the next sequence number, so no two share one |
| `SourcesStayLive` | `[]NoDeadSource` | each address on a list is backed by a connection after that file; removing one connection's record removes the address |
| `GateIsTyped` | `[]TypeOK` | from the three above: `slots_free` is bounded because slots are conserved |
| **KadLookup** | | `LookupInv` |
| `RequestsStayTracked` | `[]RequestsAreTracked` | `Numbers`: requests and slots have numbers of the guard, each used once, an answered request has no slot, and a slot without a request is a panicked task's; `Counts`: `finds_inflight` against the tasks, with what the pass under way may still send |
| `NobodyIsAskedTwice` | `[]AskedOnce` | `Finds`, `Values`, `Once`: who is queued was not asked, who was asked was marked, and what is marked plus what is left is within the budget |
| `NobodyIsInLimbo`, `ValuesGoClosestFirst` | `[]NoLimbo`, `[]ClosestFirst` | `Walked`: the walk consumed only what had answered or failed |
| `NobodyIsStranded` | `[]NothingStranded` | `Owed`: after the walk the closest candidate left is in flight or can be dispatched, and after the refill it was |
| **KadTable** | | `TableInv` |
| `VerifiedBitIsProven`, `KeysStayAtHome`, `LeasesAreEarned` | `[]VerifiedIsProven`, `[]KeyIsItsHosts`, `[]LeaseIsEarned` | `GatedAddDoes` and `KeepsEarned`: an add changes nothing or updates one contact, which keeps what it earned at the same host and nothing from another one |
| `TableStaysDiverse` | `[]TableIsDiverse` | a contact that comes to a host or /16 found it below the cap, or the whole table was starved |
| `EvictionsAreDeserved` | `EvictionIsDeserved` | `HeardAtHome`, `ProbesCounted`: the type of a contact says how often it was probed in vain since it was last heard |
| `TreeStaysExact` | `[]TreeIsExact` | `TreeInv`: the table is a member of `Trees(Known(contact))`, in which the leaves lie inside the id space, exactly one covers each id, and a bin holds, once each, the known ids its leaf covers. The two halves of a split cover what the leaf covered and the next bit tells them apart (`HalvesCover`); any number of splits by induction on the depth (`GrownKeeps`). Leases and probes are bounded beside it |
| **SecureIdent** | | `IdentInv` |
| `BoundKeysAreProven` | `[]BoundIsProven` | a session that verified did so with a signature over our key and its own challenge, and every such signature is on record the moment it is made or arrives; who sent it plays no part. Only inbound sessions bind, and each knows its own challenge |
| `CreditIsNotInherited` | `[]NothingInherited` | `RecordEarned`: record and saved record are bound to a proven key and count nothing from before, through saves, restarts and expiry |
| `BonusIsTheKeyHolders` | `[]BonusNeedsTheKey` | `OnFileIsBound`: a session opened with a key on file keeps to it, and so does the record while the connection is open; what verifies is then a signature by that key |

Only model-checked is liveness under fairness, which the prover does not do:
`EventuallySettles`, `SweepEnds`, `FreshSourcesAreDialed`, `LookupEnds`, `HonestIsKnown`.

Every safety property of the passing runs is stated by a theorem. The theorems on Download and
BlockReceiver take any pick that `IsPick` allows; `AllocatorKeepsContract` is the link from
there to the code of `next_blocks`.

## 5. Findings

Each is a statement of the code's own comments that a run refutes.

1. `partstore_shared`: `next_part_index` can scan between `save_met`'s two renames, so a new
   download gets the index of one in progress and truncates its `.part` (`engine.rs:669`).
2. `uploadgate_stranded`: `granted` takes a slot without waking anyone. With two slots
   free, the second waiter may look before the first has left the queue, sleep, and stay
   asleep beside the free slot; `try_grant` turns newcomers away meanwhile
   (`share.rs:128`).

Known limits seen while modelling, without a run of their own:

* *Download.* Commit's write is not ordered with the whole-file verify and the move: a
  raced endgame write, or that of a dropped session, can replace verified bytes
  (`engine.rs:1067`). Contributors are kept in memory and the gap list on disk, and a commit
  is noted before it is closed: after a restart, or when blame falls between the two, an
  honest peer may be the only contributor on record of a part another one spoiled, and be
  banned (`multi_source.rs:1454`, `1341`). A spoofed hashset re-opens good parts for ever
  (`1206`). A failed save restarts the throttle (`514`). `set_paused` writes its two flags
  under different locks (`990`). A finalizing claim survives a failed move (`1867`).
* *Part store.* A kill between the two renames leaves a `.bak` and no live met, and
  `resume_downloads` scans for live mets only (`part_store.rs:105`). `copy_file_prefix`
  reads a prefix that a re-opened part may rewrite (`part_store.rs:516`).
* *Receiver.* An honest peer whose compressed stream ends in a packet of its own, behind the
  last byte of output, is cut off: `credit` drops the inflate state with that byte
  (`transfer.rs:636`) while the block stays in the window, so the packet meets a fresh
  inflater (`727`), which rejects it, or in the next window a range nobody asked for (`724`).
  The comment at `748` expects "the trailing adler checksum", but only within a packet; the
  test at `1068` cuts a stream every 64 bytes, "the realistic case", and its stream happens not
  to be cut there. If the stray bytes pass for the beginning of a stream, what it yields is
  written over the block that was finished. A block raced inside another one of the same
  window may stay uncredited, and the session waits until its deadline (section 2, Download).
* *Fetch.* When a download is paused and resumed before its parked sessions look, the
  final join waits for them, dialling nobody, while `FetchGuard` keeps a new sweep away
  (`fetch.rs:921`). The `select!` at `fetch.rs:896` takes a dropped sender for a park.
* *Lookup.* A send that fails in the last pass ends the lookup although answered candidates
  behind it were not asked yet (`kad_live.rs:1964`). An answer from another port may settle
  the slot of another contact on the same host (`893`). The arm for a panicked task counts
  down the finds in flight whatever the request was.
* *Table.* Doc and code disagree on what renews a lease. The comment of `set_alive` counts
  "a HELLO_REQ whose sender key matches the one we hold for it" (`routing.rs:601`); the read
  loop passes `proven_alive = true` for every HELLO_REQ that the caps and the freeze let in
  (`kad_live.rs:992`) and compares no key, so one without a key, or with a wrong one, from the
  stored address keeps a contact alive. The model does as the code. The sweep visits leaves in one fixed order, so early leaves may spend the probes
  every time (`routing.rs:403`). An id without a key moves to another host past the per-bin
  cap. The key of a refused update is stored if the host is the stored one, and a key of 0
  erases it. A contact evicted since the last save is back after Kad is switched off and on
  (`engine.rs:4525`).
* *Identity.* Of two connections opened before a key was bound, the second still verifies
  its own key and scores as identified (`engine.rs:3118`). A bound key without traffic is
  not saved (`clients_met.rs:71`). An outbound connection never binds. `on_packet` does not
  ask whether the key it is shown is our own, or the challenge one of ours: shown both, we
  sign them, and our signature, sent back, verifies and binds our own key to the peer's
  userhash (`secure_ident.rs:341`, `385`, `405`). A version 1 signature names no address, and
  an owner that runs this code signs whatever key and challenge it is shown, so a peer that
  talks to both ends can have the owner answer our challenge. A called-back source that is
  silent for one peek loses its session (`share.rs:726`) while the download goes on over the
  link without one (`engine.rs:3278`): if its key or signature was still under way it is never
  identified, and is signed for no more.

## 6. Not modelled, and the plan

Left out for good: wire codecs, ciphers, hashes, on-disk formats (byte compatibility is
tested in the repository), port mapping, the app's views, the vendored aMule code.

Of the modelled components these parts are left: the AICH recovery of a download (claims,
`apply_aich_recovery`, `multi_source.rs:1586`), the availability counts behind the part
order, the flood tracker (`hardening.rs:104`), the firewall check and the publish schedule
of the Kad node, the request counter and the re-send window of `serve_shared`, the bound on
identification packets per connection (`MAX_SECIDENT_PKTS`).

Next, in this order:

1. **Download**: AICH recovery, the two paused flags as two steps, failed saves.
2. **Flood tracker**: bans with a full table, in front of KadTable's read loop.
3. **Server link**, the request counter and re-send window of `serve_shared`, the crawl.
4. Compose UploadGate with SecureIdent's scores, and PartStore under Download: a Download
   whose `save_met` is PartStore's three calls, shown to implement today's one-step save.

Proof to add: the refinement of item 4, step by step.

## 7. Running

    tlc -config Download_safe.cfg MCDownload      # likewise the other runs
    tlapm Download_proofs.tla                     # likewise the other *_proofs modules

The proofs of Download, BlockReceiver, KadLookup and KadTable are the long ones, a few minutes each.

`PROJECT.json` pairs each configuration with its module and each checked property with a
mutation of the model that breaks it.
