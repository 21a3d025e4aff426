----------------------------- MODULE SecureIdent -----------------------------
(***************************************************************************)
(* Secure identification (secure_ident.rs) on several connections that     *)
(* claim ONE userhash, and that userhash's credit record (credit_store.rs, *)
(* credits.rs, clients.met).  An inbound connection binds the key it has   *)
(* verified; an outbound one only earns the peer credit.  The key on file  *)
(* is read when a connection opens and the record is scored much later.    *)
(*                                                                         *)
(* An honest peer runs the same session at its end of a FIFO stream.  Any   *)
(* other peer sends what it likes: any key, ours too, any challenge, ours  *)
(* too, and any signature somebody makes or we made.  A v1 signature names *)
(* neither an address nor its bearer, and an owner that runs this code     *)
(* signs whatever key and challenge it is shown, so a signature may reach  *)
(* us through a peer that did not make it.                                 *)
(***************************************************************************)
EXTENDS Integers, Sequences, FiniteSets

CONSTANTS
    Conns,       \* connections, numbered; each opens once
    Inbound,     \* those that were accepted (the others we dialled)
    Supports,    \* those whose peer announced secure identification in its hello
    Honest,      \* those of them whose peer runs the protocol
    Keys,        \* public keys of peers
    OwnKey,      \* the key of the peer of a connection, where that peer is honest
    OurKey, NoKey,
    Block,       \* bytes a transfer counts at a time
    CREDIT_MIN_DOWNLOADED,
    MaxBytes,    \* where the counters saturate
    MaxStray,    \* bound: packets of a peer that is not honest
    MaxRestarts  \* bound

ASSUME IdentAssumption ==
    /\ Conns \subseteq Nat \ {0} /\ Inbound \subseteq Conns /\ Supports \subseteq Conns /\ Honest \subseteq Supports
    /\ OwnKey \in [Conns -> Keys]
    /\ OurKey \notin Keys /\ NoKey \notin Keys \cup {OurKey}
    /\ {Block, CREDIT_MIN_DOWNLOADED, MaxBytes, MaxStray, MaxRestarts} \subseteq Nat
    /\ 1 < CREDIT_MIN_DOWNLOADED

VARIABLES
    link,      \* link[c]: "new", "open" or "closed"
    arm,       \* arm[c]: what an open connection is to us: "peek" until it is
               \* classified, then "leech" or "source"; "fetch" if we dialled
    session,   \* session[c]: our SecureIdentSession
    theirs,    \* theirs[c]: the session of an honest peer
    in, out,   \* in[c], out[c]: packets under way from and to an honest peer
    credit,    \* the credit record of the userhash
    met,       \* the record as clients.met has it
    stray,     \* stray[c]: packets read from a peer that is not honest
    restarts,
    \* -- history
    signed,    \* signatures made so far that answer a challenge of ours
    since      \* bytes downloaded since the key was bound: now, and in clients.met

vars == <<link, arm, session, theirs, in, out, credit, met, stray, restarts, signed, since>>

-----------------------------------------------------------------------------
(* SecureIdentSession *)

KeyAndSign == 2  \* IS_KEYANDSIGNEEDED
SignOnly == 1    \* IS_SIGNATURENEEDED

State(wants, challenge) == [op |-> "state", wants |-> wants, challenge |-> challenge]
PublicKey(k) == [op |-> "key", key |-> k]
\* sign_v1: `by` signs the receiver's key together with the receiver's challenge.
Signature(by, key, challenge) == [op |-> "sig", by |-> by, key |-> key, challenge |-> challenge]

OurChallenge(c) == 2 * c
TheirChallenge(c) == 2 * c + 1
\* Those of ours a session waits for, and 1 for any other.
Challenges == {OurChallenge(c) : c \in Supports} \cup {1}

\* What proves to connection c that somebody has the private half of k.
Proof(k, c) == Signature(k, OurKey, OurChallenge(c))
Proofs == {Proof(k, c) : k \in Keys \cup {OurKey}, c \in Conns}

\* new, with_stored_key.  (peer_wants is written and never read.)
NewSession(own, challenge, stored) ==
    [our_pubkey |-> own, our_challenge |-> challenge, peer_challenge |-> 0,
     peer_pubkey |-> stored, key_is_on_file |-> stored # NoKey, sent_our_key |-> FALSE,
     sent_our_sig |-> FALSE, peer_verified |-> FALSE, verify_attempted |-> FALSE]

Start(s) == State(KeyAndSign, s.our_challenge)

\* Mutant: the request that came before the key is not made up for.
CanSignAtOnce(s) == ~s.sent_our_sig /\ s.peer_challenge # 0 /\ s.peer_pubkey # NoKey /\ ~s.sent_our_key
CanSign(s) == ~s.sent_our_sig /\ s.peer_challenge # 0 /\ s.peer_pubkey # NoKey

\* try_sign, behind the replies there are already.
TrySign(s, replies) ==
    IF CanSign(s)
    THEN [s |-> [s EXCEPT !.sent_our_sig = TRUE],
          out |-> Append(replies, Signature(s.our_pubkey, s.peer_pubkey, s.peer_challenge))]
    ELSE [s |-> s, out |-> replies]

OnState(s, p) ==
    LET tell == p.wants = KeyAndSign /\ ~s.sent_our_key
    IN  TrySign([s EXCEPT !.peer_challenge = p.challenge, !.sent_our_key = @ \/ tell],
                IF tell THEN <<PublicKey(s.our_pubkey)>> ELSE <<>>)

\* Mutant: the key just sent is preferred to the one on file.
OnKeyReplacing(s, p) == TrySign([s EXCEPT !.peer_pubkey = p.key], <<>>)

OnKey(s, p) == TrySign(IF s.key_is_on_file THEN s ELSE [s EXCEPT !.peer_pubkey = p.key], <<>>)

\* try_verify: one attempt, spent only once a key is held.
OnSignature(s, p) ==
    [s |-> IF s.peer_verified \/ s.verify_attempted \/ s.peer_pubkey = NoKey THEN s
           ELSE [s EXCEPT !.verify_attempted = TRUE,
                          !.peer_verified = p = Signature(s.peer_pubkey, s.our_pubkey, s.our_challenge)],
     out |-> <<>>]

\* on_packet.  (A malformed packet changes nothing.)
OnPacket(s, p) ==
    CASE p.op = "state" -> OnState(s, p)
      [] p.op = "key"   -> OnKey(s, p)
      [] p.op = "sig"   -> OnSignature(s, p)

-----------------------------------------------------------------------------
(* The credit record *)

NoRecord == [key |-> NoKey, uploaded |-> 0, downloaded |-> 0]
Add(n) == IF n + Block > MaxBytes THEN MaxBytes ELSE n + Block

\* Mutant: history survives a first bind.
BoundKeepsHistory(r, k) == IF r.key = NoKey THEN [r EXCEPT !.key = k] ELSE r

\* bind_verified: a first key wipes what was counted without one; it never changes.
Bound(r, k) ==
    IF r.key # NoKey THEN r
    ELSE IF r.downloaded > 0 THEN [key |-> k, uploaded |-> 1, downloaded |-> 1]
    ELSE [r EXCEPT !.key = k]

\* resolve_ident_state as leecher_score_key calls it, then score_ratio_ident: the
\* leecher ranks above the floor.
HasBonus(c) ==
    /\ arm[c] = "leech"
    /\ credit.key = NoKey \/ session[c].peer_verified
    /\ credit.downloaded >= CREDIT_MIN_DOWNLOADED /\ 2 * credit.downloaded > credit.uploaded

-----------------------------------------------------------------------------
(* Connections *)

FirstArm(c) == IF c \in Inbound THEN "peek" ELSE "fetch"
OurFirst(c) == NewSession(OurKey, OurChallenge(c), NoKey)
TheirFirst(c) == NewSession(OwnKey[c], TheirChallenge(c), NoKey)

\* The hello is done.  Between ends that support secure identification each sends
\* its challenge; an honest peer may have our key on file already.
Open(c, onfile) ==
    /\ link[c] = "new"
    /\ link' = [link EXCEPT ![c] = "open"]
    /\ session' = [session EXCEPT ![c] = NewSession(OurKey, OurChallenge(c), credit.key)]
    /\ theirs' = [theirs EXCEPT ![c] = NewSession(OwnKey[c], TheirChallenge(c), onfile)]
    /\ in' = [in EXCEPT ![c] = IF c \in Honest THEN <<Start(theirs'[c])>> ELSE <<>>]
    /\ out' = [out EXCEPT ![c] = IF c \in Honest THEN <<Start(session'[c])>> ELSE <<>>]
    /\ UNCHANGED <<arm, credit, met, stray, restarts, signed, since>>

\* classify_inbound: the peer asks for a file, and takes its session along.
FileRequest(c) ==
    /\ link[c] = "open" /\ arm[c] = "peek"
    /\ arm' = [arm EXCEPT ![c] = "leech"]
    /\ UNCHANGED <<link, session, theirs, in, out, credit, met, stray, restarts, signed, since>>

\* classify_inbound: nothing came for the length of a peek, whatever is under way.
\* A called-back source; its session is dropped and the same link goes on without.
Quiet(c) ==
    /\ link[c] = "open" /\ arm[c] = "peek"
    /\ arm' = [arm EXCEPT ![c] = "source"]
    /\ session' = [session EXCEPT ![c] = OurFirst(c)]
    /\ UNCHANGED <<link, theirs, in, out, credit, met, stray, restarts, signed, since>>

\* Mutant: the sink fires with the first key that is held.
FiresUnverified(c, s) == c \in Inbound /\ session[c].peer_pubkey = NoKey /\ s.peer_pubkey # NoKey
\* ServeSec::drive fires its sink once, with the key that was verified.
Fires(c, s) == c \in Inbound /\ s.peer_verified /\ ~session[c].peer_verified

ProofsIn(packets) == {packets[i] : i \in DOMAIN packets} \cap Proofs

\* We read p on connection c: ServeSec::drive on an inbound connection,
\* handle_aux_packet on an outbound one.
Read(c, p) ==
    LET r == OnPacket(session[c], p) IN
    /\ session' = [session EXCEPT ![c] = r.s]
    /\ out' = IF c \in Honest THEN [out EXCEPT ![c] = @ \o r.out] ELSE out
    /\ credit' = IF Fires(c, r.s) THEN Bound(credit, r.s.peer_pubkey) ELSE credit
    /\ since' = IF credit'.key # credit.key THEN [since EXCEPT !.now = 0] ELSE since
    /\ signed' = signed \cup ProofsIn(<<p>>) \cup ProofsIn(r.out)
    /\ UNCHANGED <<link, arm, theirs, met, restarts>>

\* What an honest peer sent.
Receive(c) ==
    /\ link[c] = "open" /\ arm[c] # "source" /\ in[c] # <<>>
    /\ Read(c, Head(in[c]))
    /\ in' = [in EXCEPT ![c] = Tail(@)]
    /\ UNCHANGED stray

\* handle_aux_packet without a session.
Ignore(c) ==
    /\ link[c] = "open" /\ arm[c] = "source" /\ in[c] # <<>>
    /\ in' = [in EXCEPT ![c] = Tail(@)]
    /\ UNCHANGED <<link, arm, session, theirs, out, credit, met, stray, restarts, signed, since>>

\* What any other peer may have sent by now: any key and any challenge, its own,
\* another's or ours; a signature by any key over our challenge or a stale one, made
\* by itself or by an owner that was shown our key and the challenge; and one that
\* was made for another connection, or by us.
StrayPackets(c) ==
    {State(w, h) : w \in {KeyAndSign, SignOnly}, h \in Challenges}
    \cup {PublicKey(k) : k \in Keys \cup {OurKey}}
    \cup {Signature(k, OurKey, h) : k \in Keys, h \in {OurChallenge(c), 1}}
    \cup signed

Stray(c, p) ==
    /\ c \in Supports \ Honest /\ stray[c] < MaxStray
    /\ link[c] = "open" /\ arm[c] # "source"
    /\ Read(c, p)
    /\ stray' = [stray EXCEPT ![c] = @ + 1]
    /\ UNCHANGED in

\* The honest peer reads one of ours.
PeerReceives(c) ==
    /\ c \in Honest /\ link[c] = "open" /\ out[c] # <<>>
    /\ LET r == OnPacket(theirs[c], Head(out[c])) IN
       /\ theirs' = [theirs EXCEPT ![c] = r.s]
       /\ out' = [out EXCEPT ![c] = Tail(@)]
       /\ in' = [in EXCEPT ![c] = @ \o r.out]
       /\ signed' = signed \cup ProofsIn(r.out)
    /\ UNCHANGED <<link, arm, session, credit, met, stray, restarts, since>>

\* A block came from a peer we dialled or that was called back; nothing about its
\* identity is asked.
AddDownloaded(c) ==
    /\ link[c] = "open" /\ arm[c] \in {"fetch", "source"} /\ credit.downloaded < MaxBytes
    /\ credit' = [credit EXCEPT !.downloaded = Add(@)]
    /\ since' = [since EXCEPT !.now = Add(@)]
    /\ UNCHANGED <<link, arm, session, theirs, in, out, met, stray, restarts, signed>>

\* A block went to a leecher.
AddUploaded(c) ==
    /\ link[c] = "open" /\ arm[c] = "leech" /\ credit.uploaded < MaxBytes
    /\ credit' = [credit EXCEPT !.uploaded = Add(@)]
    /\ UNCHANGED <<link, arm, session, theirs, in, out, met, stray, restarts, signed, since>>

\* Connections end, for whatever reason, and their sessions with them.
Drop(cs) ==
    /\ link' = [c \in Conns |-> IF c \in cs THEN "closed" ELSE link[c]]
    /\ arm' = [c \in Conns |-> IF c \in cs THEN FirstArm(c) ELSE arm[c]]
    /\ stray' = [c \in Conns |-> IF c \in cs THEN 0 ELSE stray[c]]
    /\ session' = [c \in Conns |-> IF c \in cs THEN OurFirst(c) ELSE session[c]]
    /\ theirs' = [c \in Conns |-> IF c \in cs THEN TheirFirst(c) ELSE theirs[c]]
    /\ in' = [c \in Conns |-> IF c \in cs THEN <<>> ELSE in[c]]
    /\ out' = [c \in Conns |-> IF c \in cs THEN <<>> ELSE out[c]]

Close(c) ==
    /\ link[c] = "open"
    /\ Drop({c})
    /\ UNCHANGED <<credit, met, restarts, signed, since>>

-----------------------------------------------------------------------------
(* clients.met *)

\* The checkpoint of a pause; a record without traffic is not written, key or no.
Save ==
    /\ met' = IF credit.uploaded = 0 /\ credit.downloaded = 0 THEN NoRecord ELSE credit
    /\ since' = [since EXCEPT !.saved = since.now]
    /\ UNCHANGED <<link, arm, session, theirs, in, out, credit, stray, restarts, signed>>

\* The app is killed or quits, and starts again from clients.met; a record that
\* was last seen too long ago is dropped.
Restart(expired) ==
    /\ restarts < MaxRestarts
    /\ restarts' = restarts + 1
    /\ credit' = IF expired THEN NoRecord ELSE met
    /\ since' = [since EXCEPT !.now = since.saved]
    /\ Drop({c \in Conns : link[c] = "open"})
    /\ UNCHANGED <<met, signed>>

-----------------------------------------------------------------------------
Init ==
    /\ link = [c \in Conns |-> "new"]
    /\ arm = [c \in Conns |-> FirstArm(c)]
    /\ session = [c \in Conns |-> OurFirst(c)] /\ theirs = [c \in Conns |-> TheirFirst(c)]
    /\ in = [c \in Conns |-> <<>>] /\ out = [c \in Conns |-> <<>>]
    /\ credit = NoRecord /\ met = NoRecord
    /\ stray = [c \in Conns |-> 0] /\ restarts = 0
    /\ signed = {} /\ since = [now |-> 0, saved |-> 0]

Next ==
    \/ \E c \in Conns :
          \/ \E k \in (IF c \in Honest THEN {NoKey, OurKey} ELSE {NoKey}) : Open(c, k)
          \/ FileRequest(c) \/ Quiet(c)
          \/ Receive(c) \/ Ignore(c) \/ PeerReceives(c)
          \/ \E p \in StrayPackets(c) : Stray(c, p)
          \/ AddDownloaded(c) \/ AddUploaded(c) \/ Close(c)
    \/ Save
    \/ \E expired \in BOOLEAN : Restart(expired)

Spec == Init /\ [][Next]_vars

\* What is on the stream is read at either end.
FairSpec == Spec /\ \A c \in Conns : WF_vars(Receive(c)) /\ WF_vars(PeerReceives(c))

Record == [key: Keys \cup {OurKey, NoKey}, uploaded: 0 .. MaxBytes, downloaded: 0 .. MaxBytes]

TypeOK ==
    /\ link \in [Conns -> {"new", "open", "closed"}]
    /\ arm \in [Conns -> {"peek", "leech", "source", "fetch"}]
    /\ \A c \in Conns :
          /\ session[c].peer_pubkey \in Keys \cup {OurKey, NoKey}
          /\ theirs[c].peer_pubkey \in {OurKey, NoKey}
          /\ session[c].our_challenge = OurChallenge(c)
          /\ Len(in[c]) <= 3 /\ Len(out[c]) <= 3
    /\ credit \in Record /\ met \in Record
    /\ stray \in [Conns -> 0 .. MaxStray] /\ restarts \in 0 .. MaxRestarts
    /\ signed \subseteq Proofs /\ since \in [now: 0 .. MaxBytes, saved: 0 .. MaxBytes]

-----------------------------------------------------------------------------
(* Properties *)

\* A key is bound, or saved as bound, only if its private half signed our key with
\* the challenge of an accepted connection: whoever relayed that signature, and be
\* it our own that was sent back to us, no peer gets a key bound by naming it
\* (ServeSec::drive, try_verify, bind_verified).  (The types come first.)
BoundIsProven ==
    /\ TypeOK
    /\ \A k \in {credit.key, met.key} \ {NoKey} : \E c \in Inbound : Proof(k, c) \in signed

\* No credit counted for an unproven userhash outlives the binding of a key, over
\* saves and restarts: all a bound record has above one byte was given since.
NothingInherited == credit.key # NoKey => credit.downloaded <= since.now + 1

\* A leecher that opened its connection when the userhash had a key ranks above the
\* floor only if the private half of THAT key signed the challenge of this very
\* connection: no key the peer sends later, and no signature of an earlier
\* connection, will do (with_stored_key, resolve_ident_state).  It need not be the
\* peer itself that signed.
BonusNeedsTheKey ==
    \A c \in Conns :
        link[c] = "open" /\ session[c].key_is_on_file /\ HasBonus(c) => Proof(credit.key, c) \in signed

\* The deferred signatures, the discarded key and the single attempt do not get
\* in the way of an honest peer: unless the connection ends, another key is on
\* file, or a peek passes in silence and makes the peer a called-back source, each
\* end comes to know the other.
HonestIsKnown ==
    \A c \in Honest :
        (link[c] = "open" /\ session[c].peer_pubkey \in {NoKey, OwnKey[c]})
            ~> \/ link[c] = "closed" \/ arm[c] = "source"
               \/ session[c].peer_verified /\ theirs[c].peer_verified
==============================================================================
