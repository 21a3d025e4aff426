------------------------- MODULE SecureIdent_proofs -------------------------
(* Proofs about module SecureIdent, for any connections, peers and keys. *)
EXTENDS SecureIdent, SequenceTheorems, TLAPS

AllKeys == Keys \cup {OurKey}

\* A session at the end that owns key `own`, whose other end sends `peers`' keys.
SessionOf(own, challenge, peers) ==
    [our_pubkey: {own}, our_challenge: {challenge}, peer_challenge: Nat,
     peer_pubkey: peers \cup {NoKey}, key_is_on_file: BOOLEAN, sent_our_key: BOOLEAN,
     sent_our_sig: BOOLEAN, peer_verified: BOOLEAN, verify_attempted: BOOLEAN]

\* What a peer that sends these keys, and signatures by them, puts on the stream.
Packets(keys) ==
    [op: {"state"}, wants: {KeyAndSign, SignOnly}, challenge: Nat]
    \cup [op: {"key"}, key: keys]
    \cup [op: {"sig"}, by: keys, key: AllKeys, challenge: Nat]

\* Keys and signatures a session has sent: each once.
SentBy(s) == (IF s.sent_our_key THEN 1 ELSE 0) + (IF s.sent_our_sig THEN 1 ELSE 0)

\* Room for what an honest end has under way: its challenge and what its session has
\* sent since; and for what we have under way, all of it once our session is dropped.
Room(c, s) == IF c \in Honest THEN 1 + SentBy(s) ELSE 0
OurRoom(c, s, a) == IF c \in Honest /\ a = "source" THEN 3 ELSE Room(c, s)

\* The sessions, and what is under way, at every connection.
SessionsTyped ==
    \A c \in Conns :
        /\ session[c] \in SessionOf(OurKey, OurChallenge(c), AllKeys)
        /\ theirs[c] \in SessionOf(OwnKey[c], TheirChallenge(c), {OurKey})
        /\ in[c] \in Seq(Packets(AllKeys))
        /\ out[c] \in Seq(Packets({OurKey}))
        /\ Len(in[c]) <= Room(c, theirs[c])
        /\ Len(out[c]) <= OurRoom(c, session[c], arm[c])

Types ==
    /\ link \in [Conns -> {"new", "open", "closed"}]
    /\ arm \in [Conns -> {"peek", "leech", "source", "fetch"}]
    /\ DOMAIN session = Conns /\ DOMAIN theirs = Conns /\ DOMAIN in = Conns /\ DOMAIN out = Conns
    /\ credit \in Record /\ met \in Record
    /\ stray \in [Conns -> 0 .. MaxStray] /\ restarts \in 0 .. MaxRestarts
    /\ signed \subseteq Proofs /\ since \in [now: 0 .. MaxBytes, saved: 0 .. MaxBytes]

\* The private half of k answered the challenge of an accepted connection.
Earned(k) == \E c \in Inbound : Proof(k, c) \in signed

\* The record, in memory and on disk, is bound to a signed key and counts
\* nothing from before.
RecordEarned ==
    /\ credit.key # NoKey => Earned(credit.key)
    /\ met.key # NoKey => Earned(met.key)
    /\ credit.key # NoKey => credit.downloaded <= since.now + 1
    /\ met.key # NoKey => met.downloaded <= since.saved + 1

\* A session that was opened with the key on file keeps to that key, and so does
\* the record while the connection is open.
OnFileIsBound ==
    \A c \in Conns : session[c].key_is_on_file =>
        /\ link[c] = "open"
        /\ credit.key # NoKey /\ session[c].peer_pubkey = credit.key
        /\ session[c].peer_verified => Proof(session[c].peer_pubkey, c) \in signed

IdentInv == Types /\ SessionsTyped /\ RecordEarned /\ OnFileIsBound

-----------------------------------------------------------------------------
\* The constants are what the sessions are made of.
LEMMA KeysApart ==
    /\ OurKey \in AllKeys /\ NoKey \notin AllKeys /\ {OurKey} \subseteq AllKeys
    /\ \A c \in Conns : /\ OwnKey[c] \in AllKeys
                        /\ OurChallenge(c) \in Nat /\ TheirChallenge(c) \in Nat
BY IdentAssumption DEF AllKeys, OurChallenge, TheirChallenge

\* Each of the two is sent or not.
LEMMA SentByCounts ==
    ASSUME NEW s PROVE SentBy(s) \in Nat /\ SentBy(s) <= 2
BY DEF SentBy

\* try_sign sends at most one signature, with the session's own key.
LEMMA TrySignSends ==
    ASSUME NEW own \in AllKeys, NEW challenge \in Nat, NEW peers \in SUBSET AllKeys,
           NEW s \in SessionOf(own, challenge, peers),
           NEW replies \in Seq(Packets({own})),
           NEW r, r = TrySign(s, replies)
    PROVE  /\ r.s \in SessionOf(own, challenge, peers)
           /\ r.s.key_is_on_file = s.key_is_on_file /\ r.s.peer_pubkey = s.peer_pubkey
           /\ r.s.peer_verified = s.peer_verified
           /\ r.out \in Seq(Packets({own}))
           /\ Len(r.out) + SentBy(s) <= Len(replies) + SentBy(r.s)
<1>1. CASE CanSign(s)
  <2>1. Signature(s.our_pubkey, s.peer_pubkey, s.peer_challenge) \in Packets({own})
    BY <1>1 DEF SessionOf, Packets, Signature, CanSign
  <2>2. r.s = [s EXCEPT !.sent_our_sig = TRUE] /\ ~s.sent_our_sig
    BY <1>1 DEF TrySign, CanSign
  <2>3. r.out = Append(replies, Signature(s.our_pubkey, s.peer_pubkey, s.peer_challenge))
    BY <1>1 DEF TrySign
  <2>4. r.out \in Seq(Packets({own})) /\ Len(r.out) = Len(replies) + 1 /\ Len(replies) \in Nat
    BY <2>1, <2>3
  <2>5. /\ r.s \in SessionOf(own, challenge, peers)
        /\ r.s.key_is_on_file = s.key_is_on_file /\ r.s.peer_pubkey = s.peer_pubkey
        /\ r.s.peer_verified = s.peer_verified
        /\ r.s.sent_our_key = s.sent_our_key /\ r.s.sent_our_sig = TRUE
    BY <2>2 DEF SessionOf
  <2>6. SentBy(r.s) = SentBy(s) + 1
    BY <2>2, <2>5 DEF SentBy
  <2> QED
    BY <2>4, <2>5, <2>6, SentByCounts
<1>2. CASE ~CanSign(s)
  <2>1. r.s = s /\ r.out = replies
    BY <1>2 DEF TrySign
  <2> QED
    BY <2>1, SentByCounts
<1> QED
  BY <1>1, <1>2

\* What a session does with any packet (on_packet): it keeps to a key on file, it
\* verifies only what proves its key, and it sends its key and its signature once.
LEMMA OnPacketDoes ==
    ASSUME NEW own \in AllKeys, NEW challenge \in Nat, NEW peers \in SUBSET AllKeys,
           NEW s \in SessionOf(own, challenge, peers), NEW p \in Packets(peers),
           NEW r, r = OnPacket(s, p)
    PROVE  /\ r.s \in SessionOf(own, challenge, peers)
           /\ r.out \in Seq(Packets({own}))
           /\ Len(r.out) + SentBy(s) <= SentBy(r.s)
           /\ r.s.key_is_on_file = s.key_is_on_file
           /\ s.key_is_on_file => r.s.peer_pubkey = s.peer_pubkey
           /\ r.s.peer_verified /\ ~s.peer_verified =>
                p = Signature(r.s.peer_pubkey, own, challenge) /\ r.s.peer_pubkey # NoKey
<1>0. <<>> \in Seq(Packets({own})) /\ Len(<<>>) = 0
  OBVIOUS
<1>1. CASE p \in [op: {"state"}, wants: {KeyAndSign, SignOnly}, challenge: Nat]
  <2> DEFINE tell == p.wants = KeyAndSign /\ ~s.sent_our_key
             t == [s EXCEPT !.peer_challenge = p.challenge, !.sent_our_key = @ \/ tell]
             replies == IF tell THEN <<PublicKey(s.our_pubkey)>> ELSE <<>>
  <2>1. r = TrySign(t, replies)
    BY <1>1 DEF OnPacket, OnState
  <2>2. /\ t \in SessionOf(own, challenge, peers)
        /\ t.key_is_on_file = s.key_is_on_file /\ t.peer_pubkey = s.peer_pubkey
        /\ t.peer_verified = s.peer_verified /\ t.sent_our_sig = s.sent_our_sig
        /\ t.sent_our_key = (s.sent_our_key \/ tell)
    BY <1>1 DEF SessionOf
  <2> HIDE DEF t
  <2>3. PublicKey(s.our_pubkey) \in Packets({own})
    BY DEF Packets, PublicKey, SessionOf
  <2>4. replies \in Seq(Packets({own})) /\ Len(replies) + SentBy(s) <= SentBy(t)
    <3>1. CASE tell
      <4>1. replies = <<PublicKey(s.our_pubkey)>>
        BY <3>1
      <4>2. replies \in Seq(Packets({own})) /\ Len(replies) = 1
        <5> HIDE DEF replies
        <5> QED
          BY <2>3, <4>1
      <4>3. t.sent_our_key /\ ~s.sent_our_key /\ t.sent_our_sig = s.sent_our_sig
        BY <2>2, <3>1
      <4>4. SentBy(t) = 1 + SentBy(s)
        BY <4>3 DEF SentBy
      <4> QED
        BY <4>2, <4>4, SentByCounts
    <3>2. CASE ~tell
      <4>1. replies = <<>>
        BY <3>2
      <4>2. SentBy(t) = SentBy(s)
        BY <2>2, <3>2 DEF SentBy
      <4> QED
        BY <1>0, <4>1, <4>2, SentByCounts
    <3> QED
      BY <3>1, <3>2
  <2>5. Len(replies) \in Nat
    BY <2>4
  <2> HIDE DEF replies
  <2>6. /\ r.s \in SessionOf(own, challenge, peers)
        /\ r.s.key_is_on_file = t.key_is_on_file /\ r.s.peer_pubkey = t.peer_pubkey
        /\ r.s.peer_verified = t.peer_verified
        /\ r.out \in Seq(Packets({own}))
        /\ Len(r.out) + SentBy(t) <= Len(replies) + SentBy(r.s)
    BY <2>1, <2>2, <2>4, TrySignSends
  <2>7. Len(r.out) \in Nat
    BY <2>6
  <2>8. Len(r.out) + SentBy(s) <= SentBy(r.s)
    BY <2>4, <2>5, <2>6, <2>7, SentByCounts
  <2> QED
    BY <2>2, <2>6, <2>8
<1>2. CASE p \in [op: {"key"}, key: peers]
  <2> DEFINE t == IF s.key_is_on_file THEN s ELSE [s EXCEPT !.peer_pubkey = p.key]
  <2>1. r = TrySign(t, <<>>)
    BY <1>2 DEF OnPacket, OnKey
  <2>2. /\ t \in SessionOf(own, challenge, peers)
        /\ t.key_is_on_file = s.key_is_on_file /\ t.peer_verified = s.peer_verified
        /\ s.key_is_on_file => t.peer_pubkey = s.peer_pubkey
        /\ t.sent_our_key = s.sent_our_key /\ t.sent_our_sig = s.sent_our_sig
    BY <1>2 DEF SessionOf
  <2> HIDE DEF t
  <2>3. SentBy(t) = SentBy(s)
    BY <2>2 DEF SentBy
  <2>4. /\ r.s \in SessionOf(own, challenge, peers)
        /\ r.s.key_is_on_file = t.key_is_on_file /\ r.s.peer_pubkey = t.peer_pubkey
        /\ r.s.peer_verified = t.peer_verified
        /\ r.out \in Seq(Packets({own}))
        /\ Len(r.out) + SentBy(t) <= Len(<<>>) + SentBy(r.s)
    BY <1>0, <2>1, <2>2, TrySignSends
  <2>5. Len(r.out) + SentBy(s) <= SentBy(r.s)
    BY <1>0, <2>3, <2>4, SentByCounts
  <2> QED
    BY <2>2, <2>4, <2>5
<1>3. CASE p \in [op: {"sig"}, by: peers, key: AllKeys, challenge: Nat]
  <2> DEFINE ok == p = Signature(s.peer_pubkey, s.our_pubkey, s.our_challenge)
             t == [s EXCEPT !.verify_attempted = TRUE, !.peer_verified = ok]
  <2>1. r.out = <<>> /\ (r.s = s \/ (r.s = t /\ s.peer_pubkey # NoKey))
    BY <1>3 DEF OnPacket, OnSignature
  <2>2. /\ t \in SessionOf(own, challenge, peers)
        /\ t.key_is_on_file = s.key_is_on_file /\ t.peer_pubkey = s.peer_pubkey
        /\ t.sent_our_key = s.sent_our_key /\ t.sent_our_sig = s.sent_our_sig
        /\ t.peer_verified = ok
    BY DEF SessionOf
  <2>3. ok => p = Signature(s.peer_pubkey, own, challenge)
    BY DEF SessionOf
  <2> HIDE DEF t, ok
  <2>4. SentBy(t) = SentBy(s)
    BY <2>2 DEF SentBy
  <2> QED
    BY <1>0, <2>1, <2>2, <2>3, <2>4, SentByCounts
<1> QED
  BY <1>1, <1>2, <1>3 DEF Packets

-----------------------------------------------------------------------------
(* One lemma per action *)

\* The length of any stream.
LEMMA LengthIsNat == ASSUME NEW P, NEW q \in Seq(P) PROVE Len(q) \in Nat
OBVIOUS

\* A new session at either end.
LEMMA FreshSessions ==
    ASSUME NEW c \in Conns, NEW k \in AllKeys \cup {NoKey}, NEW onfile \in {OurKey, NoKey}
    PROVE  /\ NewSession(OurKey, OurChallenge(c), k) \in SessionOf(OurKey, OurChallenge(c), AllKeys)
           /\ NewSession(OwnKey[c], TheirChallenge(c), onfile)
                \in SessionOf(OwnKey[c], TheirChallenge(c), {OurKey})
           /\ NewSession(OurKey, OurChallenge(c), k).key_is_on_file = (k # NoKey)
           /\ NewSession(OurKey, OurChallenge(c), k).peer_pubkey = k
           /\ NewSession(OurKey, OurChallenge(c), k).peer_verified = FALSE
BY KeysApart DEF NewSession, SessionOf

\* A connection opens, each honest end with its challenge under way.
LEMMA OpenKeeps ==
    ASSUME IdentInv, NEW c \in Conns, NEW onfile \in {OurKey, NoKey}, Open(c, onfile)
    PROVE  IdentInv'
<1> USE DEF IdentInv
<1> DEFINE ours == NewSession(OurKey, OurChallenge(c), credit.key)
           peer == NewSession(OwnKey[c], TheirChallenge(c), onfile)
<1>0. credit.key \in AllKeys \cup {NoKey}
  BY DEF Types, Record, AllKeys
<1>1. /\ ours \in SessionOf(OurKey, OurChallenge(c), AllKeys)
      /\ peer \in SessionOf(OwnKey[c], TheirChallenge(c), {OurKey})
      /\ ours.key_is_on_file = (credit.key # NoKey)
      /\ ours.peer_pubkey = credit.key /\ ours.peer_verified = FALSE
  BY <1>0, FreshSessions
<1> HIDE DEF ours, peer
<1>2. /\ session' = [session EXCEPT ![c] = ours] /\ theirs' = [theirs EXCEPT ![c] = peer]
      /\ session'[c] = ours /\ theirs'[c] = peer
      /\ UNCHANGED <<arm, credit, met, stray, restarts, signed, since>>
  BY DEF Open, Types, ours, peer
<1>3. /\ Start(ours) \in Packets({OurKey})
      /\ Start(peer) \in Packets(AllKeys)
  BY <1>1, KeysApart DEF Start, State, Packets, SessionOf
<1>4. ASSUME NEW P, NEW q \in P PROVE <<q>> \in Seq(P) /\ Len(<<q>>) = 1
  OBVIOUS
<1>5. /\ in'[c] \in Seq(Packets(AllKeys)) /\ Len(in'[c]) <= (IF c \in Honest THEN 1 ELSE 0)
      /\ out'[c] \in Seq(Packets({OurKey}))
      /\ Len(out'[c]) <= (IF c \in Honest THEN 1 ELSE 0)
  <2>1. CASE c \in Honest
    <3>1. in'[c] = <<Start(peer)>> /\ out'[c] = <<Start(ours)>>
      BY <1>2, <2>1 DEF Open, Types
    <3> QED
      BY <1>3, <1>4, <2>1, <3>1
  <2>2. CASE c \notin Honest
    <3>1. in'[c] = <<>> /\ out'[c] = <<>>
      BY <2>2 DEF Open, Types
    <3> QED
      BY <2>2, <3>1
  <2> QED
    BY <2>1, <2>2
<1>6. Types'
  BY <1>2 DEF Types, Open
<1>7. SessionsTyped'
  <2> SUFFICES ASSUME NEW d \in Conns
               PROVE  /\ session'[d] \in SessionOf(OurKey, OurChallenge(d), AllKeys)
                      /\ theirs'[d] \in SessionOf(OwnKey[d], TheirChallenge(d), {OurKey})
                      /\ in'[d] \in Seq(Packets(AllKeys))
                      /\ out'[d] \in Seq(Packets({OurKey}))
                      /\ Len(in'[d]) <= Room(d, theirs'[d])
                      /\ Len(out'[d]) <= OurRoom(d, session'[d], arm'[d])
    BY DEF SessionsTyped
  <2>1. CASE d = c
    <3>1. Len(in'[c]) \in Nat /\ Len(out'[c]) \in Nat
      BY <1>5, LengthIsNat
    <3> QED
      BY <1>1, <1>2, <1>5, <2>1, <3>1, SentByCounts DEF Room, OurRoom
  <2>2. CASE d # c
    <3>1. session'[d] = session[d] /\ theirs'[d] = theirs[d] /\ in'[d] = in[d] /\ out'[d] = out[d]
      BY <2>2 DEF Open, Types
    <3> QED
      BY <1>2, <3>1 DEF SessionsTyped
  <2> QED
    BY <2>1, <2>2
<1>8. RecordEarned'
  BY <1>2 DEF RecordEarned, Earned
<1>9. OnFileIsBound'
  <2>1. link' = [link EXCEPT ![c] = "open"]
    BY DEF Open
  <2> QED
    BY <1>1, <1>2, <2>1 DEF OnFileIsBound, Types
<1> QED
  BY <1>6, <1>7, <1>8, <1>9

\* A signature of ours can only bind a key that was signed (ServeSec::drive,
\* bind_verified), and binding leaves at most a byte of what was counted before.
LEMMA BoundEarns ==
    ASSUME NEW r \in Record, NEW k \in AllKeys, NEW b, b = Bound(r, k)
    PROVE  /\ b \in Record
           /\ r.key # NoKey => b = r
           /\ r.key = NoKey => b.key = k /\ b.downloaded <= 1
<1>1. CASE r.key # NoKey
  BY <1>1 DEF Bound
<1>2. CASE r.key = NoKey /\ r.downloaded > 0
  <2>1. b = [key |-> k, uploaded |-> 1, downloaded |-> 1]
    BY <1>2 DEF Bound
  <2>2. 1 \in 0 .. MaxBytes
    BY <1>2, IdentAssumption DEF Record
  <2> QED
    BY <1>2, <2>1, <2>2 DEF Record, AllKeys
<1>3. CASE r.key = NoKey /\ ~(r.downloaded > 0)
  <2>1. b = [r EXCEPT !.key = k]
    BY <1>3 DEF Bound
  <2>2. r.downloaded = 0
    BY <1>3, IdentAssumption DEF Record
  <2> QED
    BY <1>3, <2>1, <2>2 DEF Record, AllKeys
<1> QED
  BY <1>1, <1>2, <1>3

\* Reading the head of a stream.
LEMMA ReadOne ==
    ASSUME NEW P, NEW q \in Seq(P), q # <<>>
    PROVE  /\ Head(q) \in P /\ Tail(q) \in Seq(P)
           /\ Len(Tail(q)) = Len(q) - 1 /\ Len(q) \in Nat
OBVIOUS

\* Reading the head of a peer's stream.
LEMMA ReadTheHead ==
    ASSUME NEW keys, NEW q \in Seq(Packets(keys)), q # <<>>
    PROVE  /\ Head(q) \in Packets(keys) /\ Tail(q) \in Seq(Packets(keys))
           /\ Len(Tail(q)) = Len(q) - 1 /\ Len(q) \in Nat
<1> DEFINE P == Packets(keys)
<1>1. q \in Seq(P)
  OBVIOUS
<1> HIDE DEF P
<1>2. Head(q) \in P /\ Tail(q) \in Seq(P) /\ Len(Tail(q)) = Len(q) - 1 /\ Len(q) \in Nat
  BY <1>1, ReadOne
<1> QED
  BY <1>2 DEF P

\* Two streams, one after the other.
LEMMA JoinStreams ==
    ASSUME NEW P, NEW Q, Q \subseteq P, NEW q \in Seq(P), NEW u \in Seq(Q)
    PROVE  /\ q \o u \in Seq(P) /\ Len(q \o u) = Len(q) + Len(u)
           /\ Len(q) \in Nat /\ Len(u) \in Nat
<1>1. u \in Seq(P)
  BY SeqMonotonic
<1> QED
  BY <1>1

\* What is sent is paid for by what the session has sent since.
LEMMA SentFits ==
    ASSUME NEW a \in Nat, NEW b \in Nat, NEW x \in Nat, NEW y \in Nat, a <= 1 + x, b + x <= y
    PROVE  a + b <= 1 + y
OBVIOUS

\* What proves a key is kept when it is read, and is among the proofs.
LEMMA ProofIsKept ==
    ASSUME NEW c \in Conns, NEW k \in AllKeys
    PROVE  Proof(k, c) \in ProofsIn(<<Proof(k, c)>>)
<1> DEFINE p == Proof(k, c)
<1>1. p \in Proofs
  BY DEF Proofs, AllKeys
<1> HIDE DEF p
<1>2. p \in {<<p>>[i] : i \in DOMAIN <<p>>}
  <2>1. 1 \in DOMAIN <<p>> /\ <<p>>[1] = p
    OBVIOUS
  <2> QED
    BY <2>1
<1>3. p \in ProofsIn(<<p>>)
  BY <1>1, <1>2 DEF ProofsIn
<1> QED
  BY <1>3 DEF p

\* Reading any packet at all on any connection that has a session.
LEMMA ReadKeeps ==
    ASSUME IdentInv, NEW c \in Conns, NEW p \in Packets(AllKeys), Read(c, p),
           arm[c] # "source", link[c] = "open"
    PROVE  /\ credit' \in Record /\ signed' \subseteq Proofs
           /\ since' \in [now: 0 .. MaxBytes, saved: 0 .. MaxBytes]
           /\ DOMAIN session' = Conns /\ DOMAIN out' = Conns
           /\ \A d \in Conns :
                 /\ session'[d] \in SessionOf(OurKey, OurChallenge(d), AllKeys)
                 /\ out'[d] \in Seq(Packets({OurKey}))
                 /\ Len(out'[d]) <= OurRoom(d, session'[d], arm'[d])
           /\ RecordEarned' /\ OnFileIsBound'
<1> USE DEF IdentInv
<1> DEFINE r == OnPacket(session[c], p)
<1>0. /\ session[c] \in SessionOf(OurKey, OurChallenge(c), AllKeys)
      /\ out[c] \in Seq(Packets({OurKey}))
      /\ Len(out[c]) <= Room(c, session[c])
  BY DEF SessionsTyped, OurRoom
<1>2. /\ r.s \in SessionOf(OurKey, OurChallenge(c), AllKeys)
      /\ r.out \in Seq(Packets({OurKey}))
      /\ Len(r.out) + SentBy(session[c]) <= SentBy(r.s)
      /\ r.s.key_is_on_file = session[c].key_is_on_file
      /\ session[c].key_is_on_file => r.s.peer_pubkey = session[c].peer_pubkey
      /\ r.s.peer_verified /\ ~session[c].peer_verified =>
            p = Signature(r.s.peer_pubkey, OurKey, OurChallenge(c)) /\ r.s.peer_pubkey # NoKey
  <2>1. AllKeys \in SUBSET AllKeys /\ OurKey \in AllKeys /\ OurChallenge(c) \in Nat
    BY KeysApart
  <2> HIDE DEF r
  <2> QED
    BY <1>0, <2>1, OnPacketDoes DEF r
<1>3. /\ session' = [session EXCEPT ![c] = r.s]
      /\ out' = IF c \in Honest THEN [out EXCEPT ![c] = @ \o r.out] ELSE out
      /\ credit' = IF Fires(c, r.s) THEN Bound(credit, r.s.peer_pubkey) ELSE credit
      /\ since' = IF credit'.key # credit.key THEN [since EXCEPT !.now = 0] ELSE since
      /\ signed' = signed \cup ProofsIn(<<p>>) \cup ProofsIn(r.out)
      /\ UNCHANGED <<link, arm, theirs, met, restarts>>
  BY DEF Read
<1> HIDE DEF r
<1>4. /\ session'[c] = r.s
      /\ out'[c] = IF c \in Honest THEN out[c] \o r.out ELSE out[c]
  BY <1>3 DEF Types
<1>5. r.s.peer_pubkey \in AllKeys \cup {NoKey}
  BY <1>2 DEF SessionOf
<1>6. r.s.peer_verified /\ ~session[c].peer_verified =>
          r.s.peer_pubkey \in AllKeys /\ Proof(r.s.peer_pubkey, c) \in signed'
  <2> SUFFICES ASSUME r.s.peer_verified, ~session[c].peer_verified
               PROVE  r.s.peer_pubkey \in AllKeys /\ Proof(r.s.peer_pubkey, c) \in signed'
    OBVIOUS
  <2>1. r.s.peer_pubkey \in AllKeys /\ p = Proof(r.s.peer_pubkey, c)
    BY <1>2, <1>5 DEF Proof
  <2>2. p \in ProofsIn(<<p>>)
    BY <2>1, ProofIsKept
  <2> QED
    BY <1>3, <2>1, <2>2
<1>7. /\ credit' \in Record
      /\ credit.key # NoKey => credit' = credit
      /\ \/ credit' = credit
         \/ /\ credit.key = NoKey /\ credit'.key # NoKey /\ credit'.downloaded <= 1
            /\ c \in Inbound /\ Proof(credit'.key, c) \in signed'
  <2>1. CASE Fires(c, r.s)
    <3>1. credit' = Bound(credit, r.s.peer_pubkey)
      BY <1>3, <2>1
    <3>2. r.s.peer_pubkey \in AllKeys /\ Proof(r.s.peer_pubkey, c) \in signed' /\ c \in Inbound
      BY <1>6, <2>1 DEF Fires
    <3>3. credit \in Record /\ NoKey \notin AllKeys
      BY KeysApart DEF Types
    <3> QED
      BY <3>1, <3>2, <3>3, BoundEarns
  <2>2. CASE ~Fires(c, r.s)
    BY <1>3, <2>2 DEF Types
  <2> QED
    BY <2>1, <2>2
<1>8. since' \in [now: 0 .. MaxBytes, saved: 0 .. MaxBytes] /\ since'.saved = since.saved
      /\ (credit'.key = credit.key => since' = since)
      /\ (credit'.key # credit.key => since'.now = 0)
  <2>1. 0 \in 0 .. MaxBytes
    BY IdentAssumption
  <2> QED
    BY <1>3, <2>1 DEF Types
<1>9. signed' \subseteq Proofs /\ signed \subseteq signed'
  BY <1>3 DEF Types, ProofsIn
<1>10. ASSUME NEW d \in Conns
       PROVE  /\ session'[d] \in SessionOf(OurKey, OurChallenge(d), AllKeys)
              /\ out'[d] \in Seq(Packets({OurKey}))
              /\ Len(out'[d]) <= OurRoom(d, session'[d], arm'[d])
  <2>1. CASE d = c
    <3>3. /\ out[c] \o r.out \in Seq(Packets({OurKey}))
          /\ Len(out[c] \o r.out) = Len(out[c]) + Len(r.out)
          /\ Len(out[c]) \in Nat /\ Len(r.out) \in Nat
      <4> DEFINE P == Packets({OurKey})
      <4>1. out[c] \in Seq(P) /\ r.out \in Seq(P)
        BY <1>0, <1>2
      <4> HIDE DEF P
      <4>2. /\ out[c] \o r.out \in Seq(P) /\ Len(out[c] \o r.out) = Len(out[c]) + Len(r.out)
            /\ Len(out[c]) \in Nat /\ Len(r.out) \in Nat
        BY <4>1, JoinStreams
      <4> QED
        BY <4>2 DEF P
    <3>4. out'[c] \in Seq(Packets({OurKey}))
      BY <1>0, <1>4, <3>3
    <3>5. Len(out'[c]) <= Room(c, r.s)
      <4>1. CASE c \in Honest
        <5>1. Len(out'[c]) = Len(out[c]) + Len(r.out) /\ Len(out[c]) <= 1 + SentBy(session[c])
          BY <1>0, <1>4, <3>3, <4>1 DEF Room, OurRoom
        <5>2. SentBy(session[c]) \in Nat /\ SentBy(r.s) \in Nat
          BY SentByCounts
        <5>3. Len(out'[c]) <= 1 + SentBy(r.s)
          BY <1>2, <3>3, <5>1, <5>2, SentFits
        <5> QED
          BY <4>1, <5>3 DEF Room, OurRoom
      <4>2. CASE c \notin Honest
        BY <1>0, <1>4, <4>2 DEF Room, OurRoom
      <4> QED
        BY <4>1, <4>2
    <3>6. arm'[c] # "source" /\ OurRoom(c, r.s, arm'[c]) = Room(c, r.s)
      BY <1>3 DEF OurRoom
    <3> QED
      BY <1>2, <1>4, <2>1, <3>4, <3>5, <3>6
  <2>2. CASE d # c
    <3>1. session'[d] = session[d] /\ out'[d] = out[d] /\ arm' = arm
      BY <1>3, <2>2 DEF Types
    <3> QED
      BY <3>1 DEF SessionsTyped
  <2> QED
    BY <2>1, <2>2
<1>11. RecordEarned'
  <2>1. met' = met /\ (met.key # NoKey => Earned(met.key)')
    BY <1>3, <1>9 DEF RecordEarned, Earned
  <2>2. since'.now \in Nat /\ since.now \in Nat
    BY <1>8, IdentAssumption DEF Types
  <2>3. credit'.key # NoKey => Earned(credit.key)' /\ credit'.downloaded <= since'.now + 1
    <3>1. CASE credit' = credit
      BY <1>8, <1>9, <3>1 DEF RecordEarned, Earned
    <3>2. CASE credit' # credit
      <4>1. credit'.key # credit.key /\ credit'.downloaded <= 1 /\ Earned(credit.key)'
        BY <1>7, <3>2 DEF Earned
      <4> QED
        BY <1>8, <4>1
    <3> QED
      BY <3>1, <3>2
  <2>4. met'.key # NoKey => Earned(met.key)' /\ met'.downloaded <= since'.saved + 1
    BY <1>8, <2>1 DEF RecordEarned, Earned
  <2> QED
    BY <2>3, <2>4 DEF RecordEarned, Earned
<1>12. OnFileIsBound'
  <2> SUFFICES ASSUME NEW d \in Conns, session'[d].key_is_on_file
               PROVE  /\ link'[d] = "open"
                      /\ credit'.key # NoKey /\ session'[d].peer_pubkey = credit'.key
                      /\ session'[d].peer_verified => Proof(session'[d].peer_pubkey, d) \in signed'
    BY DEF OnFileIsBound
  <2>1. CASE d = c
    <3>1. /\ credit.key # NoKey /\ session[c].peer_pubkey = credit.key
          /\ session[c].peer_verified => Proof(session[c].peer_pubkey, c) \in signed
      BY <1>2, <1>4, <2>1 DEF OnFileIsBound
    <3>2. r.s.peer_pubkey = session[c].peer_pubkey /\ credit' = credit
      BY <1>2, <1>4, <1>7, <2>1, <3>1
    <3> QED
      BY <1>3, <1>4, <1>6, <1>9, <2>1, <3>1, <3>2
  <2>2. CASE d # c
    <3>1. session'[d] = session[d]
      BY <1>3, <2>2 DEF Types
    <3> QED
      BY <1>3, <1>7, <1>9, <3>1 DEF OnFileIsBound
  <2> QED
    BY <2>1, <2>2
<1>13. DOMAIN session' = Conns /\ DOMAIN out' = Conns
  BY <1>3 DEF Types
<1> QED
  BY <1>7, <1>8, <1>9, <1>10, <1>11, <1>12, <1>13

\* Reading what an honest peer sent.
LEMMA ReceiveKeeps ==
    ASSUME IdentInv, NEW c \in Conns, Receive(c)
    PROVE  IdentInv'
<1> USE DEF IdentInv
<1>1. /\ in[c] \in Seq(Packets(AllKeys)) /\ in[c] # <<>>
      /\ Len(in[c]) <= Room(c, theirs[c])
      /\ in' = [in EXCEPT ![c] = Tail(@)] /\ stray' = stray
      /\ arm[c] # "source" /\ link[c] = "open" /\ Read(c, Head(in[c]))
      /\ UNCHANGED <<link, arm, theirs, met, restarts>>
  BY DEF SessionsTyped, Receive, Read
<1>2. /\ Head(in[c]) \in Packets(AllKeys) /\ Tail(in[c]) \in Seq(Packets(AllKeys))
      /\ Len(Tail(in[c])) = Len(in[c]) - 1 /\ Len(in[c]) \in Nat
  BY <1>1, ReadTheHead
<1>3. /\ credit' \in Record /\ signed' \subseteq Proofs
      /\ since' \in [now: 0 .. MaxBytes, saved: 0 .. MaxBytes]
      /\ DOMAIN session' = Conns /\ DOMAIN out' = Conns
      /\ \A d \in Conns :
            /\ session'[d] \in SessionOf(OurKey, OurChallenge(d), AllKeys)
            /\ out'[d] \in Seq(Packets({OurKey}))
            /\ Len(out'[d]) <= OurRoom(d, session'[d], arm'[d])
      /\ RecordEarned' /\ OnFileIsBound'
  BY <1>1, <1>2, ReadKeeps
<1>4. Types'
  BY <1>1, <1>3 DEF Types
<1>5. ASSUME NEW d \in Conns
      PROVE  in'[d] \in Seq(Packets(AllKeys)) /\ Len(in'[d]) <= Room(d, theirs'[d])
  <2>1. CASE d = c
    <3>1. in'[d] = Tail(in[c]) /\ theirs'[d] = theirs[c]
      BY <1>1, <2>1 DEF Types
    <3>2. Room(c, theirs[c]) \in Nat
      BY SentByCounts DEF Room, OurRoom
    <3>3. Len(Tail(in[c])) <= Room(c, theirs[c])
      BY <1>1, <1>2, <3>2
    <3> QED
      BY <1>2, <2>1, <3>1, <3>3
  <2>2. CASE d # c
    <3>1. in'[d] = in[d] /\ theirs'[d] = theirs[d]
      BY <1>1, <2>2 DEF Types
    <3> QED
      BY <3>1 DEF SessionsTyped
  <2> QED
    BY <2>1, <2>2
<1>6. SessionsTyped'
  BY <1>1, <1>3, <1>5 DEF SessionsTyped
<1> QED
  BY <1>3, <1>4, <1>6

\* A packet of any other peer: it is read as it comes.
LEMMA StrayKeeps ==
    ASSUME IdentInv, NEW c \in Conns, NEW p \in StrayPackets(c), Stray(c, p)
    PROVE  IdentInv'
<1> USE DEF IdentInv
<1>1. /\ in' = in /\ arm[c] # "source" /\ link[c] = "open" /\ Read(c, p)
      /\ UNCHANGED <<link, arm, theirs, met, restarts>>
  BY DEF Stray, Read
<1>2. p \in Packets(AllKeys)
  <2>1. Proofs \subseteq Packets(AllKeys)
    BY KeysApart DEF Proofs, Proof, Packets, Signature, AllKeys
  <2>2. signed \subseteq Packets(AllKeys)
    BY <2>1 DEF Types
  <2>3. \A h \in Challenges : h \in Nat
    BY KeysApart, IdentAssumption DEF Challenges
  <2>4. OurChallenge(c) \in Nat /\ AllKeys = Keys \cup {OurKey}
    BY KeysApart DEF AllKeys
  <2>5. CASE p \in {State(w, h) : w \in {KeyAndSign, SignOnly}, h \in Challenges}
    BY <2>3, <2>5 DEF Packets, State
  <2>6. CASE p \in {PublicKey(k) : k \in Keys \cup {OurKey}}
    BY <2>4, <2>6 DEF Packets, PublicKey
  <2>7. CASE p \in {Signature(k, OurKey, h) : k \in Keys, h \in {OurChallenge(c), 1}}
    BY <2>4, <2>7 DEF Packets, Signature
  <2>8. CASE p \in signed
    BY <2>2, <2>8
  <2> QED
    BY <2>5, <2>6, <2>7, <2>8 DEF StrayPackets
<1>3. /\ credit' \in Record /\ signed' \subseteq Proofs
      /\ since' \in [now: 0 .. MaxBytes, saved: 0 .. MaxBytes]
      /\ DOMAIN session' = Conns /\ DOMAIN out' = Conns
      /\ \A d \in Conns :
            /\ session'[d] \in SessionOf(OurKey, OurChallenge(d), AllKeys)
            /\ out'[d] \in Seq(Packets({OurKey}))
            /\ Len(out'[d]) <= OurRoom(d, session'[d], arm'[d])
      /\ RecordEarned' /\ OnFileIsBound'
  BY <1>1, <1>2, ReadKeeps
<1>4. stray' \in [Conns -> 0 .. MaxStray]
  BY IdentAssumption DEF Stray, Types
<1>5. Types'
  BY <1>1, <1>3, <1>4 DEF Types
<1>6. SessionsTyped'
  BY <1>1, <1>3 DEF SessionsTyped
<1> QED
  BY <1>3, <1>5, <1>6

\* The honest peer reads a packet of ours.
LEMMA PeerReceivesKeeps ==
    ASSUME IdentInv, NEW c \in Conns, PeerReceives(c)
    PROVE  IdentInv'
<1> USE DEF IdentInv
<1> DEFINE r == OnPacket(theirs[c], Head(out[c]))
           own == OwnKey[c]
<1>0. /\ theirs[c] \in SessionOf(own, TheirChallenge(c), {OurKey})
      /\ in[c] \in Seq(Packets(AllKeys)) /\ out[c] # <<>>
      /\ out[c] \in Seq(Packets({OurKey}))
      /\ Len(out[c]) <= OurRoom(c, session[c], arm[c])
      /\ Len(in[c]) <= 1 + SentBy(theirs[c])
      /\ c \in Honest
  BY DEF SessionsTyped, PeerReceives, Room, OurRoom
<1>1. /\ Head(out[c]) \in Packets({OurKey}) /\ Tail(out[c]) \in Seq(Packets({OurKey}))
      /\ Len(Tail(out[c])) = Len(out[c]) - 1 /\ Len(out[c]) \in Nat
  BY <1>0, ReadTheHead
<1>2. /\ r.s \in SessionOf(own, TheirChallenge(c), {OurKey})
      /\ r.out \in Seq(Packets({own}))
      /\ Len(r.out) + SentBy(theirs[c]) <= SentBy(r.s)
  <2>1. {OurKey} \in SUBSET AllKeys /\ own \in AllKeys /\ TheirChallenge(c) \in Nat
    BY KeysApart
  <2>2. theirs[c] \in SessionOf(own, TheirChallenge(c), {OurKey}) /\ Head(out[c]) \in Packets({OurKey})
    BY <1>0, <1>1
  <2>3. r = OnPacket(theirs[c], Head(out[c]))
    OBVIOUS
  <2> DEFINE peers == {OurKey}
             challenge == TheirChallenge(c)
             s == theirs[c]
             p == Head(out[c])
  <2>4. /\ own \in AllKeys /\ challenge \in Nat /\ peers \in SUBSET AllKeys
        /\ s \in SessionOf(own, challenge, peers) /\ p \in Packets(peers) /\ r = OnPacket(s, p)
    BY <2>1, <2>2, <2>3
  <2> HIDE DEF r, own, peers, challenge, s, p
  <2>5. /\ r.s \in SessionOf(own, challenge, peers)
        /\ r.out \in Seq(Packets({own}))
        /\ Len(r.out) + SentBy(s) <= SentBy(r.s)
    BY <2>4, OnPacketDoes
  <2> QED
    BY <2>5 DEF peers, challenge, s
<1>3. /\ theirs' = [theirs EXCEPT ![c] = r.s]
      /\ out' = [out EXCEPT ![c] = Tail(@)]
      /\ in' = [in EXCEPT ![c] = @ \o r.out]
      /\ signed' = signed \cup ProofsIn(r.out)
      /\ UNCHANGED <<link, arm, session, credit, met, stray, restarts, since>>
  BY DEF PeerReceives
<1> HIDE DEF r
<1>4. theirs'[c] = r.s /\ out'[c] = Tail(out[c]) /\ in'[c] = in[c] \o r.out
  BY <1>3 DEF Types
<1>5. Packets({own}) \subseteq Packets(AllKeys)
  BY KeysApart DEF Packets
<1>6. /\ in'[c] \in Seq(Packets(AllKeys)) /\ Len(in'[c]) = Len(in[c]) + Len(r.out)
      /\ Len(in[c]) \in Nat /\ Len(r.out) \in Nat
  <2> DEFINE P == Packets(AllKeys)
             Q == Packets({own})
  <2>1. Q \subseteq P /\ in[c] \in Seq(P) /\ r.out \in Seq(Q)
    BY <1>0, <1>2, <1>5
  <2> HIDE DEF P, Q
  <2>2. /\ in[c] \o r.out \in Seq(P) /\ Len(in[c] \o r.out) = Len(in[c]) + Len(r.out)
        /\ Len(in[c]) \in Nat /\ Len(r.out) \in Nat
    BY <2>1, JoinStreams
  <2> QED
    BY <1>4, <2>2 DEF P
<1>7. Types'
  BY <1>3 DEF Types, ProofsIn
<1>8. SessionsTyped'
  <2> SUFFICES ASSUME NEW d \in Conns
               PROVE  /\ session'[d] \in SessionOf(OurKey, OurChallenge(d), AllKeys)
                      /\ theirs'[d] \in SessionOf(OwnKey[d], TheirChallenge(d), {OurKey})
                      /\ in'[d] \in Seq(Packets(AllKeys))
                      /\ out'[d] \in Seq(Packets({OurKey}))
                      /\ Len(in'[d]) <= Room(d, theirs'[d])
                      /\ Len(out'[d]) <= OurRoom(d, session'[d], arm'[d])
    BY DEF SessionsTyped
  <2>1. CASE d = c
    <3>1. session'[c] = session[c] /\ session[c] \in SessionOf(OurKey, OurChallenge(c), AllKeys)
      BY <1>3 DEF SessionsTyped
    <3>2. Len(in'[c]) <= Room(c, r.s) /\ Len(out'[c]) <= OurRoom(c, session[c], arm[c])
      <4>1. /\ SentBy(theirs[c]) \in Nat /\ SentBy(r.s) \in Nat
            /\ OurRoom(c, session[c], arm[c]) \in Nat
        BY SentByCounts DEF Room, OurRoom
      <4>2. /\ Len(in[c]) <= 1 + SentBy(theirs[c]) /\ Len(out[c]) <= OurRoom(c, session[c], arm[c])
            /\ Len(out'[c]) = Len(out[c]) - 1 /\ Len(r.out) + SentBy(theirs[c]) <= SentBy(r.s)
        BY <1>0, <1>1, <1>2, <1>4
      <4>3. Len(in'[c]) <= 1 + SentBy(r.s)
        BY <1>6, <4>1, <4>2, SentFits
      <4>4. Len(out'[c]) <= OurRoom(c, session[c], arm[c])
        BY <1>1, <4>1, <4>2
      <4> QED
        BY <1>0, <4>3, <4>4 DEF Room, OurRoom
    <3>3. /\ theirs'[c] \in SessionOf(OwnKey[c], TheirChallenge(c), {OurKey})
          /\ in'[c] \in Seq(Packets(AllKeys)) /\ out'[c] \in Seq(Packets({OurKey}))
          /\ Len(in'[c]) <= Room(c, theirs'[c])
      BY <1>1, <1>2, <1>4, <1>6, <3>2
    <3>4. session'[c] \in SessionOf(OurKey, OurChallenge(c), AllKeys)
          /\ Len(out'[c]) <= OurRoom(c, session'[c], arm'[c])
      BY <1>3, <3>1, <3>2
    <3> QED
      BY <2>1, <3>3, <3>4
  <2>2. CASE d # c
    <3>1. session'[d] = session[d] /\ theirs'[d] = theirs[d] /\ in'[d] = in[d] /\ out'[d] = out[d]
      BY <1>3, <2>2 DEF Types
    <3> QED
      BY <1>3, <3>1 DEF SessionsTyped
  <2> QED
    BY <2>1, <2>2
<1>9. RecordEarned' /\ OnFileIsBound'
  BY <1>3 DEF RecordEarned, OnFileIsBound, Earned
<1> QED
  BY <1>7, <1>8, <1>9

\* A peek ends in a file request: nothing else changes.
LEMMA FileRequestKeeps ==
    ASSUME IdentInv, NEW c \in Conns, FileRequest(c)
    PROVE  IdentInv'
<1> USE DEF IdentInv
<1>1. /\ arm' = [arm EXCEPT ![c] = "leech"] /\ arm[c] = "peek"
      /\ UNCHANGED <<link, session, theirs, in, out, credit, met, stray, restarts, signed, since>>
  BY DEF FileRequest
<1>2. Types'
  BY <1>1 DEF Types
<1>3. \A d \in Conns : (arm'[d] = "source") = (arm[d] = "source")
  BY <1>1 DEF Types
<1>4. SessionsTyped'
  BY <1>1, <1>3 DEF SessionsTyped, OurRoom
<1>5. RecordEarned' /\ OnFileIsBound'
  BY <1>1 DEF RecordEarned, Earned, OnFileIsBound
<1> QED
  BY <1>2, <1>4, <1>5

\* A peek ends in silence: the session is gone, what it sent may be under way.
LEMMA QuietKeeps ==
    ASSUME IdentInv, NEW c \in Conns, Quiet(c)
    PROVE  IdentInv'
<1> USE DEF IdentInv
<1>1. /\ arm' = [arm EXCEPT ![c] = "source"] /\ arm[c] = "peek"
      /\ session' = [session EXCEPT ![c] = OurFirst(c)]
      /\ UNCHANGED <<link, theirs, in, out, credit, met, stray, restarts, signed, since>>
  BY DEF Quiet
<1>2. Types'
  BY <1>1 DEF Types
<1>3. /\ OurFirst(c) \in SessionOf(OurKey, OurChallenge(c), AllKeys)
      /\ OurFirst(c).key_is_on_file = FALSE
  BY FreshSessions DEF OurFirst
<1>4. ASSUME NEW d \in Conns
      PROVE  /\ session'[d] \in SessionOf(OurKey, OurChallenge(d), AllKeys)
             /\ Len(out'[d]) <= OurRoom(d, session'[d], arm'[d])
  <2>1. CASE d = c
    <3>1. session'[d] = OurFirst(c) /\ arm'[d] = "source" /\ out'[d] = out[c]
      BY <1>1, <2>1 DEF Types
    <3>2. Len(out[c]) <= Room(c, session[c]) /\ Len(out[c]) \in Nat
      BY <1>1, LengthIsNat DEF SessionsTyped, OurRoom
    <3>3. Len(out[c]) <= OurRoom(c, OurFirst(c), "source")
      BY <3>2, SentByCounts DEF Room, OurRoom
    <3> QED
      BY <1>3, <2>1, <3>1, <3>3
  <2>2. CASE d # c
    <3>1. session'[d] = session[d] /\ arm'[d] = arm[d] /\ out'[d] = out[d]
      BY <1>1, <2>2 DEF Types
    <3> QED
      BY <3>1 DEF SessionsTyped
  <2> QED
    BY <2>1, <2>2
<1>5. SessionsTyped'
  BY <1>1, <1>4 DEF SessionsTyped
<1>6. RecordEarned'
  BY <1>1 DEF RecordEarned, Earned
<1>7. OnFileIsBound'
  <2>1. ASSUME NEW d \in Conns, session'[d].key_is_on_file PROVE session'[d] = session[d]
    BY <1>1, <1>3, <2>1 DEF Types
  <2> QED
    BY <1>1, <2>1 DEF OnFileIsBound
<1> QED
  BY <1>2, <1>5, <1>6, <1>7

\* A called-back source's packet is read and not looked at.
LEMMA IgnoreKeeps ==
    ASSUME IdentInv, NEW c \in Conns, Ignore(c)
    PROVE  IdentInv'
<1> USE DEF IdentInv
<1>1. /\ in[c] \in Seq(Packets(AllKeys)) /\ in[c] # <<>>
      /\ Len(in[c]) <= Room(c, theirs[c])
      /\ in' = [in EXCEPT ![c] = Tail(@)]
      /\ UNCHANGED <<link, arm, session, theirs, out, credit, met, stray, restarts, signed, since>>
  BY DEF SessionsTyped, Ignore
<1>2. Tail(in[c]) \in Seq(Packets(AllKeys)) /\ Len(Tail(in[c])) = Len(in[c]) - 1 /\ Len(in[c]) \in Nat
  BY <1>1, ReadTheHead
<1>3. Types'
  BY <1>1 DEF Types
<1>4. ASSUME NEW d \in Conns
      PROVE  in'[d] \in Seq(Packets(AllKeys)) /\ Len(in'[d]) <= Room(d, theirs[d])
  <2>1. CASE d = c
    <3>1. in'[d] = Tail(in[c])
      BY <1>1, <2>1 DEF Types
    <3>2. Room(c, theirs[c]) \in Nat
      BY SentByCounts DEF Room, OurRoom
    <3>3. Len(Tail(in[c])) <= Room(c, theirs[c])
      BY <1>1, <1>2, <3>2
    <3> QED
      BY <1>2, <2>1, <3>1, <3>3
  <2>2. CASE d # c
    <3>1. in'[d] = in[d]
      BY <1>1, <2>2 DEF Types
    <3> QED
      BY <3>1 DEF SessionsTyped
  <2> QED
    BY <2>1, <2>2
<1>5. SessionsTyped'
  BY <1>1, <1>4 DEF SessionsTyped
<1>6. RecordEarned' /\ OnFileIsBound'
  BY <1>1 DEF RecordEarned, Earned, OnFileIsBound
<1> QED
  BY <1>3, <1>5, <1>6

\* Both counters saturate at the same value, the record's never ahead.
LEMMA AddIsMonotonic ==
    ASSUME NEW x \in 0 .. MaxBytes, NEW y \in 0 .. MaxBytes, x <= y + 1
    PROVE  Add(x) \in 0 .. MaxBytes /\ Add(y) \in 0 .. MaxBytes /\ Add(x) <= Add(y) + 1
BY IdentAssumption DEF Add

\* Traffic is counted.
LEMMA TrafficKeeps ==
    ASSUME IdentInv, NEW c \in Conns, AddDownloaded(c) \/ AddUploaded(c)
    PROVE  IdentInv'
<1> USE DEF IdentInv
<1>0. /\ UNCHANGED <<link, arm, session, theirs, in, out, met, stray, restarts, signed>>
      /\ credit.downloaded \in 0 .. MaxBytes /\ credit.uploaded \in 0 .. MaxBytes
      /\ since.now \in 0 .. MaxBytes /\ MaxBytes \in Nat
  BY IdentAssumption DEF AddDownloaded, AddUploaded, Types, Record
<1>1. CASE AddDownloaded(c)
  <2>1. credit' = [credit EXCEPT !.downloaded = Add(@)] /\ since' = [since EXCEPT !.now = Add(@)]
    BY <1>1 DEF AddDownloaded
  <2>2. Add(credit.downloaded) \in 0 .. MaxBytes /\ Add(since.now) \in 0 .. MaxBytes
    BY <1>0, IdentAssumption DEF Add
  <2>3. Types' /\ credit'.key = credit.key /\ since'.saved = since.saved
        /\ credit'.downloaded = Add(credit.downloaded) /\ since'.now = Add(since.now)
    BY <1>0, <2>1, <2>2 DEF Types, Record
  <2>4. RecordEarned'
    BY <1>0, <2>3, AddIsMonotonic DEF RecordEarned, Earned
  <2> QED
    BY <1>0, <2>3, <2>4 DEF SessionsTyped, OnFileIsBound
<1>2. CASE AddUploaded(c)
  <2>1. credit' = [credit EXCEPT !.uploaded = Add(@)] /\ since' = since
    BY <1>2 DEF AddUploaded
  <2>2. Add(credit.uploaded) \in 0 .. MaxBytes
    BY <1>0, IdentAssumption DEF Add
  <2>3. Types' /\ credit'.key = credit.key /\ credit'.downloaded = credit.downloaded
    BY <1>0, <2>1, <2>2 DEF Types, Record
  <2>4. RecordEarned'
    BY <1>0, <2>1, <2>3 DEF RecordEarned, Earned
  <2>5. SessionsTyped'
    BY <1>0 DEF SessionsTyped
  <2>6. OnFileIsBound'
    BY <1>0, <2>3 DEF OnFileIsBound
  <2>7. Types'
    BY <2>3
  <2> QED
    BY <2>4, <2>5, <2>6, <2>7
<1> QED
  BY <1>1, <1>2

\* Connections end with their sessions.
LEMMA DropKeeps ==
    ASSUME IdentInv, NEW cs \in SUBSET Conns, Drop(cs)
    PROVE  /\ link' \in [Conns -> {"new", "open", "closed"}]
           /\ arm' \in [Conns -> {"peek", "leech", "source", "fetch"}]
           /\ stray' \in [Conns -> 0 .. MaxStray]
           /\ DOMAIN session' = Conns /\ DOMAIN theirs' = Conns
           /\ DOMAIN in' = Conns /\ DOMAIN out' = Conns
           /\ SessionsTyped'
           /\ \A c \in Conns : session'[c].key_is_on_file =>
                c \notin cs /\ session'[c] = session[c] /\ link'[c] = link[c]
<1> USE DEF IdentInv
<1>1. /\ link' \in [Conns -> {"new", "open", "closed"}]
      /\ arm' \in [Conns -> {"peek", "leech", "source", "fetch"}]
      /\ stray' \in [Conns -> 0 .. MaxStray]
      /\ DOMAIN session' = Conns /\ DOMAIN theirs' = Conns
      /\ DOMAIN in' = Conns /\ DOMAIN out' = Conns
  BY IdentAssumption DEF Drop, Types, FirstArm
<1>2. ASSUME NEW c \in Conns
      PROVE  /\ session'[c] \in SessionOf(OurKey, OurChallenge(c), AllKeys)
             /\ theirs'[c] \in SessionOf(OwnKey[c], TheirChallenge(c), {OurKey})
             /\ in'[c] \in Seq(Packets(AllKeys))
             /\ out'[c] \in Seq(Packets({OurKey}))
             /\ Len(in'[c]) <= Room(c, theirs'[c])
             /\ Len(out'[c]) <= OurRoom(c, session'[c], arm'[c])
             /\ session'[c].key_is_on_file =>
                  c \notin cs /\ session'[c] = session[c] /\ link'[c] = link[c]
  <2>1. CASE c \in cs
    <3>1. session'[c] = OurFirst(c) /\ theirs'[c] = TheirFirst(c) /\ in'[c] = <<>> /\ out'[c] = <<>>
      BY <2>1 DEF Drop
    <3>2. /\ OurFirst(c) \in SessionOf(OurKey, OurChallenge(c), AllKeys)
          /\ TheirFirst(c) \in SessionOf(OwnKey[c], TheirChallenge(c), {OurKey})
          /\ OurFirst(c).key_is_on_file = FALSE
      BY FreshSessions DEF OurFirst, TheirFirst
    <3>3. Len(in'[c]) = 0 /\ Len(out'[c]) = 0
      BY <3>1
    <3>4. in'[c] \in Seq(Packets(AllKeys)) /\ out'[c] \in Seq(Packets({OurKey}))
      BY <3>1
    <3> QED
      BY <2>1, <3>1, <3>2, <3>3, <3>4, SentByCounts DEF Room, OurRoom
  <2>2. CASE c \notin cs
    <3>1. /\ session'[c] = session[c] /\ theirs'[c] = theirs[c] /\ in'[c] = in[c]
          /\ out'[c] = out[c] /\ link'[c] = link[c] /\ arm'[c] = arm[c]
      BY <2>2 DEF Drop
    <3> QED
      BY <2>2, <3>1 DEF SessionsTyped
  <2> QED
    BY <2>1, <2>2
<1> QED
  BY <1>1, <1>2 DEF SessionsTyped

\* One connection ends.
LEMMA CloseKeeps ==
    ASSUME IdentInv, NEW c \in Conns, Close(c)
    PROVE  IdentInv'
<1>1. Drop({c}) /\ UNCHANGED <<credit, met, restarts, signed, since>>
  BY DEF Close
<1>2. Types' /\ SessionsTyped'
  BY <1>1, DropKeeps DEF Types, IdentInv
<1>3. RecordEarned'
  BY <1>1 DEF RecordEarned, Earned, IdentInv
<1>4. OnFileIsBound'
  BY <1>1, DropKeeps DEF OnFileIsBound, IdentInv
<1> QED
  BY <1>2, <1>3, <1>4 DEF IdentInv

\* clients.met is written.
LEMMA SaveKeeps ==
    ASSUME IdentInv, Save
    PROVE  IdentInv'
<1> USE DEF IdentInv
<1>1. /\ met' = credit \/ met' = NoRecord
      /\ since'.saved = since.now /\ since'.now = since.now
      /\ since' \in [now: 0 .. MaxBytes, saved: 0 .. MaxBytes]
      /\ UNCHANGED <<link, arm, session, theirs, in, out, credit, stray, restarts, signed>>
  BY DEF Save, Types
<1>2. NoRecord \in Record /\ NoRecord.key = NoKey
  BY IdentAssumption DEF NoRecord, Record
<1>3. Types'
  BY <1>1, <1>2 DEF Types
<1>4. RecordEarned'
  BY <1>1, <1>2 DEF RecordEarned, Earned
<1> QED
  BY <1>1, <1>3, <1>4 DEF SessionsTyped, OnFileIsBound

\* The app starts again from clients.met; no session lives on.
LEMMA RestartKeeps ==
    ASSUME IdentInv, NEW expired \in BOOLEAN, Restart(expired)
    PROVE  IdentInv'
<1> USE DEF IdentInv
<1> DEFINE cs == {c \in Conns : link[c] = "open"}
<1>1. /\ credit' = met \/ credit' = NoRecord
      /\ since'.now = since.saved /\ since'.saved = since.saved
      /\ since' \in [now: 0 .. MaxBytes, saved: 0 .. MaxBytes]
      /\ restarts' \in 0 .. MaxRestarts
      /\ UNCHANGED <<met, signed>> /\ Drop(cs)
  BY IdentAssumption DEF Restart, Types
<1>2. NoRecord \in Record /\ NoRecord.key = NoKey
  BY IdentAssumption DEF NoRecord, Record
<1> HIDE DEF cs
<1>3. Types' /\ SessionsTyped'
  BY <1>1, <1>2, DropKeeps DEF Types, cs
<1>4. RecordEarned'
  BY <1>1, <1>2 DEF RecordEarned, Earned
<1>5. OnFileIsBound'
  BY <1>1, DropKeeps DEF OnFileIsBound, cs
<1> QED
  BY <1>3, <1>4, <1>5

-----------------------------------------------------------------------------
(* The invariant, and what follows *)

\* The first start, before any connection.
LEMMA IdentInit == Init => IdentInv
<1> SUFFICES ASSUME Init PROVE IdentInv
  OBVIOUS
<1>1. 0 \in 0 .. MaxBytes /\ 0 \in 0 .. MaxStray /\ 0 \in 0 .. MaxRestarts
  BY IdentAssumption
<1>2. NoRecord \in Record /\ NoRecord.key = NoKey
  BY <1>1 DEF NoRecord, Record
<1>3. Types
  BY <1>1, <1>2, IdentAssumption DEF Init, Types, FirstArm
<1>4. RecordEarned
  BY <1>2 DEF Init, RecordEarned
<1>5. ASSUME NEW c \in Conns
      PROVE  /\ session[c] \in SessionOf(OurKey, OurChallenge(c), AllKeys)
             /\ theirs[c] \in SessionOf(OwnKey[c], TheirChallenge(c), {OurKey})
             /\ session[c].key_is_on_file = FALSE
             /\ in[c] = <<>> /\ out[c] = <<>>
  BY FreshSessions DEF Init, OurFirst, TheirFirst
<1>6. ASSUME NEW P PROVE <<>> \in Seq(P) /\ Len(<<>>) = 0
  OBVIOUS
<1>7. SessionsTyped
  <2> SUFFICES ASSUME NEW c \in Conns
               PROVE  /\ in[c] \in Seq(Packets(AllKeys))
                      /\ out[c] \in Seq(Packets({OurKey}))
                      /\ Len(in[c]) <= Room(c, theirs[c])
                      /\ Len(out[c]) <= OurRoom(c, session[c], arm[c])
    BY <1>5 DEF SessionsTyped
  <2>1. in[c] = <<>> /\ out[c] = <<>>
    BY <1>5
  <2>2. in[c] \in Seq(Packets(AllKeys)) /\ out[c] \in Seq(Packets({OurKey}))
    BY <1>6, <2>1
  <2>3. Len(in[c]) = 0 /\ Len(out[c]) = 0
    BY <1>6, <2>1
  <2>4. SentBy(theirs[c]) \in Nat /\ SentBy(session[c]) \in Nat
    BY SentByCounts
  <2> QED
    BY <2>2, <2>3, <2>4 DEF Room, OurRoom
<1>8. OnFileIsBound
  BY <1>5 DEF OnFileIsBound
<1> QED
  BY <1>3, <1>4, <1>7, <1>8 DEF IdentInv

\* Every step keeps the invariant.
LEMMA IdentStep == IdentInv /\ [Next]_vars => IdentInv'
<1> SUFFICES ASSUME IdentInv, [Next]_vars PROVE IdentInv'
  OBVIOUS
<1>1. ASSUME NEW c \in Conns, NEW k \in (IF c \in Honest THEN {NoKey, OurKey} ELSE {NoKey}), Open(c, k)
      PROVE  IdentInv'
  <2>1. k \in {OurKey, NoKey}
    BY <1>1
  <2> QED
    BY <1>1, <2>1, OpenKeeps
<1>2. ASSUME NEW c \in Conns, Receive(c) PROVE IdentInv'
  BY <1>2, ReceiveKeeps
<1>10. ASSUME NEW c \in Conns, FileRequest(c) \/ Quiet(c) \/ Ignore(c) PROVE IdentInv'
  <2>1. CASE FileRequest(c)
    BY <2>1, FileRequestKeeps
  <2>2. CASE Quiet(c)
    BY <2>2, QuietKeeps
  <2>3. CASE Ignore(c)
    BY <2>3, IgnoreKeeps
  <2> QED
    BY <1>10, <2>1, <2>2, <2>3
<1>3. ASSUME NEW c \in Conns, PeerReceives(c) PROVE IdentInv'
  BY <1>3, PeerReceivesKeeps
<1>4. ASSUME NEW c \in Conns, NEW p \in StrayPackets(c), Stray(c, p) PROVE IdentInv'
  BY <1>4, StrayKeeps
<1>5. ASSUME NEW c \in Conns, AddDownloaded(c) \/ AddUploaded(c) PROVE IdentInv'
  BY <1>5, TrafficKeeps
<1>6. ASSUME NEW c \in Conns, Close(c) PROVE IdentInv'
  BY <1>6, CloseKeeps
<1>7. CASE Save
  BY <1>7, SaveKeeps
<1>8. ASSUME NEW expired \in BOOLEAN, Restart(expired) PROVE IdentInv'
  BY <1>8, RestartKeeps
<1>9. CASE UNCHANGED vars
  BY <1>9 DEF vars, IdentInv, Types, SessionsTyped, RecordEarned, Earned, OnFileIsBound
<1> QED
  BY <1>1, <1>2, <1>3, <1>4, <1>5, <1>6, <1>7, <1>8, <1>9, <1>10 DEF Next

\* The invariant holds in every reachable state.
LEMMA IdentAlways == Spec => []IdentInv
  BY IdentInit, IdentStep, PTL DEF Spec

\* Whatever states, keys and signatures are sent, ours reflected and others'
\* relayed among them, a key that is bound, in memory or in clients.met, is one
\* whose private half signed our key and the challenge of an accepted connection
\* (ServeSec::drive, try_verify, bind_verified).
THEOREM BoundKeysAreProven == Spec => []BoundIsProven
<1>1. IdentInv => BoundIsProven
  <2> SUFFICES ASSUME IdentInv PROVE BoundIsProven
    OBVIOUS
  <2>1. ASSUME NEW c \in Conns
        PROVE  /\ session[c].peer_pubkey \in Keys \cup {OurKey, NoKey}
               /\ theirs[c].peer_pubkey \in {OurKey, NoKey}
               /\ session[c].our_challenge = OurChallenge(c)
    BY DEF IdentInv, SessionsTyped, SessionOf, AllKeys
  <2>2. ASSUME NEW c \in Conns PROVE Len(in[c]) <= 3 /\ Len(out[c]) <= 3
    <3>1. /\ in[c] \in Seq(Packets(AllKeys))
          /\ out[c] \in Seq(Packets({OurKey}))
          /\ Len(in[c]) <= Room(c, theirs[c])
          /\ Len(out[c]) <= OurRoom(c, session[c], arm[c])
      BY DEF IdentInv, SessionsTyped
    <3>2. ASSUME NEW P, NEW q \in Seq(P) PROVE Len(q) \in Nat
      OBVIOUS
    <3>3. Len(in[c]) \in Nat /\ Len(out[c]) \in Nat
      BY <3>1, <3>2
    <3>4. /\ SentBy(theirs[c]) \in Nat /\ SentBy(theirs[c]) <= 2
          /\ SentBy(session[c]) \in Nat /\ SentBy(session[c]) <= 2
      BY SentByCounts
    <3>5. CASE c \in Honest
      BY <3>1, <3>3, <3>4, <3>5 DEF Room, OurRoom
    <3>6. CASE c \notin Honest
      BY <3>1, <3>3, <3>4, <3>6 DEF Room, OurRoom
    <3> QED
      BY <3>5, <3>6
  <2>3. TypeOK
    BY <2>1, <2>2 DEF IdentInv, Types, TypeOK
  <2>4. ASSUME NEW k \in {credit.key, met.key} \ {NoKey}
        PROVE  \E c \in Inbound : Proof(k, c) \in signed
    <3>1. Earned(k)
      BY <2>4 DEF IdentInv, RecordEarned
    <3> QED
      BY <3>1 DEF Earned
  <2> QED
    BY <2>3, <2>4 DEF BoundIsProven
<1> QED
  BY <1>1, IdentAlways, PTL

\* No credit counted without a signed key outlives the first bind, over any
\* number of saves, expiries and restarts (bind_verified, clients.met).
THEOREM CreditIsNotInherited == Spec => []NothingInherited
<1>1. IdentInv => NothingInherited
  BY DEF IdentInv, RecordEarned, NothingInherited
<1> QED
  BY <1>1, IdentAlways, PTL

\* A leecher that connects to a bound userhash is ranked above the floor only if
\* the private half of the key on file signed the challenge of this very
\* connection, whoever brings the signature (with_stored_key, resolve_ident_state).
THEOREM BonusIsTheKeyHolders == Spec => []BonusNeedsTheKey
<1>1. IdentInv => BonusNeedsTheKey
  BY DEF IdentInv, OnFileIsBound, BonusNeedsTheKey, HasBonus
<1> QED
  BY <1>1, IdentAlways, PTL
=============================================================================
