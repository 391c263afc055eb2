-------------------------- MODULE MediationProofs ---------------------------
(***************************************************************************)
(* The proof that a subscribed browser mirrors the pending set, for every  *)
(* set of ids and browsers and every bound.                                *)
(***************************************************************************)
EXTENDS Mediation, BrokerProofs

(* The tail of a sequence is the sequence moved by one place. *)
LEMMA TailFacts ==
  ASSUME NEW S, NEW q \in Seq(S), q # <<>>
  PROVE  /\ Tail(q) \in Seq(S)
         /\ Len(q) \in Nat \ {0}
         /\ DOMAIN q = 1 .. Len(q)
         /\ DOMAIN Tail(q) = 1 .. Len(q) - 1
         /\ \A k \in 1 .. Len(q) - 1 : Tail(q)[k] = q[k + 1]
         /\ Head(q) = q[1]
OBVIOUS

(* The places of a concatenation are those of its parts. *)
LEMMA ConcatFacts ==
  ASSUME NEW S, NEW q \in Seq(S), NEW s \in Seq(S)
  PROVE  /\ DOMAIN q = 1 .. Len(q) /\ DOMAIN s = 1 .. Len(s)
         /\ Len(q) \in Nat /\ Len(s) \in Nat
         /\ DOMAIN (q \o s) = 1 .. Len(q) + Len(s)
         /\ \A k \in 1 .. Len(q) : (q \o s)[k] = q[k]
         /\ \A k \in 1 .. Len(s) : (q \o s)[Len(q) + k] = s[k]
OBVIOUS

(* New frames that do not speak of i leave it as it was. *)
LEMMA ConcatSilent ==
  ASSUME NEW q \in Seq(ServerFrame), NEW s \in Seq(ServerFrame), NEW i \in Ids,
         NEW shown \in BOOLEAN, NEW pending \in BOOLEAN, NEW ahead \in BOOLEAN,
         Tracks(q, i, shown, pending, ahead),
         \A k \in DOMAIN s : ~Mentions(s[k], i)
  PROVE  Tracks(q \o s, i, shown, pending, ahead)
<1> DEFINE t == q \o s
<1>1. /\ DOMAIN q = 1 .. Len(q) /\ DOMAIN s = 1 .. Len(s)
      /\ Len(q) \in Nat /\ Len(s) \in Nat
      /\ DOMAIN t = 1 .. Len(q) + Len(s)
      /\ \A k \in 1 .. Len(q) : t[k] = q[k]
      /\ \A k \in 1 .. Len(s) : t[Len(q) + k] = s[k]
  BY ConcatFacts
<1> HIDE DEF t
<1>2. \A k \in DOMAIN t : k \in DOMAIN q \/ (k - Len(q) \in DOMAIN s /\ t[k] = s[k - Len(q)])
  <2> SUFFICES ASSUME NEW k \in DOMAIN t, k \notin DOMAIN q
               PROVE  k - Len(q) \in DOMAIN s /\ t[k] = s[k - Len(q)]
    OBVIOUS
  <2>1. k - Len(q) \in 1 .. Len(s) /\ k = Len(q) + (k - Len(q))
    BY <1>1
  <2> QED BY <2>1, <1>1
<1>3. \A k \in DOMAIN q : k \in DOMAIN t /\ t[k] = q[k]
  BY <1>1
<1>4. \A k \in DOMAIN t : Mentions(t[k], i) => k \in DOMAIN q
  BY <1>2
<1>5. \A k \in DOMAIN t : IsLastWord(t, i, k) => IsLastWord(q, i, k) /\ t[k] = q[k]
  BY <1>3, <1>4 DEF IsLastWord
<1>6. \A k \in DOMAIN t : IsLastWord(t, i, k) => (Shows(t[k], i) <=> pending)
  BY <1>5 DEF Tracks, IsLastWord
<1>7. (\A k \in DOMAIN t : ~Mentions(t[k], i)) => \A k \in DOMAIN q : ~Mentions(q[k], i)
  BY <1>3
<1>8. Tracks(t, i, shown, pending, ahead)
  BY <1>6, <1>7 DEF Tracks
<1> QED BY <1>8 DEF t

(* New frames that all say of i what is the case, and say it, settle i. *)
LEMMA ConcatSays ==
  ASSUME NEW q \in Seq(ServerFrame), NEW s \in Seq(ServerFrame), NEW i \in Ids,
         NEW shown \in BOOLEAN, NEW pending \in BOOLEAN, NEW ahead \in BOOLEAN,
         \E k \in DOMAIN s : Mentions(s[k], i),
         \A k \in DOMAIN s : Mentions(s[k], i) => (Shows(s[k], i) <=> pending)
  PROVE  Tracks(q \o s, i, shown, pending, ahead)
<1> DEFINE t == q \o s
<1>1. /\ DOMAIN q = 1 .. Len(q) /\ DOMAIN s = 1 .. Len(s)
      /\ Len(q) \in Nat /\ Len(s) \in Nat
      /\ DOMAIN t = 1 .. Len(q) + Len(s)
      /\ \A k \in 1 .. Len(q) : t[k] = q[k]
      /\ \A k \in 1 .. Len(s) : t[Len(q) + k] = s[k]
  BY ConcatFacts
<1> HIDE DEF t
<1>2. PICK k0 \in DOMAIN s : Mentions(s[k0], i)
  OBVIOUS
<1>3. Len(q) + k0 \in DOMAIN t /\ Mentions(t[Len(q) + k0], i)
  BY <1>1, <1>2
<1>4. \A k \in DOMAIN t : IsLastWord(t, i, k) => (Shows(t[k], i) <=> pending)
  <2> SUFFICES ASSUME NEW k \in DOMAIN t, IsLastWord(t, i, k)
               PROVE  Shows(t[k], i) <=> pending
    OBVIOUS
  <2>1. ~(Len(q) + k0 > k)
    BY <1>3 DEF IsLastWord
  <2>2. k - Len(q) \in 1 .. Len(s) /\ k = Len(q) + (k - Len(q))
    BY <1>1, <1>2, <2>1
  <2>3. t[k] = s[k - Len(q)]
    BY <1>1, <2>2
  <2> QED BY <1>1, <2>2, <2>3 DEF IsLastWord
<1>5. ~(\A k \in DOMAIN t : ~Mentions(t[k], i))
  BY <1>3
<1>6. Tracks(t, i, shown, pending, ahead)
  BY <1>4, <1>5 DEF Tracks
<1> QED BY <1>6 DEF t

(* Receiving the oldest frame keeps the page in step. *)
LEMMA TailTracks ==
  ASSUME NEW q \in Seq(ServerFrame), q # <<>>, NEW i \in Ids, NEW cards \in SUBSET Ids,
         NEW pending \in BOOLEAN, NEW ahead \in BOOLEAN,
         Tracks(q, i, i \in cards, pending, ahead)
  PROVE  Tracks(Tail(q), i, i \in ApplyEvent(cards, Head(q)), pending, ahead)
<1> DEFINE t == Tail(q)
           h == Head(q)
<1>1. /\ Len(q) \in Nat \ {0}
      /\ DOMAIN q = 1 .. Len(q)
      /\ DOMAIN t = 1 .. Len(q) - 1
      /\ \A k \in 1 .. Len(q) - 1 : t[k] = q[k + 1]
      /\ h = q[1]
  BY TailFacts
<1>2. h \in ServerFrame
  BY <1>1
<1> HIDE DEF t, h
<1>3. \A k \in DOMAIN t : k + 1 \in DOMAIN q /\ t[k] = q[k + 1]
  BY <1>1
<1>4. \A k \in DOMAIN t : IsLastWord(t, i, k) => IsLastWord(q, i, k + 1)
  <2> SUFFICES ASSUME NEW k \in DOMAIN t, IsLastWord(t, i, k)
               PROVE  IsLastWord(q, i, k + 1)
    OBVIOUS
  <2>1. k + 1 \in DOMAIN q /\ Mentions(q[k + 1], i)
    BY <1>3 DEF IsLastWord
  <2>2. ASSUME NEW j \in DOMAIN q, j > k + 1
        PROVE  ~Mentions(q[j], i)
    <3>1. j - 1 \in DOMAIN t /\ j - 1 > k /\ j = (j - 1) + 1
      BY <1>1, <2>2
    <3>2. ~Mentions(t[j - 1], i)
      BY <3>1 DEF IsLastWord
    <3> QED BY <1>3, <3>1, <3>2
  <2> QED BY <2>1, <2>2 DEF IsLastWord
<1>5. \A k \in DOMAIN t : IsLastWord(t, i, k) => (Shows(t[k], i) <=> pending)
  BY <1>3, <1>4 DEF Tracks
<1>6. ASSUME \A k \in DOMAIN t : ~Mentions(t[k], i)
      PROVE  /\ i \in ApplyEvent(cards, h) => pending
             /\ pending => (i \in ApplyEvent(cards, h) \/ ahead)
  <2>1. \A j \in DOMAIN q : j > 1 => ~Mentions(q[j], i)
    <3> SUFFICES ASSUME NEW j \in DOMAIN q, j > 1
                 PROVE  ~Mentions(q[j], i)
      OBVIOUS
    <3>1. j - 1 \in DOMAIN t /\ j = (j - 1) + 1
      BY <1>1
    <3> QED BY <1>3, <1>6, <3>1
  <2>2. CASE Mentions(h, i)
    <3>1. IsLastWord(q, i, 1) /\ 1 \in DOMAIN q
      BY <1>1, <2>1, <2>2 DEF IsLastWord
    <3>2. Shows(h, i) <=> pending
      BY <1>1, <3>1 DEF Tracks
    <3>3. i \in ApplyEvent(cards, h) <=> Shows(h, i)
      BY <1>2, <2>2 DEF ServerFrame, Mentions, Shows, ApplyEvent
    <3> QED BY <3>2, <3>3
  <2>3. CASE ~Mentions(h, i)
    <3>1. \A k \in DOMAIN q : ~Mentions(q[k], i)
      BY <1>1, <2>1, <2>3
    <3>2. i \in ApplyEvent(cards, h) <=> i \in cards
      BY <1>2, <2>3 DEF ServerFrame, Mentions, ApplyEvent
    <3> QED BY <3>1, <3>2 DEF Tracks
  <2> QED BY <2>2, <2>3
<1>7. Tracks(t, i, i \in ApplyEvent(cards, h), pending, ahead)
  BY <1>5, <1>6 DEF Tracks
<1> QED BY <1>7 DEF t, h

(* A page that shows less, when an answer that covers the difference is on *)
(* its way, is still in step.                                              *)
LEMMA TracksWeaken ==
  ASSUME NEW q, NEW i, NEW shown, NEW pending, NEW ahead, NEW less, NEW more,
         Tracks(q, i, shown, pending, ahead),
         less => shown, shown => (less \/ more), ahead => more
  PROVE  Tracks(q, i, less, pending, more)
BY DEF Tracks

(* An answer that is not the oldest frame is still ahead once that is read. *)
LEMMA AnswerTail ==
  ASSUME NEW frames \in Seq(ClientFrame), frames # <<>>, NEW i,
         AnswerAhead(frames, i), ~Answers(Head(frames), i)
  PROVE  AnswerAhead(Tail(frames), i)
<1>1. PICK k \in DOMAIN frames : Answers(frames[k], i)
  BY DEF AnswerAhead
<1>2. /\ Len(frames) \in Nat \ {0}
      /\ DOMAIN frames = 1 .. Len(frames)
      /\ DOMAIN Tail(frames) = 1 .. Len(frames) - 1
      /\ \A j \in 1 .. Len(frames) - 1 : Tail(frames)[j] = frames[j + 1]
      /\ Head(frames) = frames[1]
  BY TailFacts
<1>3. k # 1
  BY <1>1, <1>2
<1>4. k - 1 \in 1 .. Len(frames) - 1 /\ (k - 1) + 1 = k
  BY <1>1, <1>2, <1>3
<1>5. Tail(frames)[k - 1] = frames[k]
  BY <1>2, <1>4
<1> QED BY <1>1, <1>2, <1>4, <1>5 DEF AnswerAhead

(* A frame sent now is behind those sent before it. *)
LEMMA AnswerAppend ==
  ASSUME NEW frames \in Seq(ClientFrame), NEW m \in ClientFrame, NEW i
  PROVE  /\ AnswerAhead(frames, i) => AnswerAhead(Append(frames, m), i)
         /\ Answers(m, i) => AnswerAhead(Append(frames, m), i)
<1>1. /\ Len(frames) \in Nat /\ DOMAIN frames = 1 .. Len(frames)
      /\ DOMAIN Append(frames, m) = 1 .. Len(frames) + 1
      /\ \A k \in 1 .. Len(frames) : Append(frames, m)[k] = frames[k]
      /\ Append(frames, m)[Len(frames) + 1] = m
  OBVIOUS
<1>2. AnswerAhead(frames, i) => AnswerAhead(Append(frames, m), i)
  <2> SUFFICES ASSUME NEW k \in DOMAIN frames, Answers(frames[k], i)
               PROVE  AnswerAhead(Append(frames, m), i)
    BY DEF AnswerAhead
  <2>1. k \in DOMAIN Append(frames, m) /\ Append(frames, m)[k] = frames[k]
    BY <1>1
  <2> QED BY <2>1 DEF AnswerAhead
<1>3. Answers(m, i) => AnswerAhead(Append(frames, m), i)
  <2>1. Len(frames) + 1 \in DOMAIN Append(frames, m)
    BY <1>1
  <2> QED BY <1>1, <2>1 DEF AnswerAhead
<1> QED BY <1>2, <1>3

(* One new frame about j: silent on every other id, and settling j itself. *)
LEMMA OneFrame ==
  ASSUME NEW q \in Seq(ServerFrame), NEW m \in ServerFrame, NEW i \in Ids,
         NEW shown \in BOOLEAN, NEW pending \in BOOLEAN, NEW ahead \in BOOLEAN,
         \/ ~Mentions(m, i) /\ Tracks(q, i, shown, pending, ahead)
         \/ Mentions(m, i) /\ (Shows(m, i) <=> pending)
  PROVE  Tracks(q \o <<m>>, i, shown, pending, ahead)
<1>1. /\ <<m>> \in Seq(ServerFrame)
      /\ DOMAIN <<m>> = {1}
      /\ <<m>>[1] = m
  OBVIOUS
<1>2. CASE ~Mentions(m, i) /\ Tracks(q, i, shown, pending, ahead)
  <2>1. \A k \in DOMAIN <<m>> : ~Mentions(<<m>>[k], i)
    BY <1>1, <1>2
  <2> QED BY <1>1, <1>2, <2>1, ConcatSilent
<1>3. CASE Mentions(m, i) /\ (Shows(m, i) <=> pending)
  <2>1. /\ \E k \in DOMAIN <<m>> : Mentions(<<m>>[k], i)
        /\ \A k \in DOMAIN <<m>> : Mentions(<<m>>[k], i) => (Shows(<<m>>[k], i) <=> pending)
    BY <1>1, <1>3
  <2> QED BY <1>1, <2>1, ConcatSays
<1> QED BY <1>2, <1>3

(* The ids that are pending after each operation of the broker. *)
LEMMA PendingAfter ==
  ASSUME BrokerInv
  PROVE  /\ \A c \in Conns, j \in Ids : Create(c, j) => Pending' = Pending \cup {j}
         /\ \A j \in Ids : \A v, b : Resolve(j, v, b) => Pending' = Pending \ {j}
         /\ \A c \in Conns : Disconnect(c) => Pending' = Pending \ Orphans(c)
         /\ UNCHANGED requests => Pending' = Pending
<1>1. requests \in [Ids -> Conns \cup {NoConn}] /\ NoConn \notin Conns
  BY ConnsNumbers DEF BrokerInv, BrokerTypeOK
<1>2. \A c \in Conns, j \in Ids : Create(c, j) => Pending' = Pending \cup {j}
  BY <1>1 DEF Create, Pending
<1>3. \A j \in Ids : \A v, b : Resolve(j, v, b) => Pending' = Pending \ {j}
  BY <1>1 DEF Resolve, Pending
<1>4. \A c \in Conns : Disconnect(c) => Pending' = Pending \ Orphans(c)
  BY <1>1 DEF Disconnect, Pending, Orphans
<1>5. UNCHANGED requests => Pending' = Pending
  BY DEF Pending
<1> QED BY <1>2, <1>3, <1>4, <1>5

(* What each builder's frame says of an id. *)
LEMMA FramesSay ==
  ASSUME NEW i \in Ids, NEW j \in Ids, NEW S \in SUBSET Ids
  PROVE  /\ Mentions(AddedFrame(j), i) <=> i = j
         /\ Shows(AddedFrame(j), i)
         /\ Mentions(ResolvedFrame(j), i) <=> i = j
         /\ ~Shows(ResolvedFrame(j), i)
         /\ Mentions(SnapshotFrame(S), i)
         /\ Shows(SnapshotFrame(S), i) <=> i \in S
BY DEF Mentions, Shows, AddedFrame, ResolvedFrame, SnapshotFrame

(* create keeps every page in step: a new request is announced to all. *)
LEMMA CreateTracks ==
  ASSUME BrokerInv, NEW d \in Conns, NEW j \in Ids, Create(d, j),
         NEW c \in pwas \cap pumping, NEW i \in Ids,
         NEW shown \in BOOLEAN, NEW ahead \in BOOLEAN,
         Tracks(outbox[c], i, shown, i \in Pending, ahead)
  PROVE  Tracks(outbox'[c], i, shown, i \in Pending', ahead)
<1>1. Pending' = Pending \cup {j}
  BY PendingAfter
<1>2. CASE j \in Pending
  BY <1>1, <1>2 DEF Create
<1>3. CASE j \notin Pending
  <2>1. c \in Conns /\ outbox[c] \in Seq(ServerFrame) /\ AddedFrame(j) \in ServerFrame
    BY ServerFrames DEF BrokerInv, BrokerTypeOK
  <2>2. outbox'[c] = outbox[c] \o <<AddedFrame(j)>>
    BY <1>3, <2>1 DEF Create, Broadcast
  <2>3. CASE i = j
    <3>1. Mentions(AddedFrame(j), i) /\ Shows(AddedFrame(j), i)
      BY <2>3, FramesSay
    <3>2. i \in Pending'
      BY <1>1, <2>3
    <3>3. Tracks(outbox[c] \o <<AddedFrame(j)>>, i, shown, TRUE, ahead)
      BY <2>1, <3>1, OneFrame
    <3> QED BY <2>2, <3>2, <3>3 DEF Tracks
  <2>4. CASE i # j
    <3>1. ~Mentions(AddedFrame(j), i)
      BY <2>4, FramesSay
    <3>2. i \in Pending' <=> i \in Pending
      BY <1>1, <2>4
    <3>3. Tracks(outbox[c] \o <<AddedFrame(j)>>, i, shown, i \in Pending, ahead)
      <4>1. (i \in Pending) \in BOOLEAN
        OBVIOUS
      <4> QED BY <2>1, <3>1, <4>1, OneFrame
    <3> QED BY <2>2, <3>2, <3>3 DEF Tracks
  <2> QED BY <2>3, <2>4
<1> QED BY <1>2, <1>3

(* What resolve of a pending request adds to a PWA's queue: owners are     *)
(* daemons, so the decision frame never goes to a PWA.                     *)
LEMMA ResolvedQueue ==
  ASSUME BrokerInv, NEW j \in Pending, NEW v, NEW b, Resolve(j, v, b),
         NEW c \in pwas \cap pumping
  PROVE  outbox'[c] = outbox[c] \o <<ResolvedFrame(j)>>
<1>1. c \in Conns /\ c \notin daemons
  BY DEF BrokerInv, BrokerTypeOK, ConnsDistinct
<1>2. outbox'[c] = ResolvedOutbox(j, v, b)[c]
  BY DEF Resolve
<1>3. outbox'[c] = Broadcast(<<ResolvedFrame(j)>>)[c]
  BY <1>1, <1>2 DEF ResolvedOutbox
<1> QED BY <1>1, <1>3 DEF Broadcast

(* resolve settles its request for every page, whatever it showed. *)
LEMMA ResolveSettles ==
  ASSUME BrokerInv, NEW i \in Pending, NEW v, NEW b, Resolve(i, v, b),
         NEW c \in pwas \cap pumping,
         NEW shown \in BOOLEAN, NEW ahead \in BOOLEAN
  PROVE  Tracks(outbox'[c], i, shown, i \in Pending', ahead)
<1>1. i \in Ids /\ Pending' = Pending \ {i}
  BY PendingAfter DEF Pending
<1>2. outbox[c] \in Seq(ServerFrame) /\ ResolvedFrame(i) \in ServerFrame
  BY <1>1, ServerFrames DEF BrokerInv, BrokerTypeOK
<1>3. outbox'[c] = outbox[c] \o <<ResolvedFrame(i)>>
  BY ResolvedQueue
<1>4. Mentions(ResolvedFrame(i), i) /\ ~Shows(ResolvedFrame(i), i)
  BY <1>1, FramesSay
<1>5. Tracks(outbox[c] \o <<ResolvedFrame(i)>>, i, shown, FALSE, ahead)
  BY <1>1, <1>2, <1>4, OneFrame
<1> QED BY <1>1, <1>3, <1>5 DEF Tracks

(* resolve keeps every page in step, on its own request and on the others. *)
LEMMA ResolveTracks ==
  ASSUME BrokerInv, NEW j \in Ids, NEW v, NEW b, Resolve(j, v, b),
         NEW c \in pwas \cap pumping, NEW i \in Ids,
         NEW shown \in BOOLEAN, NEW ahead \in BOOLEAN,
         Tracks(outbox[c], i, shown, i \in Pending, ahead)
  PROVE  Tracks(outbox'[c], i, shown, i \in Pending', ahead)
<1>1. Pending' = Pending \ {j}
  BY PendingAfter
<1>2. CASE j \notin Pending
  <2>1. outbox'[c] = outbox[c] /\ (i \in Pending' <=> i \in Pending)
    BY <1>1, <1>2 DEF Resolve
  <2> QED BY <2>1 DEF Tracks
<1>3. CASE j \in Pending /\ i = j
  BY <1>3, ResolveSettles
<1>4. CASE j \in Pending /\ i # j
  <2>1. outbox[c] \in Seq(ServerFrame) /\ ResolvedFrame(j) \in ServerFrame
    BY ServerFrames DEF BrokerInv, BrokerTypeOK
  <2>2. outbox'[c] = outbox[c] \o <<ResolvedFrame(j)>>
    BY <1>4, ResolvedQueue
  <2>3. ~Mentions(ResolvedFrame(j), i)
    BY <1>4, FramesSay
  <2>4. Tracks(outbox[c] \o <<ResolvedFrame(j)>>, i, shown, i \in Pending, ahead)
    <3>1. (i \in Pending) \in BOOLEAN
      OBVIOUS
    <3> QED BY <2>1, <2>3, <3>1, OneFrame
  <2>5. i \in Pending' <=> i \in Pending
    BY <1>1, <1>4
  <2> QED BY <2>2, <2>4, <2>5 DEF Tracks
<1> QED BY <1>2, <1>3, <1>4

(* A snapshot settles every id for the page that asked for it. *)
LEMMA SnapshotSettles ==
  ASSUME BrokerInv, NEW c \in pwas \cap pumping, SendSnapshot(c), NEW i \in Ids,
         NEW shown \in BOOLEAN, NEW ahead \in BOOLEAN
  PROVE  Tracks(outbox'[c], i, shown, i \in Pending', ahead)
<1>1. Pending' = Pending /\ Pending \in SUBSET Ids
  BY PendingAfter DEF SendSnapshot, Pending
<1>2. c \in Conns /\ outbox[c] \in Seq(ServerFrame) /\ SnapshotFrame(Pending) \in ServerFrame
  BY <1>1, ServerFrames DEF BrokerInv, BrokerTypeOK
<1>3. outbox'[c] = Append(outbox[c], SnapshotFrame(Pending))
  BY <1>2 DEF SendSnapshot, BrokerInv, BrokerTypeOK
<1>4. Append(outbox[c], SnapshotFrame(Pending)) = outbox[c] \o <<SnapshotFrame(Pending)>>
  BY <1>2
<1>5. Mentions(SnapshotFrame(Pending), i) /\ (Shows(SnapshotFrame(Pending), i) <=> i \in Pending)
  BY <1>1, FramesSay
<1>6. Tracks(outbox[c] \o <<SnapshotFrame(Pending)>>, i, shown, i \in Pending, ahead)
  <2>1. (i \in Pending) \in BOOLEAN
    OBVIOUS
  <2> QED BY <1>2, <1>5, <2>1, OneFrame
<1> QED BY <1>1, <1>3, <1>4, <1>6

(* on_message keeps every page in step, whoever sent the frame. *)
LEMMA OnMessageTracks ==
  ASSUME BrokerInv, NEW d \in daemons \cup pwas, NEW m \in ClientFrame, OnMessage(d, m),
         NEW c \in pwas \cap pumping, NEW i \in Ids,
         NEW shown \in BOOLEAN, NEW ahead \in BOOLEAN,
         Tracks(outbox[c], i, shown, i \in Pending, ahead)
  PROVE  Tracks(outbox'[c], i, shown, i \in Pending', ahead)
<1>0. d \in Conns
  BY DEF BrokerInv, BrokerTypeOK
<1>1. CASE IsCreate(d, m) /\ Create(d, m.id)
  BY <1>0, <1>1, CreateTracks DEF IsCreate
<1>2. CASE IsDecision(m) /\ Resolve(m.id, m.verdict, d \in daemons)
  BY <1>2, ResolveTracks DEF IsDecision
<1>3. CASE IsWithdraw(d, m) /\ Resolve(m.id, NoVerdict, TRUE)
  BY <1>3, ResolveTracks DEF IsWithdraw
<1>4. CASE IsSubscribe(d, m) /\ SendSnapshot(d)
  <2>1. CASE d = c
    BY <1>4, <2>1, SnapshotSettles
  <2>2. CASE d # c
    <3>1. outbox'[c] = outbox[c]
      BY <1>0, <1>4, <2>2 DEF SendSnapshot, BrokerInv, BrokerTypeOK
    <3>2. Pending' = Pending
      BY <1>4, PendingAfter DEF SendSnapshot
    <3> QED BY <3>1, <3>2
  <2> QED BY <2>1, <2>2
<1>5. CASE UNCHANGED brokerVars
  <2>1. outbox' = outbox /\ Pending' = Pending
    BY <1>5, PendingAfter DEF brokerVars
  <2> QED BY <2>1
<1> QED BY <1>1, <1>2, <1>3, <1>4, <1>5 DEF OnMessage

(* Once the subscription of c is read, c's queue is right about every id. *)
LEMMA SubscribeSettles ==
  ASSUME BrokerInv, NEW m \in ClientFrame, m.type = "subscribe",
         NEW c \in pwas \cap pumping, OnMessage(c, m), NEW i \in Ids,
         NEW shown \in BOOLEAN, NEW ahead \in BOOLEAN
  PROVE  Tracks(outbox'[c], i, shown, i \in Pending', ahead)
<1>1. SendSnapshot(c)
  BY DEF OnMessage, IsCreate, IsDecision, IsWithdraw, IsSubscribe
<1> QED BY <1>1, SnapshotSettles

(* Once the answer of c's page is read, nothing is ahead any more and the  *)
(* queue is right without it.  A decision on an id that is no longer       *)
(* pending changes nothing, and the page that made it shows no card.       *)
LEMMA AnswerSettles ==
  ASSUME BrokerInv, NEW m \in ClientFrame, NEW i \in Ids, Answers(m, i),
         NEW c \in pwas \cap pumping, OnMessage(c, m),
         NEW shown \in BOOLEAN, NEW ahead \in BOOLEAN, NEW later \in BOOLEAN,
         Tracks(outbox[c], i, shown, i \in Pending, ahead)
  PROVE  Tracks(outbox'[c], i, shown, i \in Pending', later)
<1>1. CASE m.type = "subscribe"
  BY <1>1, SubscribeSettles
<1>2. CASE IsDecision(m) /\ m.id = i
  <2>1. Resolve(i, m.verdict, c \in daemons)
    BY <1>2 DEF OnMessage, IsCreate, IsDecision, IsWithdraw, IsSubscribe
  <2>2. CASE i \in Pending
    BY <2>1, <2>2, ResolveSettles
  <2>3. CASE i \notin Pending
    <3>1. outbox'[c] = outbox[c] /\ i \notin Pending'
      BY <2>1, <2>3, PendingAfter DEF Resolve
    <3> QED BY <2>3, <3>1 DEF Tracks
  <2> QED BY <2>2, <2>3
<1> QED BY <1>1, <1>2 DEF Answers

(* disconnect dismisses every orphan on every other page, in some order. *)
LEMMA DisconnectTracks ==
  ASSUME BrokerInv, NEW d \in Conns, Disconnect(d),
         NEW c \in pwas \cap pumping, c # d, NEW i \in Ids,
         NEW shown \in BOOLEAN, NEW ahead \in BOOLEAN,
         Tracks(outbox[c], i, shown, i \in Pending, ahead)
  PROVE  Tracks(outbox'[c], i, shown, i \in Pending', ahead)
<1>1. PICK order \in Orderings(Orphans(d)) :
        outbox' = [Broadcast([k \in DOMAIN order |-> ResolvedFrame(order[k])])
                     EXCEPT ![d] = <<>>]
  BY DEF Disconnect
<1> DEFINE dismissed == [k \in DOMAIN order |-> ResolvedFrame(order[k])]
<1>2. /\ order \in [1 .. Cardinality(Orphans(d)) -> Ids]
      /\ Cardinality(Orphans(d)) \in Nat
      /\ \A k \in DOMAIN order : order[k] \in Orphans(d)
      /\ \A x \in Orphans(d) : \E k \in DOMAIN order : order[k] = x
  <2>1. Cardinality(Orphans(d)) \in Nat
    BY BrokerAssumption, FS_Subset, FS_CardinalityType DEF Orphans
  <2>2. order \in [1 .. Cardinality(Orphans(d)) -> Orphans(d)]
    BY DEF Orderings
  <2>3. \A x \in Orphans(d) : \E k \in DOMAIN order : order[k] = x
    BY DEF Orderings
  <2> QED BY <2>1, <2>2, <2>3 DEF Orphans
<1>3. dismissed \in Seq(ServerFrame) /\ DOMAIN dismissed = DOMAIN order
  BY <1>2, ServerFrames
<1>4. \A k \in DOMAIN dismissed : dismissed[k] = ResolvedFrame(order[k]) /\ order[k] \in Ids
  BY <1>2
<1>5. c \in Conns /\ outbox[c] \in Seq(ServerFrame)
  BY DEF BrokerInv, BrokerTypeOK
<1>6. outbox'[c] = outbox[c] \o dismissed
  BY <1>1, <1>5 DEF Broadcast
<1>7. Pending' = Pending \ Orphans(d)
  BY PendingAfter
<1> HIDE DEF dismissed
<1>8. \A k \in DOMAIN dismissed : /\ Mentions(dismissed[k], i) <=> i = order[k]
                                  /\ ~Shows(dismissed[k], i)
  BY <1>4, FramesSay
<1>9. CASE i \in Orphans(d)
  <2>1. \E k \in DOMAIN dismissed : Mentions(dismissed[k], i)
    BY <1>2, <1>3, <1>8, <1>9
  <2>2. Tracks(outbox[c] \o dismissed, i, shown, FALSE, ahead)
    BY <1>3, <1>5, <1>8, <2>1, ConcatSays
  <2> QED BY <1>6, <1>7, <1>9, <2>2 DEF Tracks
<1>10. CASE i \notin Orphans(d)
  <2>1. \A k \in DOMAIN dismissed : ~Mentions(dismissed[k], i)
    BY <1>2, <1>3, <1>8, <1>10
  <2>2. (i \in Pending) \in BOOLEAN
    OBVIOUS
  <2>3. Tracks(outbox[c] \o dismissed, i, shown, i \in Pending, ahead)
    BY <1>3, <1>5, <2>1, <2>2, ConcatSilent
  <2> QED BY <1>6, <1>7, <1>10, <2>3 DEF Tracks
<1> QED BY <1>9, <1>10

-----------------------------------------------------------------------------
(* The sockets: a number in use was handed out, to one browser only. *)
SocketsOwned ==
  /\ \A p \in Pwas : conn[p] # NoConn => conn[p] \in Conns /\ conn[p] < nextConn
  /\ \A p, q \in Pwas : conn[p] = conn[q] /\ conn[p] # NoConn => p = q
  /\ \A c \in subscribed : c < nextConn

(* The inductive invariant. *)
MediationInv == MediationTypeOK /\ BrokerInv /\ SocketsOwned /\ InboxMirrors

(* What InboxMirrors says of browser p and id i. *)
Mirrors(p, i) ==
  (Alive(p) /\ conn[p] \in subscribed) =>
    Tracks(outbox[conn[p]], i, i \in inbox[p], i \in Pending, AnswerAhead(up[conn[p]], i))

(* Broker and browsers start within the invariant. *)
LEMMA MediationInitInv == MediationInit => MediationInv
<1> SUFFICES ASSUME MediationInit PROVE MediationInv
  OBVIOUS
<1>1. BrokerInv
  BY InitInv DEF MediationInit
<1>2. MediationTypeOK
  BY <1>1 DEF MediationInit, MediationTypeOK, BrokerInv
<1>3. SocketsOwned /\ InboxMirrors
  BY DEF MediationInit, SocketsOwned, InboxMirrors
<1> QED BY <1>1, <1>2, <1>3 DEF MediationInv

(* The parts of the invariant about types, the broker and the sockets. *)
Grounds == MediationTypeOK /\ BrokerInv /\ SocketsOwned

(* Every step keeps the broker's invariant: it is one of its operations. *)
LEMMA BrokerPart ==
  ASSUME Grounds, MediationStep
  PROVE  BrokerInv'
<1> USE DEF Grounds
<1>1. CASE \E p \in Pwas : PwaConnect(p)
  BY <1>1, RegisterInv DEF PwaConnect, Role
<1>2. CASE \/ \E p \in Pwas : PwaResubscribe(p)
           \/ \E p \in Pwas, i \in Ids, v \in Verdict : PwaDecide(p, i, v)
           \/ \E p \in Pwas, i \in Ids, v \in Verdict : NotificationDecide(p, i, v)
           \/ \E p \in Pwas : PwaClose(p)
  <2>1. UNCHANGED brokerVars
    BY <1>2 DEF PwaResubscribe, PwaDecide, NotificationDecide, PwaClose
  <2> QED BY <2>1, NextInv
<1>3. CASE \E p \in Pwas : PwaReceive(p)
  <2>1. PICK p \in Pwas : PwaReceive(p)
    BY <1>3
  <2>2. conn[p] \in Conns
    BY <2>1 DEF PwaReceive, SocketsOwned
  <2> QED BY <2>1, <2>2, PumpInv DEF PwaReceive
<1>4. CASE \E c \in Conns : BrokerReceive(c)
  <2>1. PICK c \in Conns : BrokerReceive(c)
    BY <1>4
  <2>2. Head(up[c]) \in ClientFrame
    BY <2>1 DEF BrokerReceive, MediationTypeOK
  <2> QED BY <2>1, <2>2, OnMessageInv DEF BrokerReceive
<1>5. CASE \E c \in Conns, m \in ClientFrame : DaemonFrame(c, m)
  BY <1>5, OnMessageInv DEF DaemonFrame, Receive
<1>6. CASE DaemonConnect
  BY <1>6, RegisterInv DEF DaemonConnect, Role
<1>7. CASE \E c \in Conns : PumpElsewhere(c) \/ CutSend(c)
  BY <1>7, PumpInv DEF PumpElsewhere, CutSend
<1>8. CASE \E c \in Conns : CutReceive(c)
  BY <1>8, DisconnectInv DEF CutReceive
<1>9. CASE BrokerRestart
  BY <1>9, RestartInv DEF BrokerRestart
<1> QED BY <1>1, <1>2, <1>3, <1>4, <1>5, <1>6, <1>7, <1>8, <1>9 DEF MediationStep

(* Connection numbers are handed out in order, and none is taken back. *)
LEMMA NumbersGrow ==
  ASSUME Grounds, MediationStep
  PROVE  /\ nextConn \in Nat /\ nextConn' \in Nat
         /\ nextConn' = nextConn \/ nextConn' = nextConn + 1
<1>1. nextConn \in Nat
  BY BrokerAssumption DEF Grounds, BrokerInv, BrokerTypeOK
<1>2. nextConn' = nextConn \/ nextConn' = nextConn + 1
  BY DEF MediationStep, PwaConnect, PwaResubscribe, PwaDecide, NotificationDecide,
         PwaReceive, PwaClose, BrokerReceive, DaemonFrame, DaemonConnect, PumpElsewhere,
         CutSend, CutReceive, BrokerRestart, brokerVars, Register, PumpSend, PumpFail,
         Receive, OnMessage, Create, Resolve, SendSnapshot, Disconnect, Restart
<1> QED BY <1>1, <1>2

(* The ClientFrames a browser sends. *)
LEMMA ClientFrames ==
  /\ SubscribeFrame \in ClientFrame
  /\ \A i \in Ids, v \in Verdict : DecisionFrame(i, v) \in ClientFrame
  /\ \A i \in Ids : Answers(SubscribeFrame, i)
  /\ \A i \in Ids, v \in Verdict : Answers(DecisionFrame(i, v), i)
<1>1. /\ SubscribeFrame \in ClientFrame
      /\ \A i \in Ids, v \in Verdict : DecisionFrame(i, v) \in ClientFrame
  BY DEF SubscribeFrame, DecisionFrame, ClientFrame, WireVerdict
<1>2. \A i \in Ids : Answers(SubscribeFrame, i)
  BY DEF SubscribeFrame, Answers
<1>3. \A i \in Ids, v \in Verdict : Answers(DecisionFrame(i, v), i)
  BY DEF DecisionFrame, Answers, IsDecision, DecisionVerdict, ParseVerdict, Verdict, NoVerdict
<1> QED BY <1>1, <1>2, <1>3

(* A frame written to a socket leaves the other queues alone. *)
LEMMA SendType ==
  ASSUME Grounds, NEW p \in Pwas, conn[p] # NoConn, NEW m \in ClientFrame, Send(p, m)
  PROVE  /\ up' \in [Conns -> Seq(ClientFrame)]
         /\ up'[conn[p]] = Append(up[conn[p]], m)
         /\ \A c \in Conns : c # conn[p] => up'[c] = up[c]
<1>1. conn[p] \in Conns /\ up \in [Conns -> Seq(ClientFrame)]
  BY DEF Grounds, SocketsOwned, MediationTypeOK
<1>2. Append(up[conn[p]], m) \in Seq(ClientFrame)
  BY <1>1
<1> QED BY <1>1, <1>2 DEF Send

(* Every step keeps the types and the ownership of sockets. *)
LEMMA GroundsStep ==
  ASSUME Grounds, MediationStep
  PROVE  Grounds'
<1>0. BrokerInv' /\ BrokerTypeOK'
  BY BrokerPart DEF BrokerInv
<1>1. /\ nextConn \in Nat /\ nextConn' \in Nat
      /\ nextConn' = nextConn \/ nextConn' = nextConn + 1
  BY NumbersGrow
<1>2. /\ conn \in [Pwas -> Conns \cup {NoConn}]
      /\ inbox \in [Pwas -> SUBSET Ids]
      /\ up \in [Conns -> Seq(ClientFrame)]
      /\ subscribed \subseteq Conns
      /\ Conns \subseteq Nat /\ NoConn \notin Conns
  BY ConnsNumbers DEF Grounds, MediationTypeOK
<1>3. /\ \A p \in Pwas : conn[p] # NoConn => conn[p] \in Conns /\ conn[p] < nextConn
      /\ \A p, q \in Pwas : conn[p] = conn[q] /\ conn[p] # NoConn => p = q
      /\ \A c \in subscribed : c < nextConn
  BY DEF Grounds, SocketsOwned
<1>4. ASSUME UNCHANGED conn, subscribed' \subseteq subscribed,
             inbox' \in [Pwas -> SUBSET Ids], up' \in [Conns -> Seq(ClientFrame)]
      PROVE  Grounds'
  <2>1. \A c \in Conns : c < nextConn => c < nextConn'
    BY <1>1, <1>2
  <2>2. SocketsOwned'
    BY <1>2, <1>3, <1>4, <2>1 DEF SocketsOwned
  <2> QED BY <1>0, <1>2, <1>4, <2>2 DEF Grounds, MediationTypeOK
<1>5. CASE \E p \in Pwas : PwaConnect(p)
  <2>1. PICK p \in Pwas : PwaConnect(p)
    BY <1>5
  <2>2. nextConn \in Conns /\ nextConn # NoConn /\ nextConn' = nextConn + 1
    BY <1>1, <1>2, <2>1, BrokerAssumption DEF PwaConnect, Register, Conns
  <2>3. up' \in [Conns -> Seq(ClientFrame)]
    <3>1. <<SubscribeFrame>> \in Seq(ClientFrame)
      BY ClientFrames
    <3> QED BY <1>2, <2>1, <3>1 DEF PwaConnect
  <2>4. conn' \in [Pwas -> Conns \cup {NoConn}]
    BY <1>2, <2>1, <2>2 DEF PwaConnect
  <2>5. MediationTypeOK'
    BY <1>0, <1>2, <2>1, <2>3, <2>4 DEF PwaConnect, MediationTypeOK
  <2>6. conn'[p] = nextConn /\ \A q \in Pwas : q # p => conn'[q] = conn[q]
    BY <1>2, <2>1 DEF PwaConnect
  <2>7. \A q \in Pwas : conn'[q] # NoConn => conn'[q] \in Conns /\ conn'[q] < nextConn'
    <3> SUFFICES ASSUME NEW q \in Pwas, conn'[q] # NoConn
                 PROVE  conn'[q] \in Conns /\ conn'[q] < nextConn'
      OBVIOUS
    <3>1. CASE q = p
      BY <1>1, <2>2, <2>6, <3>1
    <3>2. CASE q # p
      <4>1. conn'[q] \in Conns /\ conn'[q] < nextConn
        BY <1>3, <2>6, <3>2
      <4>2. conn'[q] \in Nat
        BY <1>2, <4>1
      <4> QED BY <1>1, <2>2, <4>1, <4>2
    <3> QED BY <3>1, <3>2
  <2>8. \A q \in Pwas : q # p => conn'[q] # nextConn
    BY <1>1, <1>2, <1>3, <2>2, <2>6
  <2>9. \A q, r \in Pwas : conn'[q] = conn'[r] /\ conn'[q] # NoConn => q = r
    BY <1>3, <2>6, <2>8
  <2>10. \A c \in subscribed' : c < nextConn'
    BY <1>1, <1>2, <1>3, <2>1, <2>2 DEF PwaConnect
  <2> QED BY <1>0, <2>5, <2>7, <2>9, <2>10 DEF Grounds, SocketsOwned
<1>6. CASE \E p \in Pwas : PwaResubscribe(p)
  BY <1>2, <1>4, <1>6, SendType, ClientFrames DEF PwaResubscribe
<1>7. CASE \E p \in Pwas, i \in Ids, v \in Verdict : PwaDecide(p, i, v)
  BY <1>2, <1>4, <1>7, SendType, ClientFrames DEF PwaDecide
<1>8. CASE \E p \in Pwas, i \in Ids, v \in Verdict : NotificationDecide(p, i, v)
  BY <1>2, <1>4, <1>8, SendType, ClientFrames DEF NotificationDecide
<1>9. CASE \E p \in Pwas : PwaReceive(p)
  <2>1. PICK p \in Pwas : PwaReceive(p)
    BY <1>9
  <2>2. conn[p] \in Conns /\ outbox[conn[p]] \in Seq(ServerFrame) /\ outbox[conn[p]] # <<>>
    BY <1>3, <2>1 DEF PwaReceive, PumpSend, Grounds, BrokerInv, BrokerTypeOK
  <2>3. Head(outbox[conn[p]]) \in ServerFrame
    BY <2>2
  <2>4. \A m \in ServerFrame, cards \in SUBSET Ids : ApplyEvent(cards, m) \in SUBSET Ids
    BY DEF ServerFrame, ApplyEvent
  <2>5. inbox' \in [Pwas -> SUBSET Ids]
    BY <1>2, <2>1, <2>3, <2>4 DEF PwaReceive
  <2> QED BY <1>2, <1>4, <2>1, <2>5 DEF PwaReceive
<1>10. CASE \E p \in Pwas : PwaClose(p)
  <2>1. PICK p \in Pwas : PwaClose(p)
    BY <1>10
  <2>2. conn'[p] = NoConn /\ \A q \in Pwas : q # p => conn'[q] = conn[q]
    BY <1>2, <2>1 DEF PwaClose
  <2>3. nextConn' = nextConn
    BY <2>1 DEF PwaClose, brokerVars
  <2>4. SocketsOwned'
    BY <1>3, <2>1, <2>2, <2>3 DEF PwaClose, SocketsOwned
  <2>5. MediationTypeOK'
    BY <1>0, <1>2, <2>1 DEF PwaClose, MediationTypeOK
  <2> QED BY <1>0, <2>4, <2>5 DEF Grounds
<1>11. CASE \E c \in Conns : BrokerReceive(c)
  <2>1. PICK c \in Conns : BrokerReceive(c)
    BY <1>11
  <2>2. up' \in [Conns -> Seq(ClientFrame)]
    <3>1. up[c] # <<>> /\ Tail(up[c]) \in Seq(ClientFrame)
      BY <1>2, <2>1 DEF BrokerReceive
    <3> QED BY <1>2, <2>1, <3>1 DEF BrokerReceive
  <2>3. c < nextConn
    BY <2>1 DEF BrokerReceive, Grounds, BrokerInv, ConnsDistinct
  <2>4. subscribed' \subseteq subscribed \cup {c}
    BY <2>1 DEF BrokerReceive
  <2>5. SocketsOwned'
    <3>1. \A d \in subscribed' : d < nextConn'
      BY <1>1, <1>2, <1>3, <2>3, <2>4
    <3>2. \A d \in Conns : d < nextConn => d < nextConn'
      BY <1>1, <1>2
    <3> QED BY <1>3, <2>1, <3>1, <3>2 DEF BrokerReceive, SocketsOwned
  <2>6. MediationTypeOK'
    BY <1>0, <1>2, <2>1, <2>2, <2>4 DEF BrokerReceive, MediationTypeOK
  <2> QED BY <1>0, <2>5, <2>6 DEF Grounds
<1>12. CASE \/ \E c \in Conns, m \in ClientFrame : DaemonFrame(c, m)
            \/ DaemonConnect
            \/ \E c \in Conns : PumpElsewhere(c) \/ CutSend(c)
  BY <1>2, <1>4, <1>12 DEF DaemonFrame, DaemonConnect, PumpElsewhere, CutSend
<1>13. CASE \E c \in Conns : CutReceive(c)
  BY <1>2, <1>4, <1>13 DEF CutReceive
<1>14. CASE BrokerRestart
  BY <1>2, <1>4, <1>14 DEF BrokerRestart
<1> QED BY <1>5, <1>6, <1>7, <1>8, <1>9, <1>10, <1>11, <1>12, <1>13, <1>14 DEF MediationStep

-----------------------------------------------------------------------------
(* A step that touches neither p's queue, nor its page, nor what is         *)
(* pending, and forgets no answer of p, keeps p in step.                    *)
LEMMA Undisturbed ==
  ASSUME NEW p \in Pwas, NEW i \in Ids, Mirrors(p, i),
         Alive(p)' => Alive(p), conn'[p] = conn[p],
         conn'[p] \in subscribed' => conn[p] \in subscribed,
         (Alive(p) /\ Alive(p)') => outbox'[conn[p]] = outbox[conn[p]] /\ up'[conn[p]] = up[conn[p]],
         inbox'[p] = inbox[p], Pending' = Pending
  PROVE  Mirrors(p, i)'
BY DEF Mirrors

(* A frame that any client sent is handled: the pages whose own frames are *)
(* untouched stay in step.                                                 *)
LEMMA OthersStay ==
  ASSUME Grounds, NEW d \in daemons \cup pwas, NEW m \in ClientFrame, OnMessage(d, m),
         UNCHANGED <<conn, inbox>>,
         NEW p \in Pwas, NEW i \in Ids, Mirrors(p, i),
         conn[p] \in subscribed' => conn[p] \in subscribed,
         up'[conn[p]] = up[conn[p]]
  PROVE  Mirrors(p, i)'
<1>1. pwas' = pwas /\ pumping' = pumping
  BY DEF OnMessage, Create, Resolve, SendSnapshot, brokerVars
<1>2. SUFFICES ASSUME Alive(p), conn[p] \in subscribed
               PROVE  Tracks(outbox'[conn[p]], i, i \in inbox[p], i \in Pending',
                             AnswerAhead(up[conn[p]], i))
  BY <1>1 DEF Mirrors, Alive
<1>3. Tracks(outbox[conn[p]], i, i \in inbox[p], i \in Pending, AnswerAhead(up[conn[p]], i))
  BY <1>2 DEF Mirrors
<1>4. (i \in inbox[p]) \in BOOLEAN /\ AnswerAhead(up[conn[p]], i) \in BOOLEAN
  BY DEF AnswerAhead
<1> QED BY <1>2, <1>3, <1>4, OnMessageTracks DEF Alive, Grounds

(* The browser's own frames. *)
LEMMA SendMirrors ==
  ASSUME Grounds, NEW p \in Pwas, conn[p] # NoConn, NEW m \in ClientFrame, Send(p, m),
         UNCHANGED <<brokerVars, conn, subscribed>>,
         NEW q \in Pwas, NEW i \in Ids, Mirrors(q, i),
         q # p => inbox'[q] = inbox[q],
         q = p => /\ i \in inbox'[p] => i \in inbox[p]
                  /\ i \in inbox[p] => (i \in inbox'[p] \/ Answers(m, i))
  PROVE  Mirrors(q, i)'
<1>1. /\ up'[conn[p]] = Append(up[conn[p]], m)
      /\ \A c \in Conns : c # conn[p] => up'[c] = up[c]
  BY SendType
<1>2. Pending' = Pending /\ outbox' = outbox /\ (Alive(q)' <=> Alive(q))
  BY DEF Pending, brokerVars, Alive
<1>3. CASE q # p
  <2>1. Alive(q) => conn[q] \in Conns /\ conn[q] # conn[p]
    BY <1>3 DEF Grounds, SocketsOwned, BrokerInv, BrokerTypeOK, Alive
  <2> QED BY <1>1, <1>2, <1>3, <2>1, Undisturbed
<1>4. CASE q = p
  <2> SUFFICES ASSUME Alive(p), conn[p] \in subscribed
               PROVE  Tracks(outbox[conn[p]], i, i \in inbox'[p], i \in Pending,
                             AnswerAhead(up'[conn[p]], i))
    BY <1>2, <1>4 DEF Mirrors
  <2>1. Tracks(outbox[conn[p]], i, i \in inbox[p], i \in Pending, AnswerAhead(up[conn[p]], i))
    BY <1>4 DEF Mirrors
  <2>2. up[conn[p]] \in Seq(ClientFrame)
    BY DEF Grounds, SocketsOwned, MediationTypeOK
  <2>3. /\ AnswerAhead(up[conn[p]], i) => AnswerAhead(up'[conn[p]], i)
        /\ Answers(m, i) => AnswerAhead(up'[conn[p]], i)
    BY <1>1, <2>2, AnswerAppend
  <2>4. i \in inbox[p] => (i \in inbox'[p] \/ AnswerAhead(up'[conn[p]], i))
    BY <1>4, <2>3
  <2>5. i \in inbox'[p] => i \in inbox[p]
    BY <1>4
  <2> QED BY <2>1, <2>3, <2>4, <2>5 DEF Tracks
<1> QED BY <1>3, <1>4

(* The browser reads a frame. *)
LEMMA ReceiveMirrors ==
  ASSUME Grounds, NEW p \in Pwas, PwaReceive(p),
         NEW q \in Pwas, NEW i \in Ids, Mirrors(q, i)
  PROVE  Mirrors(q, i)'
<1>1. /\ conn[p] \in Conns /\ inbox \in [Pwas -> SUBSET Ids]
      /\ outbox \in [Conns -> Seq(ServerFrame)] /\ outbox[conn[p]] # <<>>
      /\ Pending' = Pending /\ (Alive(q)' <=> Alive(q))
  BY DEF PwaReceive, PumpSend, Grounds, SocketsOwned, MediationTypeOK, BrokerInv,
         BrokerTypeOK, Pending, Alive
<1>2. CASE q # p
  <2>1. Alive(q) => conn[q] \in Conns /\ conn[q] # conn[p]
    BY <1>2 DEF PwaReceive, Grounds, SocketsOwned, BrokerInv, BrokerTypeOK, Alive
  <2>2. inbox'[q] = inbox[q]
    BY <1>1, <1>2 DEF PwaReceive
  <2>3. Alive(q) => outbox'[conn[q]] = outbox[conn[q]]
    BY <1>1, <2>1 DEF PwaReceive, PumpSend
  <2>4. up' = up /\ conn' = conn /\ subscribed' = subscribed
    BY DEF PwaReceive
  <2> QED BY <1>1, <2>2, <2>3, <2>4, Undisturbed
<1>3. CASE q = p
  <2>1. /\ inbox'[p] = ApplyEvent(inbox[p], Head(outbox[conn[p]]))
        /\ outbox'[conn[p]] = Tail(outbox[conn[p]])
        /\ conn' = conn /\ up' = up /\ subscribed' = subscribed
    BY <1>1 DEF PwaReceive, PumpSend
  <2> SUFFICES ASSUME Alive(p), conn[p] \in subscribed
               PROVE  Tracks(Tail(outbox[conn[p]]), i,
                             i \in ApplyEvent(inbox[p], Head(outbox[conn[p]])),
                             i \in Pending, AnswerAhead(up[conn[p]], i))
    BY <1>1, <1>3, <2>1 DEF Mirrors
  <2>2. Tracks(outbox[conn[p]], i, i \in inbox[p], i \in Pending, AnswerAhead(up[conn[p]], i))
    BY <1>3 DEF Mirrors
  <2>3. (i \in Pending) \in BOOLEAN /\ AnswerAhead(up[conn[p]], i) \in BOOLEAN
    BY DEF AnswerAhead
  <2>4. inbox[p] \in SUBSET Ids /\ outbox[conn[p]] \in Seq(ServerFrame)
    BY <1>1
  <2> QED BY <1>1, <2>2, <2>3, <2>4, TailTracks
<1> QED BY <1>2, <1>3

(* The broker reads a frame of a browser. *)
LEMMA BrokerReceiveMirrors ==
  ASSUME Grounds, NEW c \in Conns, BrokerReceive(c),
         NEW p \in Pwas, NEW i \in Ids, Mirrors(p, i)
  PROVE  Mirrors(p, i)'
<1> DEFINE m == Head(up[c])
<1>1. /\ c \in pwas /\ up[c] # <<>> /\ OnMessage(c, m)
      /\ up \in [Conns -> Seq(ClientFrame)] /\ up[c] \in Seq(ClientFrame)
      /\ up' = [up EXCEPT ![c] = Tail(up[c])]
      /\ UNCHANGED <<conn, inbox>>
  BY DEF BrokerReceive, Grounds, MediationTypeOK
<1>2. m \in ClientFrame
  BY <1>1
<1>3. pwas' = pwas /\ pumping' = pumping
  BY <1>1 DEF OnMessage, Create, Resolve, SendSnapshot, brokerVars
<1>4. subscribed' = IF m.type = "subscribe" THEN subscribed \cup {c} ELSE subscribed
  BY DEF BrokerReceive
<1> HIDE DEF m
<1>5. CASE conn[p] # c
  <2>1. Alive(p) => conn[p] \in Conns
    BY DEF Grounds, BrokerInv, BrokerTypeOK, Alive
  <2>2. conn[p] \in subscribed' => conn[p] \in subscribed
    BY <1>4, <1>5
  <2>3. CASE Alive(p)
    <3>1. up'[conn[p]] = up[conn[p]]
      BY <1>1, <1>5, <2>1, <2>3
    <3> QED BY <1>1, <1>2, <2>2, <3>1, OthersStay
  <2>4. CASE ~Alive(p)
    BY <1>1, <1>3, <2>4 DEF Mirrors, Alive
  <2> QED BY <2>3, <2>4
<1>6. CASE conn[p] = c
  <2> SUFFICES ASSUME c \in pumping, c \in subscribed'
               PROVE  Tracks(outbox'[c], i, i \in inbox[p], i \in Pending',
                             AnswerAhead(Tail(up[c]), i))
    BY <1>1, <1>3, <1>6 DEF Mirrors, Alive
  <2>0. /\ (i \in inbox[p]) \in BOOLEAN
        /\ AnswerAhead(up[c], i) \in BOOLEAN /\ AnswerAhead(Tail(up[c]), i) \in BOOLEAN
    BY DEF AnswerAhead
  <2>1. CASE m.type = "subscribe"
    BY <1>1, <1>2, <2>0, <2>1, SubscribeSettles DEF Grounds
  <2>2. CASE m.type # "subscribe"
    <3>1. Tracks(outbox[c], i, i \in inbox[p], i \in Pending, AnswerAhead(up[c], i))
      BY <1>1, <1>4, <1>6, <2>2 DEF Mirrors, Alive
    <3>2. CASE Answers(m, i)
      BY <1>1, <1>2, <2>0, <3>1, <3>2, AnswerSettles DEF Grounds
    <3>3. CASE ~Answers(m, i)
      <4>1. Tracks(outbox'[c], i, i \in inbox[p], i \in Pending', AnswerAhead(up[c], i))
        BY <1>1, <1>2, <2>0, <3>1, OnMessageTracks DEF Grounds
      <4>2. AnswerAhead(up[c], i) => AnswerAhead(Tail(up[c]), i)
        BY <1>1, <3>3, AnswerTail DEF m
      <4> QED BY <4>1, <4>2, TracksWeaken
    <3> QED BY <3>2, <3>3
  <2> QED BY <2>1, <2>2
<1> QED BY <1>5, <1>6

(* Every step keeps every subscribed page in step. *)
LEMMA MirrorsStep ==
  ASSUME Grounds, MediationStep, NEW q \in Pwas, NEW i \in Ids, Mirrors(q, i)
  PROVE  Mirrors(q, i)'
<1>1. /\ conn \in [Pwas -> Conns \cup {NoConn}]
      /\ inbox \in [Pwas -> SUBSET Ids]
      /\ up \in [Conns -> Seq(ClientFrame)]
      /\ outbox \in [Conns -> Seq(ServerFrame)]
      /\ Conns \subseteq Nat /\ NoConn \notin Conns
      /\ pwas \subseteq Conns /\ pumping \subseteq Conns
  BY ConnsNumbers DEF Grounds, MediationTypeOK, BrokerTypeOK
<1>2. /\ nextConn \in Nat
      /\ conn[q] # NoConn => conn[q] < nextConn
      /\ \A c \in subscribed \cup daemons \cup pwas \cup pumping : c < nextConn
  BY NumbersGrow DEF Grounds, SocketsOwned, BrokerInv, ConnsDistinct
<1>3. CASE \E p \in Pwas : PwaConnect(p)
  <2>1. PICK p \in Pwas : PwaConnect(p)
    BY <1>3
  <2>2. nextConn \in Conns /\ ~(nextConn < nextConn) /\ pwas' = pwas \cup {nextConn}
        /\ pumping' = pumping \cup {nextConn}
    BY <1>2, <2>1, BrokerAssumption DEF PwaConnect, Register, Conns
  <2>3. CASE q = p
    <3>1. conn'[q] = nextConn /\ nextConn \notin subscribed'
      BY <1>1, <1>2, <2>1, <2>2, <2>3 DEF PwaConnect
    <3> QED BY <3>1 DEF Mirrors
  <2>4. CASE q # p
    <3>1. conn'[q] = conn[q] /\ conn[q] # nextConn
      BY <1>1, <1>2, <2>1, <2>2, <2>4 DEF PwaConnect
    <3>2. Alive(q)' <=> Alive(q)
      BY <2>2, <3>1 DEF Alive
    <3>3. Alive(q) => up'[conn[q]] = up[conn[q]]
      BY <1>1, <2>1, <3>1 DEF PwaConnect, Alive
    <3>4. Pending' = Pending /\ outbox' = outbox /\ inbox' = inbox /\ subscribed' = subscribed
      BY <2>1 DEF PwaConnect, Register, Pending
    <3> QED BY <3>1, <3>2, <3>3, <3>4, Undisturbed
  <2> QED BY <2>3, <2>4
<1>4. CASE \E p \in Pwas : PwaResubscribe(p)
  <2>1. PICK p \in Pwas : PwaResubscribe(p)
    BY <1>4
  <2>2. /\ q # p => inbox'[q] = inbox[q]
        /\ i \in inbox'[p] => i \in inbox[p]
    BY <1>1, <2>1 DEF PwaResubscribe
  <2> QED BY <2>1, <2>2, SendMirrors, ClientFrames DEF PwaResubscribe
<1>5. CASE \E p \in Pwas, j \in Ids, v \in Verdict : PwaDecide(p, j, v)
  <2>1. PICK p \in Pwas, j \in Ids, v \in Verdict : PwaDecide(p, j, v)
    BY <1>5
  <2>2. /\ q # p => inbox'[q] = inbox[q]
        /\ inbox'[p] = inbox[p] \ {j}
        /\ UNCHANGED <<brokerVars, conn, subscribed>>
    BY <1>1, <2>1 DEF PwaDecide
  <2>3. CASE conn[p] # NoConn
    <3>1. Send(p, DecisionFrame(j, v))
      BY <2>1, <2>3 DEF PwaDecide
    <3>2. i \in inbox[p] => (i \in inbox'[p] \/ Answers(DecisionFrame(j, v), i))
      BY <2>2, ClientFrames
    <3> QED BY <2>2, <2>3, <3>1, <3>2, SendMirrors, ClientFrames
  <2>4. CASE conn[p] = NoConn
    <3>1. UNCHANGED up
      BY <2>1, <2>4 DEF PwaDecide
    <3>2. CASE q = p
      BY <1>1, <2>2, <2>4, <3>2 DEF Mirrors, Alive, brokerVars
    <3>3. CASE q # p
      BY <2>2, <3>1, <3>3, Undisturbed DEF Alive, Pending, brokerVars
    <3> QED BY <3>2, <3>3
  <2> QED BY <2>3, <2>4
<1>6. CASE \E p \in Pwas, j \in Ids, v \in Verdict : NotificationDecide(p, j, v)
  BY <1>6, SendMirrors, ClientFrames DEF NotificationDecide
<1>7. CASE \E p \in Pwas : PwaReceive(p)
  BY <1>7, ReceiveMirrors
<1>8. CASE \E p \in Pwas : PwaClose(p)
  <2>1. PICK p \in Pwas : PwaClose(p)
    BY <1>8
  <2>2. CASE q = p
    <3>1. conn'[q] = NoConn /\ pwas' = pwas
      BY <1>1, <2>1, <2>2 DEF PwaClose, brokerVars
    <3> QED BY <1>1, <3>1 DEF Mirrors, Alive
  <2>3. CASE q # p
    <3>1. conn'[q] = conn[q]
      BY <1>1, <2>1, <2>3 DEF PwaClose
    <3> QED BY <2>1, <3>1, Undisturbed DEF PwaClose, Alive, Pending, brokerVars
  <2> QED BY <2>2, <2>3
<1>9. CASE \E c \in Conns : BrokerReceive(c)
  BY <1>9, BrokerReceiveMirrors
<1>10. CASE \E c \in Conns, m \in ClientFrame : DaemonFrame(c, m)
  BY <1>10, OthersStay DEF DaemonFrame, Receive
<1>11. CASE DaemonConnect
  <2>1. /\ pwas' = pwas /\ pumping' = pumping \cup {nextConn} /\ nextConn \notin pwas
        /\ Pending' = Pending /\ outbox' = outbox
        /\ UNCHANGED <<conn, inbox, up, subscribed>>
    BY <1>2, <1>11 DEF DaemonConnect, Register, Pending
  <2> QED BY <2>1, Undisturbed DEF Alive
<1>12. CASE \E c \in Conns : PumpElsewhere(c)
  <2>1. PICK c \in Conns : PumpElsewhere(c)
    BY <1>12
  <2>2. Alive(q) => outbox'[conn[q]] = outbox[conn[q]]
    BY <1>1, <2>1 DEF PumpElsewhere, PumpSend, Alive
  <2>3. /\ pwas' = pwas /\ pumping' = pumping /\ Pending' = Pending
        /\ UNCHANGED <<conn, inbox, up, subscribed>>
    BY <2>1 DEF PumpElsewhere, PumpSend, Pending
  <2> QED BY <2>2, <2>3, Undisturbed DEF Alive
<1>13. CASE \E c \in Conns : CutSend(c)
  <2>1. PICK c \in Conns : CutSend(c)
    BY <1>13
  <2>2. /\ pwas' = pwas /\ pumping' = pumping \ {c} /\ Pending' = Pending
        /\ outbox' = [outbox EXCEPT ![c] = <<>>]
        /\ UNCHANGED <<conn, inbox, up, subscribed>>
    BY <2>1 DEF CutSend, PumpFail, Pending
  <2>3. (Alive(q)' => Alive(q)) /\ (Alive(q)' => outbox'[conn[q]] = outbox[conn[q]])
    BY <1>1, <2>2 DEF Alive
  <2> QED BY <2>2, <2>3, Undisturbed
<1>14. CASE \E c \in Conns : CutReceive(c)
  <2>1. PICK c \in Conns : CutReceive(c)
    BY <1>14
  <2>2. /\ pwas' = pwas \ {c} /\ pumping' = pumping \ {c}
        /\ up' = [up EXCEPT ![c] = <<>>]
        /\ UNCHANGED <<conn, inbox, subscribed>> /\ Disconnect(c)
    BY <2>1 DEF CutReceive, Disconnect
  <2> SUFFICES ASSUME Alive(q)', conn[q] \in subscribed
               PROVE  Tracks(outbox'[conn[q]], i, i \in inbox[q], i \in Pending',
                             AnswerAhead(up'[conn[q]], i))
    BY <2>2 DEF Mirrors
  <2>3. conn[q] # c /\ conn[q] \in pwas \cap pumping /\ up'[conn[q]] = up[conn[q]]
    BY <1>1, <2>2 DEF Alive
  <2>4. Tracks(outbox[conn[q]], i, i \in inbox[q], i \in Pending, AnswerAhead(up[conn[q]], i))
    BY <2>3 DEF Mirrors, Alive
  <2>5. (i \in inbox[q]) \in BOOLEAN /\ AnswerAhead(up[conn[q]], i) \in BOOLEAN
    BY DEF AnswerAhead
  <2>6. Tracks(outbox'[conn[q]], i, i \in inbox[q], i \in Pending', AnswerAhead(up[conn[q]], i))
    BY <2>2, <2>3, <2>4, <2>5, DisconnectTracks DEF Grounds
  <2> QED BY <2>3, <2>6
<1>15. CASE BrokerRestart
  BY <1>15 DEF BrokerRestart, Mirrors
<1> QED BY <1>3, <1>4, <1>5, <1>6, <1>7, <1>8, <1>9, <1>10, <1>11, <1>12, <1>13, <1>14, <1>15
      DEF MediationStep

(* Every step keeps the whole invariant. *)
LEMMA MediationNextInv == MediationInv /\ [MediationNext]_mediationVars => MediationInv'
<1> SUFFICES ASSUME MediationInv, [MediationNext]_mediationVars PROVE MediationInv'
  OBVIOUS
<1>1. Grounds /\ \A p \in Pwas, i \in Ids : Mirrors(p, i)
  BY DEF MediationInv, Grounds, InboxMirrors, Mirrors
<1>2. CASE MediationStep
  <2>1. Grounds'
    BY <1>1, <1>2, GroundsStep
  <2>2. \A p \in Pwas, i \in Ids : Mirrors(p, i)'
    BY <1>1, <1>2, MirrorsStep
  <2> QED BY <2>1, <2>2 DEF MediationInv, Grounds, InboxMirrors, Mirrors
<1>3. CASE UNCHANGED mediationVars
  BY <1>3 DEF MediationInv, MediationTypeOK, BrokerInv, BrokerTypeOK, ConnsDistinct,
              OwnerRegistered, SocketsOwned, InboxMirrors, Alive, Pending, Tracks, AnswerAhead,
              mediationVars, brokerVars
<1> QED BY <1>2, <1>3 DEF MediationNext

(* The composed system keeps its type. *)
THEOREM MediationTypeCorrect == MediationSpec => []MediationTypeOK
<1>1. MediationInv => MediationTypeOK
  BY DEF MediationInv
<1> QED BY <1>1, MediationInitInv, MediationNextInv, PTL DEF MediationSpec

(* A subscribed browser on a live connection is never left with a wrong    *)
(* picture of the pending set, however many browsers, daemons, requests,   *)
(* cuts and reconnects there are.                                          *)
THEOREM InboxAlwaysMirrors == MediationSpec => []InboxMirrors
<1>1. MediationInv => InboxMirrors
  BY DEF MediationInv
<1> QED BY <1>1, MediationInitInv, MediationNextInv, PTL DEF MediationSpec
=============================================================================
