---------------------------- MODULE WorkerProofs ----------------------------
(***************************************************************************)
(* The service worker, for every set of broker addresses and any number of *)
(* loads, drops, evictions, updates and saves: it never has two live       *)
(* sockets, never stops trying, and the page's status line tells the truth *)
(* once everything is delivered.                                           *)
(***************************************************************************)
EXTENDS ServiceWorker, FiniteSetTheorems, TLAPS

Note == [type : {"open", "closed"}] \cup [type : {"snapshot"}, from : Urls]

WorkerTypeOK ==
  /\ worker \in {"none", "installed", "active"}
  /\ brokerUrl \in Urls \cup {NoUrl}
  /\ sockets \in Seq(Socket)
  /\ brokerSocket \in 0 .. Len(sockets)
  /\ timers \in Nat

PageTypeOK ==
  /\ base \in Urls \cup {NoUrl}
  /\ controlled \in BOOLEAN /\ awaiting \in BOOLEAN /\ orphaned \in BOOLEAN
  /\ status \in {"connecting", "online", "offline"}
  /\ filled \in Urls \cup {NoUrl}
  /\ toWorker \in Seq(Urls)
  /\ toPage \in Seq(Note)

SwTypeOK == WorkerTypeOK /\ PageTypeOK

(* Only an active worker has done anything, and it controls a page. *)
Lifecycle ==
  /\ worker # "active" =>
       brokerUrl = NoUrl /\ brokerSocket = 0 /\ sockets = <<>> /\ timers = 0
  /\ worker = "active" => controlled
  /\ worker # "none" => base # NoUrl

(* brokerSocket is the only socket that can be live, *)
OnlyBrokerSocket == \A s \in DOMAIN sockets : Live(s) => s = brokerSocket

(* a timer reconnects to an address, *)
TimersHaveUrl == timers > 0 => brokerUrl # NoUrl

IsOpen == brokerSocket # 0 /\ sockets[brokerSocket].st = "open"

CloseDue == \E s \in DOMAIN sockets : sockets[s].st = "closed"

(* and a socket opens after the events of its predecessors. *)
ClosesFirst == IsOpen => ~CloseDue

(* The page's status will be "online" when it has received all of q. *)
Online(q, st) ==
  \/ \E n \in DOMAIN q : /\ q[n].type = "open"
                         /\ \A k \in DOMAIN q : k > n => q[k].type # "closed"
  \/ st = "online" /\ \A k \in DOMAIN q : q[k].type # "closed"

(* What the page is about to believe: "online" only while the socket is    *)
(* open or a close event will correct it, and always if no connect of its  *)
(* own is on the way to make the worker say it again.                      *)
StatusFollows ==
  ~orphaned =>
    /\ Online(toPage, status) => IsOpen \/ CloseDue
    /\ worker = "active" /\ IsOpen /\ toWorker = <<>> => Online(toPage, status)

(* The inductive invariant. *)
SwInv ==
  /\ SwTypeOK
  /\ Lifecycle
  /\ OnlyBrokerSocket
  /\ TimersHaveUrl
  /\ KeepsTrying
  /\ ClosesFirst
  /\ StatusFollows

-----------------------------------------------------------------------------
(* Telling the page "open" or "closed" decides what it will believe. *)
LEMMA OnlineTell ==
  ASSUME NEW q \in Seq(Note), NEW m \in Note, NEW st
  PROVE  Online(Append(q, m), st) <=>
           m.type = "open" \/ (m.type # "closed" /\ Online(q, st))
<1> DEFINE r == Append(q, m)
<1>1. /\ Len(r) = Len(q) + 1 /\ r[Len(r)] = m
      /\ DOMAIN r = 1 .. Len(r) /\ DOMAIN q = 1 .. Len(q) /\ Len(q) \in Nat
      /\ \A n \in 1 .. Len(q) : r[n] = q[n]
  OBVIOUS
<1>2. ASSUME m.type = "open"
      PROVE  Online(r, st)
  BY <1>1, <1>2 DEF Online
<1>3. ASSUME m.type = "closed"
      PROVE  ~Online(r, st)
  BY <1>1, <1>3 DEF Online
<1>4. ASSUME m.type # "closed", m.type # "open"
      PROVE  Online(r, st) <=> Online(q, st)
  BY <1>1, <1>4 DEF Online
<1> QED
  BY <1>2, <1>3, <1>4

(* Receiving a message does not change what the page will believe. *)
LEMMA OnlineReceive ==
  ASSUME NEW q \in Seq(Note), q # <<>>, NEW st, NEW st2,
         st2 = CASE Head(q).type = "open" -> "online" [] Head(q).type = "closed" -> "offline"
                 [] OTHER -> st
  PROVE  Online(Tail(q), st2) <=> Online(q, st)
<1> DEFINE r == Tail(q)
<1>1. /\ Len(q) = Len(r) + 1 /\ q[1] = Head(q) /\ Len(r) \in Nat
      /\ DOMAIN r = 1 .. Len(r) /\ DOMAIN q = 1 .. Len(q)
      /\ \A n \in 1 .. Len(r) : r[n] = q[n + 1]
  OBVIOUS
<1>2. \A n \in 2 .. Len(q) : n - 1 \in 1 .. Len(r) /\ q[n] = r[n - 1]
  BY <1>1
<1>3. ASSUME Online(r, st2)
      PROVE  Online(q, st)
  <2>1. CASE \E n \in DOMAIN r : /\ r[n].type = "open"
                                 /\ \A k \in DOMAIN r : k > n => r[k].type # "closed"
    <3>1. PICK n \in DOMAIN r : /\ r[n].type = "open"
                                /\ \A k \in DOMAIN r : k > n => r[k].type # "closed"
      BY <2>1
    <3>2. n + 1 \in DOMAIN q /\ q[n + 1].type = "open"
      BY <1>1, <3>1
    <3>3. ASSUME NEW k \in DOMAIN q, k > n + 1
          PROVE  q[k].type # "closed"
      <4>1. k \in 2 .. Len(q) /\ k - 1 > n
        BY <1>1, <3>1, <3>3
      <4> QED
        BY <1>1, <1>2, <3>1, <4>1
    <3> QED
      BY <3>2, <3>3 DEF Online
  <2>2. CASE st2 = "online" /\ \A k \in DOMAIN r : r[k].type # "closed"
    <3>1. ASSUME NEW k \in DOMAIN q, k > 1
          PROVE  q[k].type # "closed"
      <4>1. k \in 2 .. Len(q)
        BY <1>1, <3>1
      <4> QED
        BY <1>1, <1>2, <2>2, <4>1
    <3>2. CASE Head(q).type = "open"
      BY <1>1, <3>1, <3>2 DEF Online
    <3>3. CASE Head(q).type # "open"
      <4>1. Head(q).type # "closed" /\ st = "online"
        BY <2>2, <3>3
      <4>2. \A k \in DOMAIN q : q[k].type # "closed"
        BY <1>1, <3>1, <4>1
      <4> QED
        BY <4>1, <4>2 DEF Online
    <3> QED
      BY <3>2, <3>3
  <2> QED
    BY <1>3, <2>1, <2>2 DEF Online
<1>4. ASSUME Online(q, st)
      PROVE  Online(r, st2)
  <2>1. CASE \E n \in DOMAIN q : /\ q[n].type = "open"
                                 /\ \A k \in DOMAIN q : k > n => q[k].type # "closed"
    <3>1. PICK n \in DOMAIN q : /\ q[n].type = "open"
                                /\ \A k \in DOMAIN q : k > n => q[k].type # "closed"
      BY <2>1
    <3>2. ASSUME NEW k \in DOMAIN r, k + 1 > n
          PROVE  r[k].type # "closed"
      <4>1. k + 1 \in DOMAIN q /\ r[k] = q[k + 1]
        BY <1>1
      <4> QED
        BY <3>1, <3>2, <4>1
    <3>3. CASE n = 1
      <4>1. st2 = "online"
        BY <1>1, <3>1, <3>3
      <4>2. \A k \in DOMAIN r : r[k].type # "closed"
        BY <1>1, <3>2, <3>3
      <4> QED
        BY <4>1, <4>2 DEF Online
    <3>4. CASE n # 1
      <4>1. n \in 2 .. Len(q) /\ n - 1 \in DOMAIN r /\ r[n - 1].type = "open"
        BY <1>1, <1>2, <3>1, <3>4
      <4>2. \A k \in DOMAIN r : k > n - 1 => r[k].type # "closed"
        BY <1>1, <3>2, <4>1
      <4> QED
        BY <4>1, <4>2 DEF Online
    <3> QED
      BY <3>3, <3>4
  <2>2. CASE st = "online" /\ \A k \in DOMAIN q : q[k].type # "closed"
    <3>1. Head(q).type # "closed" /\ st2 = "online"
      BY <1>1, <2>2
    <3>2. \A k \in DOMAIN r : r[k].type # "closed"
      <4>1. \A k \in DOMAIN r : k + 1 \in DOMAIN q /\ r[k] = q[k + 1]
        BY <1>1
      <4> QED
        BY <2>2, <4>1
    <3> QED
      BY <3>1, <3>2 DEF Online
  <2> QED
    BY <1>4, <2>1, <2>2 DEF Online
<1> QED
  BY <1>3, <1>4

-----------------------------------------------------------------------------
(* Nothing has happened before the page is loaded. *)
LEMMA SwInvInit == SwInit => SwInv
<1> SUFFICES ASSUME SwInit
             PROVE  SwInv
  OBVIOUS
<1>1. SwTypeOK
  <2>1. WorkerTypeOK
    <3>1. sockets \in Seq(Socket) /\ Len(sockets) = 0
      BY DEF SwInit
    <3> QED
      BY <3>1 DEF SwInit, WorkerTypeOK
  <2>2. PageTypeOK
    <3>1. toWorker \in Seq(Urls) /\ toPage \in Seq(Note)
      BY DEF SwInit
    <3>2. controlled \in BOOLEAN /\ awaiting \in BOOLEAN /\ orphaned \in BOOLEAN
      BY DEF SwInit
    <3> QED
      BY <3>1, <3>2 DEF SwInit, PageTypeOK
  <2> QED
    BY <2>1, <2>2 DEF SwTypeOK
<1>2. Lifecycle /\ OnlyBrokerSocket /\ TimersHaveUrl /\ KeepsTrying /\ ClosesFirst
  BY DEF SwInit, Lifecycle, OnlyBrokerSocket, TimersHaveUrl, KeepsTrying, ClosesFirst, IsOpen
<1>3. StatusFollows
  BY DEF SwInit, StatusFollows, Online
<1> QED
  BY <1>1, <1>2, <1>3 DEF SwInv

(* Replacing one socket leaves the others. *)
LEMMA SocketUpdate ==
  ASSUME NEW q \in Seq(Socket), NEW s \in DOMAIN q, NEW w \in Socket
  PROVE  /\ [q EXCEPT ![s] = w] \in Seq(Socket)
         /\ Len([q EXCEPT ![s] = w]) = Len(q)
         /\ DOMAIN [q EXCEPT ![s] = w] = DOMAIN q
         /\ \A k \in DOMAIN q : [q EXCEPT ![s] = w][k] = IF k = s THEN w ELSE q[k]
OBVIOUS

(* connectBroker leaves a live socket, which is brokerSocket, and if that  *)
(* one is open, a message to the page that says so.                        *)
LEMMA ConnectEffect ==
  ASSUME SwInv, NEW u \in Urls, ConnectBroker(u), UNCHANGED <<status, orphaned>>
  PROVE  /\ brokerUrl' = u
         /\ sockets' \in Seq(Socket) /\ brokerSocket' \in 1 .. Len(sockets')
         /\ toPage' \in Seq(Note)
         /\ (OnlyBrokerSocket /\ ClosesFirst)'
         /\ sockets'[brokerSocket'].st \in {"connecting", "open"}
         /\ ~orphaned /\ Online(toPage', status) => (IsOpen \/ CloseDue)'
         /\ IsOpen' => Online(toPage', status)
<1>t. /\ sockets \in Seq(Socket) /\ brokerSocket \in 0 .. Len(sockets)
      /\ toPage \in Seq(Note) /\ brokerUrl' = u
  BY DEF SwInv, SwTypeOK, WorkerTypeOK, PageTypeOK, ConnectBroker
<1>1. CASE IsOpen
  <2>1. /\ brokerSocket' = brokerSocket /\ brokerSocket \in 1 .. Len(sockets)
        /\ toPage' = Append(toPage, [type |-> "open"])
        /\ sockets' = [sockets EXCEPT ![brokerSocket].subs = @ + 1]
    BY <1>1, <1>t DEF ConnectBroker, IsOpen, Live, Tell
  <2>2. /\ sockets' \in Seq(Socket) /\ Len(sockets') = Len(sockets)
        /\ DOMAIN sockets' = DOMAIN sockets
        /\ \A s \in DOMAIN sockets : sockets'[s].st = sockets[s].st
    <3> DEFINE w == [sockets[brokerSocket] EXCEPT !.subs = @ + 1]
    <3>2. brokerSocket \in DOMAIN sockets /\ sockets[brokerSocket] \in Socket
      BY <1>t, <2>1
    <3>3. w \in Socket /\ w.st = sockets[brokerSocket].st
      BY <3>2 DEF Socket
    <3>4. sockets' = [sockets EXCEPT ![brokerSocket] = w]
      BY <2>1
    <3>1. w \in Socket /\ w.st = sockets[brokerSocket].st
          /\ sockets' = [sockets EXCEPT ![brokerSocket] = w]
      BY <3>3, <3>4
    <3> HIDE DEF w
    <3> QED
      BY <1>t, <3>1, <3>2, SocketUpdate
  <2>3. (OnlyBrokerSocket /\ ClosesFirst)' /\ IsOpen'
    BY <1>1, <1>t, <2>1, <2>2
    DEF SwInv, OnlyBrokerSocket, ClosesFirst, IsOpen, CloseDue, Live
  <2>4. Online(toPage', status) /\ toPage' \in Seq(Note)
    <3> DEFINE m == [type |-> "open"]
    <3>1. m \in Note /\ m.type = "open" /\ toPage' = Append(toPage, m)
      BY <2>1 DEF Note
    <3> HIDE DEF m
    <3> QED
      BY <1>t, <3>1, OnlineTell
  <2> QED
    BY <1>1, <1>t, <2>1, <2>2, <2>3, <2>4 DEF IsOpen
<1>2. CASE brokerSocket # 0 /\ sockets[brokerSocket].st = "connecting"
  <2>1. UNCHANGED <<brokerSocket, toPage, sockets>>
    BY <1>2 DEF ConnectBroker, Live
  <2> QED
    BY <1>2, <1>t, <2>1
    DEF SwInv, StatusFollows, OnlyBrokerSocket, ClosesFirst, IsOpen, CloseDue, Live
<1>3. CASE ~(brokerSocket # 0 /\ Live(brokerSocket))
  <2>1. /\ sockets' = Append(sockets, [to |-> u, st |-> "connecting", subs |-> 0])
        /\ brokerSocket' = Len(sockets') /\ toPage' = toPage
    BY <1>3 DEF ConnectBroker
  <2>2. /\ sockets' \in Seq(Socket) /\ Len(sockets') = Len(sockets) + 1
        /\ brokerSocket' \in 1 .. Len(sockets')
        /\ sockets'[brokerSocket'].st = "connecting"
        /\ DOMAIN sockets = 1 .. Len(sockets) /\ DOMAIN sockets' = 1 .. Len(sockets')
        /\ \A s \in DOMAIN sockets : sockets'[s] = sockets[s]
    <3>1. [to |-> u, st |-> "connecting", subs |-> 0] \in Socket
      BY DEF Socket
    <3> QED
      BY <1>t, <2>1, <3>1
  <2>3. OnlyBrokerSocket'
    <3> SUFFICES ASSUME NEW s \in DOMAIN sockets', Live(s)', s # brokerSocket'
                 PROVE  FALSE
      BY DEF OnlyBrokerSocket
    <3>1. s \in DOMAIN sockets /\ sockets'[s] = sockets[s]
      BY <1>t, <2>1, <2>2
    <3>2. Live(s)
      BY <3>1 DEF Live
    <3> QED
      BY <1>3, <1>t, <2>2, <3>1, <3>2 DEF SwInv, OnlyBrokerSocket
  <2>4. ~IsOpen' /\ ClosesFirst'
    BY <2>2 DEF IsOpen, ClosesFirst
  <2>5. ~orphaned /\ Online(toPage', status) => CloseDue'
    <3> SUFFICES ASSUME ~orphaned, Online(toPage', status)
                 PROVE  CloseDue'
      OBVIOUS
    <3>1. IsOpen \/ CloseDue
      BY <2>1 DEF SwInv, StatusFollows
    <3>2. CloseDue
      BY <1>3, <3>1 DEF IsOpen, Live
    <3> QED
      BY <1>t, <2>2, <3>2 DEF CloseDue
  <2> QED
    BY <1>t, <2>1, <2>2, <2>3, <2>4, <2>5
<1> QED
  BY <1>1, <1>2, <1>3 DEF IsOpen, Live

(* A broker-connect or a timer: the handler is connectBroker. *)
LEMMA ConnectSteps ==
  ASSUME SwInv, Deliver \/ OnTimer
  PROVE  SwInv'
<1>1. PICK u \in Urls : ConnectBroker(u)
  <2>1. CASE Deliver
    <3>1. Head(toWorker) \in Urls
      BY <2>1 DEF Deliver, SwInv, SwTypeOK, PageTypeOK
    <3> QED
      BY <2>1, <3>1 DEF Deliver
  <2>2. CASE OnTimer
    <3>1. brokerUrl \in Urls
      BY <2>2 DEF OnTimer, SwInv, TimersHaveUrl, SwTypeOK, WorkerTypeOK
    <3> QED
      BY <2>2, <3>1 DEF OnTimer
  <2> QED
    BY <2>1, <2>2
<1>2. /\ UNCHANGED <<worker, base, controlled, awaiting, status, filled, orphaned>>
      /\ worker = "active" /\ timers' \in Nat /\ toWorker' \in Seq(Urls)
  <2>1. UNCHANGED <<worker, base, controlled, awaiting, status, filled, orphaned>>
    BY DEF Deliver, OnTimer, pageVars
  <2>2. toWorker \in Seq(Urls) /\ timers \in Nat
    BY DEF SwInv, SwTypeOK, WorkerTypeOK, PageTypeOK
  <2>3. worker = "active" /\ timers' \in Nat
    BY <2>2 DEF Deliver, OnTimer, SwInv, Lifecycle
  <2>4. toWorker' \in Seq(Urls)
    BY <2>2 DEF Deliver, OnTimer
  <2> QED
    BY <2>1, <2>3, <2>4
<1>3. /\ brokerUrl' = u
      /\ sockets' \in Seq(Socket) /\ brokerSocket' \in 1 .. Len(sockets')
      /\ toPage' \in Seq(Note)
      /\ (OnlyBrokerSocket /\ ClosesFirst)'
      /\ sockets'[brokerSocket'].st \in {"connecting", "open"}
      /\ ~orphaned /\ Online(toPage', status) => (IsOpen \/ CloseDue)'
      /\ IsOpen' => Online(toPage', status)
  BY <1>1, <1>2, ConnectEffect
<1>4. SwTypeOK'
  BY <1>2, <1>3 DEF SwInv, SwTypeOK, WorkerTypeOK, PageTypeOK
<1>5. (Lifecycle /\ TimersHaveUrl)'
  BY <1>2, <1>3, WorkerAssumption DEF SwInv, Lifecycle, TimersHaveUrl
<1>6. KeepsTrying'
  BY <1>3 DEF KeepsTrying
<1>7. StatusFollows'
  BY <1>2, <1>3 DEF StatusFollows
<1> QED
  BY <1>3, <1>4, <1>5, <1>6, <1>7 DEF SwInv

-----------------------------------------------------------------------------
(* An event of one socket concerns no other, and comes to an active worker. *)
LEMMA SocketEvent ==
  ASSUME SwInv, NEW s \in DOMAIN sockets, NEW w \in Socket,
         sockets' = [sockets EXCEPT ![s] = w],
         timers' \in Nat, toPage' \in Seq(Note),
         UNCHANGED <<worker, brokerUrl, brokerSocket, pageVars, toWorker>>
  PROVE  /\ (SwTypeOK /\ Lifecycle)'
         /\ DOMAIN sockets' = DOMAIN sockets
         /\ \A k \in DOMAIN sockets : sockets'[k] = IF k = s THEN w ELSE sockets[k]
         /\ brokerSocket # 0 => brokerSocket \in DOMAIN sockets
<1>1. sockets \in Seq(Socket) /\ brokerSocket \in 0 .. Len(sockets)
  BY DEF SwInv, SwTypeOK, WorkerTypeOK
<1>2. /\ sockets' \in Seq(Socket) /\ Len(sockets') = Len(sockets)
      /\ DOMAIN sockets' = DOMAIN sockets
      /\ \A k \in DOMAIN sockets : sockets'[k] = IF k = s THEN w ELSE sockets[k]
  BY <1>1, SocketUpdate
<1>3. worker = "active"
  <2>1. sockets # <<>>
    BY <1>1
  <2> QED
    BY <2>1 DEF SwInv, Lifecycle
<1>4. SwTypeOK'
  BY <1>1, <1>2 DEF SwInv, SwTypeOK, WorkerTypeOK, PageTypeOK, pageVars
<1>5. Lifecycle'
  BY <1>3 DEF SwInv, Lifecycle, pageVars
<1>6. brokerSocket # 0 => brokerSocket \in DOMAIN sockets
  BY <1>1
<1> QED
  BY <1>2, <1>4, <1>5, <1>6

(* The open event: the worker says so, and no close event is left. *)
LEMMA OnOpenStep ==
  ASSUME SwInv, NEW s \in DOMAIN sockets, OnOpen(s)
  PROVE  SwInv'
<1> DEFINE w == [sockets[s] EXCEPT !.st = "open", !.subs = 1]
           m == [type |-> "open"]
<1>1. /\ sockets[s] \in Socket /\ sockets[s].st = "connecting" /\ toPage \in Seq(Note)
      /\ timers \in Nat /\ timers' = timers /\ brokerUrl' = brokerUrl
  BY DEF SwInv, SwTypeOK, WorkerTypeOK, PageTypeOK, OnOpen
<1>2. w \in Socket /\ w.st = "open" /\ m \in Note /\ m.type = "open"
  BY <1>1 DEF Socket, Note
<1>3. /\ sockets' = [sockets EXCEPT ![s] = w] /\ toPage' = Append(toPage, m)
      /\ UNCHANGED <<worker, brokerUrl, brokerSocket, pageVars, toWorker>>
  BY DEF OnOpen, Tell
<1>4. s = brokerSocket /\ ~CloseDue
  BY <1>1 DEF SwInv, OnlyBrokerSocket, Live, OnOpen, CloseDue
<1> HIDE DEF w, m
<1>5. Online(toPage', status) /\ toPage' \in Seq(Note)
  BY <1>1, <1>2, <1>3, OnlineTell
<1>6. /\ (SwTypeOK /\ Lifecycle)'
      /\ DOMAIN sockets' = DOMAIN sockets
      /\ \A k \in DOMAIN sockets : sockets'[k] = IF k = s THEN w ELSE sockets[k]
      /\ brokerSocket # 0 => brokerSocket \in DOMAIN sockets
  BY <1>1, <1>2, <1>3, <1>5, SocketEvent
<1>7. (OnlyBrokerSocket /\ TimersHaveUrl)'
  BY <1>1, <1>3, <1>4, <1>6 DEF SwInv, OnlyBrokerSocket, TimersHaveUrl, Live
<1>8. IsOpen' /\ ~CloseDue'
  <2>1. brokerSocket # 0
    BY <1>4 DEF SwInv, SwTypeOK, WorkerTypeOK
  <2> QED
    BY <1>2, <1>3, <1>4, <1>6, <2>1 DEF IsOpen, CloseDue
<1>9. KeepsTrying'
  BY <1>2, <1>6 DEF KeepsTrying
<1>10. StatusFollows'
  BY <1>3, <1>5, <1>8 DEF StatusFollows, pageVars
<1> QED
  BY <1>6, <1>7, <1>8, <1>9, <1>10 DEF SwInv, ClosesFirst

(* The message event passes a snapshot on; no socket opens or closes. *)
LEMMA OnSnapshotStep ==
  ASSUME SwInv, NEW s \in DOMAIN sockets, OnSnapshot(s)
  PROVE  SwInv'
<1> DEFINE w == [sockets[s] EXCEPT !.subs = @ - 1]
           m == [type |-> "snapshot", from |-> sockets[s].to]
<1>1. /\ sockets[s] \in Socket /\ sockets[s].st = "open" /\ sockets[s].subs > 0
      /\ toPage \in Seq(Note) /\ timers \in Nat /\ timers' = timers
  BY DEF SwInv, SwTypeOK, WorkerTypeOK, PageTypeOK, OnSnapshot
<1>2. w \in Socket /\ w.st = "open" /\ m \in Note /\ m.type = "snapshot"
  BY <1>1 DEF Socket, Note
<1>3. /\ sockets' = [sockets EXCEPT ![s] = w] /\ toPage' = Append(toPage, m)
      /\ UNCHANGED <<worker, brokerUrl, brokerSocket, pageVars, toWorker>>
  BY DEF OnSnapshot, Tell
<1> HIDE DEF w, m
<1>4. (Online(toPage', status) <=> Online(toPage, status)) /\ toPage' \in Seq(Note)
  BY <1>1, <1>2, <1>3, OnlineTell
<1>5. /\ (SwTypeOK /\ Lifecycle)'
      /\ DOMAIN sockets' = DOMAIN sockets
      /\ \A k \in DOMAIN sockets : sockets'[k] = IF k = s THEN w ELSE sockets[k]
      /\ brokerSocket # 0 => brokerSocket \in DOMAIN sockets
  BY <1>1, <1>2, <1>3, <1>4, SocketEvent
<1>6. \A k \in DOMAIN sockets : sockets'[k].st = sockets[k].st
  BY <1>1, <1>2, <1>5
<1>7. (OnlyBrokerSocket /\ TimersHaveUrl /\ KeepsTrying)'
  BY <1>1, <1>3, <1>5, <1>6 DEF SwInv, OnlyBrokerSocket, TimersHaveUrl, KeepsTrying, Live
<1>8. (IsOpen' <=> IsOpen) /\ (CloseDue' <=> CloseDue)
  BY <1>3, <1>5, <1>6 DEF IsOpen, CloseDue
<1>9. (ClosesFirst /\ StatusFollows)'
  BY <1>3, <1>4, <1>8 DEF SwInv, ClosesFirst, StatusFollows, pageVars
<1> QED
  BY <1>5, <1>7, <1>9 DEF SwInv

(* A connection that is lost is brokerSocket's; its close event will tell. *)
LEMMA DropStep ==
  ASSUME SwInv, NEW s \in DOMAIN sockets, Drop(s)
  PROVE  SwInv'
<1> DEFINE w == [sockets[s] EXCEPT !.st = "closed", !.subs = 0]
<1>1. /\ sockets[s] \in Socket /\ toPage \in Seq(Note) /\ toPage' = toPage
      /\ timers \in Nat /\ timers' = timers
  BY DEF SwInv, SwTypeOK, WorkerTypeOK, PageTypeOK, Drop
<1>2. w \in Socket /\ w.st = "closed"
  BY <1>1 DEF Socket
<1>3. /\ sockets' = [sockets EXCEPT ![s] = w]
      /\ UNCHANGED <<worker, brokerUrl, brokerSocket, pageVars, toWorker>>
  BY DEF Drop
<1>4. s = brokerSocket
  BY DEF SwInv, OnlyBrokerSocket, Drop
<1> HIDE DEF w
<1>5. /\ (SwTypeOK /\ Lifecycle)'
      /\ DOMAIN sockets' = DOMAIN sockets
      /\ \A k \in DOMAIN sockets : sockets'[k] = IF k = s THEN w ELSE sockets[k]
  BY <1>1, <1>2, <1>3, SocketEvent
<1>6. (OnlyBrokerSocket /\ TimersHaveUrl /\ KeepsTrying)'
  BY <1>1, <1>2, <1>3, <1>5 DEF SwInv, OnlyBrokerSocket, TimersHaveUrl, KeepsTrying, Live
<1>7. ~IsOpen' /\ CloseDue'
  BY <1>2, <1>3, <1>4, <1>5 DEF IsOpen, CloseDue
<1>8. (ClosesFirst /\ StatusFollows)'
  BY <1>7 DEF ClosesFirst, StatusFollows
<1> QED
  BY <1>5, <1>6, <1>8 DEF SwInv

(* The close event: the worker says so, and sets a timer. *)
LEMMA OnCloseStep ==
  ASSUME SwInv, NEW s \in DOMAIN sockets, OnClose(s)
  PROVE  SwInv'
<1> DEFINE w == [sockets[s] EXCEPT !.st = "gone"]
           m == [type |-> "closed"]
<1>1. /\ sockets[s] \in Socket /\ sockets[s].st = "closed" /\ toPage \in Seq(Note)
      /\ timers \in Nat /\ timers' = timers + (IF brokerUrl # NoUrl THEN 1 ELSE 0)
      /\ brokerUrl' = brokerUrl
  BY DEF SwInv, SwTypeOK, WorkerTypeOK, PageTypeOK, OnClose
<1>2. w \in Socket /\ w.st = "gone" /\ m \in Note /\ m.type = "closed"
  BY <1>1 DEF Socket, Note
<1>3. /\ sockets' = [sockets EXCEPT ![s] = w] /\ toPage' = Append(toPage, m)
      /\ UNCHANGED <<worker, brokerUrl, brokerSocket, pageVars, toWorker>>
  BY DEF OnClose, Tell
<1> HIDE DEF w, m
<1>4. ~Online(toPage', status) /\ toPage' \in Seq(Note)
  BY <1>1, <1>2, <1>3, OnlineTell
<1>5. timers' \in Nat /\ (TimersHaveUrl /\ KeepsTrying)'
  BY <1>1 DEF SwInv, TimersHaveUrl, KeepsTrying
<1>6. /\ (SwTypeOK /\ Lifecycle)'
      /\ DOMAIN sockets' = DOMAIN sockets
      /\ \A k \in DOMAIN sockets : sockets'[k] = IF k = s THEN w ELSE sockets[k]
      /\ brokerSocket # 0 => brokerSocket \in DOMAIN sockets
  BY <1>2, <1>3, <1>4, <1>5, SocketEvent
<1>7. OnlyBrokerSocket'
  BY <1>2, <1>3, <1>6 DEF SwInv, OnlyBrokerSocket, Live
<1>8. ~IsOpen'
  <2>1. ~IsOpen
    BY <1>1 DEF SwInv, ClosesFirst, CloseDue
  <2> QED
    BY <1>2, <1>3, <1>6, <2>1 DEF IsOpen
<1>9. (ClosesFirst /\ StatusFollows)'
  BY <1>3, <1>4, <1>8 DEF ClosesFirst, StatusFollows, pageVars
<1> QED
  BY <1>5, <1>6, <1>7, <1>9 DEF SwInv

-----------------------------------------------------------------------------
(* install and activate: a bridge that waits for the controller posts its   *)
(* connect; the worker has no socket yet.                                   *)
LEMMA ActivationSteps ==
  ASSUME SwInv, Install \/ Activate
  PROVE  SwInv'
<1>1. /\ UNCHANGED <<brokerUrl, brokerSocket, sockets, timers, base, status, filled, orphaned,
                     toPage>>
      /\ worker \in {"none", "installed"} /\ worker' \in {"installed", "active"}
  BY DEF Install, Activate, pageVars
<1>2. brokerUrl = NoUrl /\ brokerSocket = 0 /\ sockets = <<>> /\ timers = 0
  BY <1>1 DEF SwInv, Lifecycle
<1>3. base \in Urls
  BY DEF SwInv, SwTypeOK, PageTypeOK, Lifecycle, Install, Activate
<1>4. WorkerTypeOK'
  BY <1>1, <1>2 DEF SwInv, SwTypeOK, WorkerTypeOK
<1>5. toWorker' \in Seq(Urls) /\ controlled' \in BOOLEAN /\ awaiting' \in BOOLEAN
  <2>1. toWorker \in Seq(Urls) /\ controlled \in BOOLEAN /\ awaiting \in BOOLEAN
    BY DEF SwInv, SwTypeOK, PageTypeOK
  <2>2. toWorker' = toWorker \/ toWorker' = Append(toWorker, base)
    BY DEF Install, Activate
  <2>3. controlled' \in BOOLEAN /\ awaiting' \in BOOLEAN
    BY <2>1 DEF Install, Activate, pageVars
  <2> QED
    BY <1>3, <2>1, <2>2, <2>3
<1>6. PageTypeOK'
  BY <1>1, <1>5 DEF SwInv, SwTypeOK, PageTypeOK
<1>7. Lifecycle'
  BY <1>1, <1>2, <1>3, WorkerAssumption DEF Lifecycle, Install, Activate
<1>8. (OnlyBrokerSocket /\ TimersHaveUrl /\ KeepsTrying /\ ClosesFirst)'
  BY <1>1, <1>2 DEF OnlyBrokerSocket, TimersHaveUrl, KeepsTrying, ClosesFirst, IsOpen
<1>9. StatusFollows'
  BY <1>1, <1>2 DEF SwInv, StatusFollows, IsOpen, CloseDue
<1> QED
  BY <1>4, <1>6, <1>7, <1>8, <1>9 DEF SwInv, SwTypeOK

(* A worker that is started anew has its script's globals, and a page that  *)
(* does not know.                                                           *)
LEMMA RestartSteps ==
  ASSUME SwInv, Evict \/ Update
  PROVE  SwInv'
<1>1. /\ FreshGlobals /\ UNCHANGED toPage
      /\ toWorker' \in Seq(Urls)
  <2>1. FreshGlobals /\ UNCHANGED toPage /\ (toWorker' = toWorker \/ toWorker' = <<>>)
    BY DEF Evict, Update
  <2>2. toWorker \in Seq(Urls) /\ <<>> \in Seq(Urls)
    BY DEF SwInv, SwTypeOK, PageTypeOK
  <2>3. toWorker' \in Seq(Urls)
    BY <2>1, <2>2
  <2> QED
    BY <2>1, <2>3
<1>2. WorkerTypeOK'
  <2>1. sockets' \in Seq(Socket) /\ Len(sockets') = 0
    BY <1>1 DEF FreshGlobals
  <2> QED
    BY <1>1, <2>1 DEF FreshGlobals, SwInv, SwTypeOK, WorkerTypeOK
<1>3. PageTypeOK'
  BY <1>1 DEF FreshGlobals, SwInv, SwTypeOK, PageTypeOK
<1>4. (Lifecycle /\ TimersHaveUrl /\ KeepsTrying)'
  BY <1>1 DEF FreshGlobals, SwInv, Lifecycle, TimersHaveUrl, KeepsTrying
<1>5. (OnlyBrokerSocket /\ ClosesFirst /\ StatusFollows)'
  BY <1>1 DEF FreshGlobals, OnlyBrokerSocket, ClosesFirst, StatusFollows, IsOpen
<1> QED
  BY <1>2, <1>3, <1>4, <1>5 DEF SwInv, SwTypeOK

(* What a message to come does to the status does not depend on whether the *)
(* page says "connecting" before it.                                        *)
LEMMA ConnectingIsNoPromise ==
  ASSUME NEW q, NEW st, Online(q, "connecting")
  PROVE  Online(q, st)
BY DEF Online

(* A queue to which something was posted is not empty. *)
LEMMA AppendNotEmpty ==
  ASSUME NEW S, NEW q \in Seq(S), NEW x
  PROVE  Append(q, x) # <<>>
<1>1. Len(Append(q, x)) = Len(q) + 1 /\ Len(q) \in Nat /\ Len(<<>>) = 0
  OBVIOUS
<1> QED
  BY <1>1

(* Loading the page starts its status, queue and bridge anew. *)
LEMMA LoadStep ==
  ASSUME SwInv, NEW u \in Urls, Load(u)
  PROVE  SwInv'
<1>1. /\ UNCHANGED workerVars /\ base' = u /\ filled' = NoUrl /\ orphaned' = FALSE
      /\ controlled' = (worker = "active") /\ status' = "connecting" /\ toPage' = <<>>
      /\ awaiting' = ~controlled'
      /\ toWorker' = IF controlled' THEN Append(toWorker, u) ELSE toWorker
  BY DEF Load, Bridge
<1>2. toWorker' \in Seq(Urls) /\ (worker = "active" => toWorker' # <<>>)
  <2>1. toWorker \in Seq(Urls)
    BY DEF SwInv, SwTypeOK, PageTypeOK
  <2>2. Append(toWorker, u) \in Seq(Urls)
    BY <2>1
  <2>3. Append(toWorker, u) # <<>>
    BY <2>1, AppendNotEmpty
  <2> QED
    BY <1>1, <2>1, <2>2, <2>3
<1>3. SwTypeOK'
  <2>1. WorkerTypeOK'
    BY <1>1 DEF workerVars, SwInv, SwTypeOK, WorkerTypeOK
  <2>2. controlled' \in BOOLEAN /\ awaiting' \in BOOLEAN /\ toPage' \in Seq(Note)
    BY <1>1
  <2>3. PageTypeOK'
    BY <1>1, <1>2, <2>2 DEF PageTypeOK
  <2> QED
    BY <2>1, <2>3 DEF SwTypeOK
<1>4. Lifecycle'
  BY <1>1, WorkerAssumption DEF workerVars, SwInv, Lifecycle
<1>5. (OnlyBrokerSocket /\ TimersHaveUrl /\ KeepsTrying /\ ClosesFirst)'
  BY <1>1 DEF workerVars, SwInv, OnlyBrokerSocket, TimersHaveUrl, KeepsTrying, ClosesFirst,
              IsOpen, CloseDue, Live
<1>6. StatusFollows'
  <2>1. ~Online(toPage', status')
    BY <1>1 DEF Online
  <2> QED
    BY <1>1, <1>2, <2>1 DEF workerVars, StatusFollows
<1> QED
  BY <1>3, <1>4, <1>5, <1>6 DEF SwInv

(* Saving an address runs the bridge again if it is another one. *)
LEMMA SaveStep ==
  ASSUME SwInv, NEW u \in Urls, Save(u)
  PROVE  SwInv'
<1>1. /\ UNCHANGED <<workerVars, controlled, orphaned, toPage>> /\ base # NoUrl
      /\ base' = u /\ filled' = NoUrl
      /\ \/ UNCHANGED <<status, awaiting, toWorker>>
         \/ /\ status' = "connecting" /\ awaiting' = ~controlled
            /\ toWorker' = IF controlled THEN Append(toWorker, u) ELSE toWorker
  BY DEF Save, Bridge
<1>2. /\ toWorker' \in Seq(Urls)
      /\ awaiting' \in BOOLEAN /\ controlled' \in BOOLEAN /\ orphaned' \in BOOLEAN
      /\ status' \in {"connecting", "online", "offline"} /\ toPage' \in Seq(Note)
  <2>1. toWorker \in Seq(Urls)
    BY DEF SwInv, SwTypeOK, PageTypeOK
  <2>2. Append(toWorker, u) \in Seq(Urls)
    BY <2>1
  <2>3. toWorker' \in Seq(Urls)
    BY <1>1, <2>1, <2>2
  <2>4. awaiting' \in BOOLEAN /\ controlled' \in BOOLEAN /\ orphaned' \in BOOLEAN
    BY <1>1 DEF SwInv, SwTypeOK, PageTypeOK
  <2>5. status' \in {"connecting", "online", "offline"} /\ toPage' \in Seq(Note)
    BY <1>1 DEF SwInv, SwTypeOK, PageTypeOK
  <2> QED
    BY <2>3, <2>4, <2>5
<1>3. SwTypeOK'
  <2>1. WorkerTypeOK'
    BY <1>1 DEF workerVars, SwInv, SwTypeOK, WorkerTypeOK
  <2>2. PageTypeOK'
    BY <1>1, <1>2 DEF PageTypeOK
  <2> QED
    BY <2>1, <2>2 DEF SwTypeOK
<1>4. Lifecycle'
  BY <1>1, WorkerAssumption DEF workerVars, SwInv, Lifecycle
<1>5. /\ (OnlyBrokerSocket /\ TimersHaveUrl /\ KeepsTrying /\ ClosesFirst)'
      /\ (IsOpen' <=> IsOpen) /\ (CloseDue' <=> CloseDue)
  BY <1>1 DEF workerVars, SwInv, OnlyBrokerSocket, TimersHaveUrl, KeepsTrying, ClosesFirst,
              IsOpen, CloseDue, Live
<1>6. StatusFollows'
  <2>1. CASE UNCHANGED <<status, awaiting, toWorker>>
    BY <1>1, <1>5, <2>1 DEF workerVars, SwInv, StatusFollows
  <2>2. CASE /\ status' = "connecting"
             /\ toWorker' = IF controlled THEN Append(toWorker, u) ELSE toWorker
    <3>1. Online(toPage', status') => Online(toPage, status)
      BY <1>1, <2>2, ConnectingIsNoPromise
    <3>2. worker = "active" => toWorker' # <<>>
      BY <2>2, AppendNotEmpty DEF SwInv, SwTypeOK, PageTypeOK, Lifecycle
    <3> QED
      BY <1>1, <1>5, <3>1, <3>2 DEF workerVars, SwInv, StatusFollows
  <2> QED
    BY <1>1, <2>1, <2>2
<1> QED
  BY <1>3, <1>4, <1>5, <1>6 DEF SwInv

(* Receiving a message is what was to be expected of it. *)
LEMMA ReceiveStep ==
  ASSUME SwInv, Receive
  PROVE  SwInv'
<1>1. /\ toPage # <<>> /\ toPage \in Seq(Note) /\ toPage' = Tail(toPage)
      /\ Head(toPage) \in Note
      /\ UNCHANGED <<workerVars, base, controlled, awaiting, orphaned, toWorker>>
      /\ status' = CASE Head(toPage).type = "open" -> "online"
                     [] Head(toPage).type = "closed" -> "offline" [] OTHER -> status
      /\ filled' = IF Head(toPage).type = "snapshot" THEN Head(toPage).from ELSE filled
  BY DEF Receive, SwInv, SwTypeOK, PageTypeOK
<1>2. SwTypeOK'
  <2>1. WorkerTypeOK'
    BY <1>1 DEF workerVars, SwInv, SwTypeOK, WorkerTypeOK
  <2>2. /\ toPage' \in Seq(Note) /\ status' \in {"connecting", "online", "offline"}
        /\ filled' \in Urls \cup {NoUrl}
    <3>1. toPage' \in Seq(Note)
      BY <1>1
    <3>2. status' \in {"connecting", "online", "offline"}
      BY <1>1 DEF SwInv, SwTypeOK, PageTypeOK
    <3>3. filled' \in Urls \cup {NoUrl}
      BY <1>1 DEF Note, SwInv, SwTypeOK, PageTypeOK
    <3> QED
      BY <3>1, <3>2, <3>3
  <2>3. PageTypeOK'
    BY <1>1, <2>2 DEF SwInv, SwTypeOK, PageTypeOK
  <2> QED
    BY <2>1, <2>3 DEF SwTypeOK
<1>3. /\ (Lifecycle /\ OnlyBrokerSocket /\ TimersHaveUrl /\ KeepsTrying /\ ClosesFirst)'
      /\ (IsOpen' <=> IsOpen) /\ (CloseDue' <=> CloseDue)
  BY <1>1 DEF workerVars, SwInv, Lifecycle, OnlyBrokerSocket, TimersHaveUrl, KeepsTrying,
              ClosesFirst, IsOpen, CloseDue, Live
<1>4. Online(toPage', status') <=> Online(toPage, status)
  BY <1>1, OnlineReceive
<1>5. StatusFollows'
  BY <1>1, <1>3, <1>4 DEF workerVars, SwInv, StatusFollows
<1> QED
  BY <1>2, <1>3, <1>5 DEF SwInv

-----------------------------------------------------------------------------
(* One step per action. *)
LEMMA SwInvStep == SwInv /\ [SwNext]_swVars => SwInv'
<1> SUFFICES ASSUME SwInv, [SwNext]_swVars
             PROVE  SwInv'
  OBVIOUS
<1>1. CASE Install \/ Activate
  BY <1>1, ActivationSteps
<1>2. CASE Deliver \/ OnTimer
  BY <1>2, ConnectSteps
<1>3. CASE Evict \/ Update
  BY <1>3, RestartSteps
<1>4. CASE Receive
  BY <1>4, ReceiveStep
<1>5. ASSUME NEW s \in DOMAIN sockets, OnOpen(s) \/ OnSnapshot(s) \/ Drop(s) \/ OnClose(s)
      PROVE  SwInv'
  BY <1>5, OnOpenStep, OnSnapshotStep, DropStep, OnCloseStep
<1>6. ASSUME NEW u \in Urls, Load(u) \/ Save(u)
      PROVE  SwInv'
  BY <1>6, LoadStep, SaveStep
<1>7. CASE UNCHANGED swVars
  BY <1>7 DEF swVars, workerVars, pageVars, SwInv, SwTypeOK, WorkerTypeOK, PageTypeOK,
              Lifecycle, OnlyBrokerSocket, TimersHaveUrl, KeepsTrying, ClosesFirst,
              StatusFollows, IsOpen, CloseDue, Live
<1> QED
  BY <1>1, <1>2, <1>3, <1>4, <1>5, <1>6, <1>7 DEF SwNext

(* The invariant holds on every run of worker and page. *)
THEOREM SwInvHolds == SwSpec => []SwInv
BY SwInvInit, SwInvStep, PTL DEF SwSpec

(* connectBroker does not stack connections (sw.js:86): whatever mixture of *)
(* timers, loads, saves and restarts, the worker never has two live sockets.*)
THEOREM NeverStacksSockets == SwSpec => []OneLiveSocket
<1>1. ASSUME SwInv
      PROVE  OneLiveSocket
  <2> DEFINE live == {s \in DOMAIN sockets : Live(s)}
  <2>1. live \subseteq {brokerSocket}
    BY <1>1 DEF SwInv, OnlyBrokerSocket
  <2>2. IsFiniteSet({brokerSocket}) /\ Cardinality({brokerSocket}) = 1
    BY FS_Singleton
  <2>3. Cardinality(live) <= 1
    BY <2>1, <2>2, FS_Subset
  <2> QED
    BY <2>3 DEF OneLiveSocket
<1> QED
  BY <1>1, SwInvHolds, PTL

(* A worker that was told an address has a live socket, a close event to    *)
(* handle or a timer (the close handler of connectBroker): no order of      *)
(* drops, connects and timers makes it give up.                             *)
THEOREM NeverGivesUp == SwSpec => []KeepsTrying
<1>1. SwInv => KeepsTrying
  BY DEF SwInv
<1> QED
  BY <1>1, SwInvHolds, PTL

(* broker:open and broker:closed keep the status line true: once everything *)
(* is delivered, a page whose worker was not replaced says "online" exactly *)
(* when the worker's socket is open.                                        *)
THEOREM StatusIsTrue == SwSpec => []StatusSettles
<1>1. ASSUME SwInv, Quiet, base # NoUrl, ~orphaned
      PROVE  status = "online" <=> IsOpen
  <2>1. Online(toPage, status) <=> status = "online"
    BY <1>1 DEF Quiet, Online
  <2>2. ~CloseDue
    BY <1>1 DEF Quiet, CloseDue
  <2> QED
    BY <1>1, <2>1, <2>2 DEF SwInv, StatusFollows, Quiet
<1>2. SwInv => StatusSettles
  BY <1>1 DEF StatusSettles, IsOpen
<1> QED
  BY <1>2, SwInvHolds, PTL
=============================================================================
