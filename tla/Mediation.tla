----------------------------- MODULE Mediation ------------------------------
(***************************************************************************)
(* The broker and the PWA clients that mirror its pending set.  A client   *)
(* is a browser: the service worker that holds the one WebSocket and the   *)
(* page that folds the relayed events into its inbox, taken as one process *)
(* (sw.js, broker-bridge.ts, inbox.ts, App.tsx).  Daemons are left open:   *)
(* any frame may come from any registered daemon connection at any time.   *)
(* The broker's queue and the socket behind it are one FIFO, outbox.       *)
(***************************************************************************)
EXTENDS Broker

CONSTANTS
  Pwas,     \* the browsers
  MaxUp     \* bound: frames a browser has in flight to the broker

ASSUME MediationAssumption == MaxUp \in Nat

VARIABLES
  conn,       \* browser -> its open WebSocket's connection, or NoConn
  inbox,      \* browser -> ids of the cards its page shows
  up,         \* connection -> frames in flight from the browser
  subscribed  \* history: connections the broker has sent a snapshot to

mediationVars == <<brokerVars, conn, inbox, up, subscribed>>

MediationTypeOK ==
  /\ BrokerTypeOK
  /\ conn \in [Pwas -> Conns \cup {NoConn}]
  /\ inbox \in [Pwas -> SUBSET Ids]
  /\ up \in [Conns -> Seq(ClientFrame)]
  /\ subscribed \subseteq Conns

MediationInit ==
  /\ BrokerInit
  /\ conn = [p \in Pwas |-> NoConn]
  /\ inbox = [p \in Pwas |-> {}]
  /\ up = [c \in Conns |-> <<>>]
  /\ subscribed = {}

(* The client's socket can still carry frames in both directions. *)
Alive(p) == conn[p] \in pwas \cap pumping

(* Bound: numbers are kept back so that every cut-off browser can reconnect. *)
KeepsReserve ==
  nextConn' + Cardinality({p \in Pwas : conn'[p] \notin pwas' \cap pumping'})
    <= MaxConns

-----------------------------------------------------------------------------
(* Mutant: the worker redials but does not subscribe again. *)
PwaConnectOnly(p) ==
  /\ conn[p] = NoConn
  /\ Register("pwa")
  /\ conn' = [conn EXCEPT ![p] = nextConn]
  /\ UNCHANGED <<inbox, up, subscribed>>

(* connectBroker with no socket: dial, and subscribe as soon as it opens. *)
PwaConnect(p) ==
  /\ conn[p] = NoConn
  /\ Register("pwa")
  /\ conn' = [conn EXCEPT ![p] = nextConn]
  /\ up' = [up EXCEPT ![nextConn] = <<SubscribeFrame>>]
  /\ UNCHANGED <<inbox, subscribed>>

(* The browser writes m to its socket. *)
Send(p, m) ==
  /\ QueuesHaveRoom
  /\ Len(up[conn[p]]) < MaxUp
  /\ up' = [up EXCEPT ![conn[p]] = Append(@, m)]

(* connectBroker on a live socket: another tab, or a reloaded page whose   *)
(* inbox is empty again, asks for a fresh snapshot.                        *)
PwaResubscribe(p) ==
  /\ conn[p] # NoConn
  /\ Send(p, SubscribeFrame)
  /\ inbox' \in {inbox, [inbox EXCEPT ![p] = {}]}
  /\ UNCHANGED <<brokerVars, conn, subscribed>>

(* App.decide: hand the decision to the worker, which drops it when the    *)
(* socket is not open, and remove the card in either case.                 *)
PwaDecide(p, i, v) ==
  /\ i \in inbox[p]
  /\ IF conn[p] = NoConn THEN UNCHANGED up ELSE Send(p, DecisionFrame(i, v))
  /\ inbox' = [inbox EXCEPT ![p] = @ \ {i}]
  /\ UNCHANGED <<brokerVars, conn, subscribed>>

(* notificationclick on an action button: the decision goes out, the card  *)
(* stays until the broker says resolved.  The notification may be stale.   *)
NotificationDecide(p, i, v) ==
  /\ conn[p] # NoConn
  /\ Send(p, DecisionFrame(i, v))
  /\ UNCHANGED <<brokerVars, conn, inbox, subscribed>>

(* Mutant: a snapshot is merged into the inbox instead of replacing it. *)
ApplyEventMerged(cards, m) ==
  CASE m.type = "snapshot" -> cards \cup m.ids
    [] m.type = "added"    -> cards \cup {m.id}
    [] m.type = "resolved" -> cards \ {m.id}
    [] OTHER               -> cards

(* applySnapshot, applyAdded and applyResolved: the inbox after one event. *)
ApplyEvent(cards, m) ==
  CASE m.type = "snapshot" -> m.ids
    [] m.type = "added"    -> cards \cup {m.id}
    [] m.type = "resolved" -> cards \ {m.id}
    [] OTHER               -> cards

(* The oldest frame reaches the browser and is folded into the inbox. *)
PwaReceive(p) ==
  /\ conn[p] # NoConn
  /\ PumpSend(conn[p])
  /\ inbox' = [inbox EXCEPT ![p] = ApplyEvent(@, Head(outbox[conn[p]]))]
  /\ UNCHANGED <<conn, up, subscribed>>

(* The worker's close event: the socket is gone; the cards stay shown. *)
PwaClose(p) ==
  /\ conn[p] # NoConn
  /\ conn' = [conn EXCEPT ![p] = NoConn]
  /\ UNCHANGED <<brokerVars, inbox, up, subscribed>>

-----------------------------------------------------------------------------
(* The broker reads the oldest frame of a PWA connection. *)
BrokerReceive(c) ==
  /\ c \in pwas
  /\ up[c] # <<>>
  /\ OnMessage(c, Head(up[c]))
  /\ up' = [up EXCEPT ![c] = Tail(@)]
  /\ subscribed' = IF Head(up[c]).type = "subscribe" THEN subscribed \cup {c}
                                                     ELSE subscribed
  /\ UNCHANGED <<conn, inbox>>

(* A daemon sends any frame at all. *)
DaemonFrame(c, m) ==
  /\ c \in daemons
  /\ Receive(c, m)
  /\ UNCHANGED <<conn, inbox, up, subscribed>>

DaemonConnect ==
  /\ Register("daemon")
  /\ UNCHANGED <<conn, inbox, up, subscribed>>

(* A frame leaves for a daemon, or for a browser that no longer listens. *)
PumpElsewhere(c) ==
  /\ \A p \in Pwas : conn[p] # c
  /\ PumpSend(c)
  /\ UNCHANGED <<conn, inbox, up, subscribed>>

(* The network cuts a connection: its write side first, *)
CutSend(c) ==
  /\ PumpFail(c)
  /\ UNCHANGED <<conn, inbox, up, subscribed>>

(* or its read side, with the frames not yet read. *)
CutReceive(c) ==
  /\ Disconnect(c)
  /\ up' = [up EXCEPT ![c] = <<>>]
  /\ UNCHANGED <<conn, inbox, subscribed>>

BrokerRestart ==
  /\ Restart
  /\ up' = [c \in Conns |-> <<>>]
  /\ subscribed' = {}
  /\ UNCHANGED <<conn, inbox>>

MediationStep ==
  \/ \E p \in Pwas : PwaConnect(p)
  \/ \E p \in Pwas : PwaResubscribe(p)
  \/ \E p \in Pwas, i \in Ids, v \in Verdict : PwaDecide(p, i, v)
  \/ \E p \in Pwas, i \in Ids, v \in Verdict : NotificationDecide(p, i, v)
  \/ \E p \in Pwas : PwaReceive(p)
  \/ \E p \in Pwas : PwaClose(p)
  \/ \E c \in Conns : BrokerReceive(c)
  \/ \E c \in Conns, m \in ClientFrame : DaemonFrame(c, m)
  \/ DaemonConnect
  \/ \E c \in Conns : PumpElsewhere(c)
  \/ \E c \in Conns : CutSend(c)
  \/ \E c \in Conns : CutReceive(c)
  \/ BrokerRestart

MediationNext == MediationStep /\ KeepsReserve

(* Sockets deliver, a closed socket is noticed, and the worker redials.    *)
(* Nothing is assumed of users, of daemons or of the network's cuts.       *)
MediationFairness ==
  /\ \A p \in Pwas :
       /\ WF_mediationVars(PwaConnect(p))
       /\ WF_mediationVars(PwaReceive(p))
       /\ WF_mediationVars(~Alive(p) /\ PwaClose(p))
  /\ \A c \in Conns :
       /\ WF_mediationVars(BrokerReceive(c))
       /\ WF_mediationVars(PumpElsewhere(c))

MediationSpec == MediationInit /\ [][MediationNext]_mediationVars

FairMediationSpec == MediationSpec /\ MediationFairness

-----------------------------------------------------------------------------
(* Frame m says whether id i has a card. *)
Mentions(m, i) == m.type = "snapshot" \/ (m.type \in {"added", "resolved"} /\ m.id = i)

Shows(m, i) == \/ m.type = "snapshot" /\ i \in m.ids
               \/ m.type = "added"

(* Position k of queue q holds its last word on id i. *)
IsLastWord(q, i, k) ==
  /\ k \in DOMAIN q
  /\ Mentions(q[k], i)
  /\ \A j \in DOMAIN q : j > k => ~Mentions(q[j], i)

(* A frame on its way to the broker will settle what the page shows for i: *)
(* the decision just made here, or the request for a new snapshot.         *)
Answers(m, i) == m.type = "subscribe" \/ (IsDecision(m) /\ m.id = i)

AnswerAhead(frames, i) == \E k \in DOMAIN frames : Answers(frames[k], i)

(* Queue q keeps a page in step with the broker on id i, given whether the *)
(* page shows its card, whether it is pending, and whether an answer is on *)
(* its way: the last word in the queue is right, and without one the page  *)
(* is right already, or will be when the answer arrives.                   *)
Tracks(q, i, shown, pending, ahead) ==
  /\ \A k \in DOMAIN q : IsLastWord(q, i, k) => (Shows(q[k], i) <=> pending)
  /\ (\A k \in DOMAIN q : ~Mentions(q[k], i)) =>
       (shown => pending) /\ (pending => (shown \/ ahead))

(* A browser that has subscribed over a live connection can never be left   *)
(* with a wrong picture: the last queued frame about an id says exactly     *)
(* whether it is pending; and when no frame about it is left, a card is     *)
(* shown only for a pending request, and a pending request has a card       *)
(* unless the user has just decided it here, or reloaded the page, and that *)
(* frame is still on its way to the broker.                                 *)
InboxMirrors ==
  \A p \in Pwas, i \in Ids :
    (Alive(p) /\ conn[p] \in subscribed) =>
      Tracks(outbox[conn[p]], i, i \in inbox[p], i \in Pending,
             AnswerAhead(up[conn[p]], i))

(* A card nobody waits for does not stay: a resolved frame, or the snapshot *)
(* after a reconnect, removes it, whatever was cut in between.              *)
DeadCardsGo ==
  \A p \in Pwas, i \in Ids :
    (i \in inbox[p] /\ i \notin Pending) ~> (i \notin inbox[p] \/ i \in Pending)
=============================================================================
