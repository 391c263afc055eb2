------------------------------- MODULE Broker -------------------------------
(***************************************************************************)
(* The broker's routing state (struct Inner) and the operations that       *)
(* change it.  Each operation runs under the one mutex, so each is a       *)
(* single action.  What a client puts on its socket is left open here:     *)
(* any frame may arrive on any registered connection.                      *)
(***************************************************************************)
EXTENDS Protocol, Sequences

CONSTANTS
  NoConn,     \* no connection: the owner of a request that is not pending
  MaxConns,   \* bound: connections over the broker's life
  MaxQueue    \* bound: a client sends only while every send queue is shorter

ASSUME BrokerAssumption ==
  /\ IsFiniteSet(Ids)
  /\ MaxConns \in Nat
  /\ MaxQueue \in Nat
  /\ NoConn \notin Nat

VARIABLES
  requests,   \* id -> owning daemon connection, NoConn when not pending
  daemons,    \* registered daemon connections
  pwas,       \* registered PWA connections
  pumping,    \* connections whose send task still holds the receiver
  outbox,     \* connection -> frames queued for its send task
  nextConn    \* the id the next connection gets

brokerVars == <<requests, daemons, pwas, pumping, outbox, nextConn>>

Conns == 0 .. MaxConns - 1

Role == {"daemon", "pwa"}

Pending == {i \in Ids : requests[i] # NoConn}

BrokerTypeOK ==
  /\ requests \in [Ids -> Conns \cup {NoConn}]
  /\ daemons \subseteq Conns
  /\ pwas \subseteq Conns
  /\ pumping \subseteq Conns
  /\ outbox \in [Conns -> Seq(ServerFrame)]
  /\ nextConn \in 0 .. MaxConns

BrokerInit ==
  /\ requests = [i \in Ids |-> NoConn]
  /\ daemons = {}
  /\ pwas = {}
  /\ pumping = {}
  /\ outbox = [c \in Conns |-> <<>>]
  /\ nextConn = 0

-----------------------------------------------------------------------------
(* serve_connection, first half: number the connection, register its       *)
(* sender, start its send task.                                            *)
Register(role) ==
  /\ nextConn < MaxConns
  /\ nextConn' = nextConn + 1
  /\ pumping' = pumping \cup {nextConn}
  /\ \/ role = "daemon" /\ daemons' = daemons \cup {nextConn} /\ UNCHANGED pwas
     \/ role = "pwa" /\ pwas' = pwas \cup {nextConn} /\ UNCHANGED daemons
  /\ UNCHANGED <<requests, outbox>>

(* broadcast: queue the frames for every PWA.  A send to a connection whose *)
(* receiver is gone fails, and the failure is ignored.                      *)
Broadcast(frames) ==
  [c \in Conns |-> IF c \in pwas \cap pumping THEN outbox[c] \o frames
                                              ELSE outbox[c]]

(* create: a new id is recorded and announced; a pending one only changes  *)
(* its owner.                                                              *)
Create(c, i) ==
  /\ requests' = [requests EXCEPT ![i] = c]
  /\ outbox' = IF i \in Pending THEN outbox ELSE Broadcast(<<AddedFrame(i)>>)
  /\ UNCHANGED <<daemons, pwas, pumping, nextConn>>

(* Mutant: a web decision goes to every daemon. *)
ResolvedOutboxToAll(i, v, fromDaemon) ==
  [c \in Conns |->
     IF v # NoVerdict /\ ~fromDaemon /\ c \in daemons \cap pumping
     THEN Append(outbox[c], DecisionFrame(i, v))
     ELSE Broadcast(<<ResolvedFrame(i)>>)[c]]

(* The queues after resolve: the owner of i is told of a web decision, and *)
(* every PWA is told to dismiss the card.                                  *)
ResolvedOutbox(i, v, fromDaemon) ==
  LET told == IF v # NoVerdict /\ ~fromDaemon
              THEN {requests[i]} \cap daemons \cap pumping
              ELSE {}
  IN  [c \in Conns |->
         IF c \in told THEN Append(outbox[c], DecisionFrame(i, v))
                       ELSE Broadcast(<<ResolvedFrame(i)>>)[c]]

(* resolve: only a pending id is resolved. *)
Resolve(i, v, fromDaemon) ==
  /\ IF i \in Pending
     THEN /\ requests' = [requests EXCEPT ![i] = NoConn]
          /\ outbox' = ResolvedOutbox(i, v, fromDaemon)
     ELSE UNCHANGED <<requests, outbox>>
  /\ UNCHANGED <<daemons, pwas, pumping, nextConn>>

(* send_snapshot: taken and queued under the lock. *)
SendSnapshot(c) ==
  /\ outbox' = IF c \in pwas \cap pumping
               THEN [outbox EXCEPT ![c] = Append(@, SnapshotFrame(Pending))]
               ELSE outbox
  /\ UNCHANGED <<requests, daemons, pwas, pumping, nextConn>>

(* The arms of on_message: which frames mean anything from which role. *)
IsCreate(c, m)    == c \in daemons /\ m.type = "create" /\ m.id \in Ids
IsDecision(m)     == /\ m.type = "decision"
                     /\ m.id \in Ids
                     /\ DecisionVerdict(m) # NoVerdict
IsWithdraw(c, m)  == c \in daemons /\ m.type = "withdraw" /\ m.id \in Ids
IsSubscribe(c, m) == c \in pwas /\ m.type = "subscribe"

(* on_message: dispatch one inbound frame; whatever fits no arm is ignored. *)
OnMessage(c, m) ==
  \/ IsCreate(c, m) /\ Create(c, m.id)
  \/ IsDecision(m) /\ Resolve(m.id, m.verdict, c \in daemons)
  \/ IsWithdraw(c, m) /\ Resolve(m.id, NoVerdict, TRUE)
  \/ IsSubscribe(c, m) /\ SendSnapshot(c)
  \/ /\ ~IsCreate(c, m) /\ ~IsDecision(m)
     /\ ~IsWithdraw(c, m) /\ ~IsSubscribe(c, m)
     /\ UNCHANGED brokerVars

(* Mutant: a dropped daemon's requests stay pending. *)
OrphansForgotten(c) == {}

(* Mutant: a dropped daemon takes everybody's requests with it. *)
OrphansOfAll(c) == {i \in Ids : c \in daemons /\ requests[i] # NoConn}

(* What the connection owns when it drops. *)
Orphans(c) == {i \in Ids : c \in daemons /\ requests[i] = c}

(* serve_connection, second half: the inbound stream ended, so disconnect  *)
(* withdraws what the connection owned and its send task is aborted.       *)
Disconnect(c) ==
  /\ c \in daemons \cup pwas
  /\ daemons' = daemons \ {c}
  /\ pwas' = pwas \ {c}
  /\ pumping' = pumping \ {c}
  /\ requests' = [i \in Ids |-> IF i \in Orphans(c) THEN NoConn ELSE requests[i]]
  /\ \E order \in Orderings(Orphans(c)) :
       LET dismissed == [k \in DOMAIN order |-> ResolvedFrame(order[k])]
       IN  outbox' = [Broadcast(dismissed) EXCEPT ![c] = <<>>]
  /\ UNCHANGED nextConn

(* The send task writes its oldest frame to the socket. *)
PumpSend(c) ==
  /\ c \in pumping
  /\ outbox[c] # <<>>
  /\ outbox' = [outbox EXCEPT ![c] = Tail(@)]
  /\ UNCHANGED <<requests, daemons, pwas, pumping, nextConn>>

(* A frame or a heartbeat ping could not be written: the send task ends and *)
(* drops its queue, while the connection stays registered.                  *)
PumpFail(c) ==
  /\ c \in pumping
  /\ pumping' = pumping \ {c}
  /\ outbox' = [outbox EXCEPT ![c] = <<>>]
  /\ UNCHANGED <<requests, daemons, pwas, nextConn>>

(* The process ends and starts again: nothing is persisted.  Connection    *)
(* numbers are kept distinct across lives so that a number never names two *)
(* sockets; the program compares only numbers of one life.                 *)
Restart ==
  /\ requests' = [i \in Ids |-> NoConn]
  /\ daemons' = {}
  /\ pwas' = {}
  /\ pumping' = {}
  /\ outbox' = [c \in Conns |-> <<>>]
  /\ UNCHANGED nextConn

-----------------------------------------------------------------------------
QueuesHaveRoom == \A c \in Conns : Len(outbox[c]) < MaxQueue

(* A frame from the network reaches on_message. *)
Receive(c, m) ==
  /\ c \in daemons \cup pwas
  /\ QueuesHaveRoom
  /\ OnMessage(c, m)

BrokerNext ==
  \/ \E role \in Role : Register(role)
  \/ \E c \in Conns, m \in ClientFrame : Receive(c, m)
  \/ \E c \in Conns : Disconnect(c)
  \/ \E c \in Conns : PumpSend(c)
  \/ \E c \in Conns : PumpFail(c)
  \/ Restart

BrokerSpec == BrokerInit /\ [][BrokerNext]_brokerVars

-----------------------------------------------------------------------------
(* Roles do not mix and numbers are fresh: what makes a decision frame      *)
(* addressed to a connection number reach a daemon of this life.            *)
ConnsDistinct ==
  /\ daemons \cap pwas = {}
  /\ \A c \in daemons \cup pwas \cup pumping : c < nextConn

(* A pending request always has somebody to answer to: its owner is a       *)
(* daemon connection that is still registered.  This is what lets resolve   *)
(* find the owner's sender, and what disconnect's withdrawal is for.        *)
OwnerRegistered == \A i \in Pending : requests[i] \in daemons

(* The frame that a step added at the end of connection c's queue is m. *)
Queued(c, m) ==
  /\ Len(outbox'[c]) = Len(outbox[c]) + 1
  /\ outbox'[c][Len(outbox'[c])] = m

(* A web decision is routed to the one daemon that owns the request, in the *)
(* step in which the request stops being pending, and in that same step     *)
(* every PWA that can still be written to is told to dismiss the card.      *)
WebDecisionRouting ==
  [][\A c \in Conns, i \in Ids, v \in Verdict :
       Queued(c, DecisionFrame(i, v)) =>
         /\ requests[i] = c
         /\ c \in daemons
         /\ requests'[i] = NoConn
         /\ \A p \in pwas \cap pumping : Queued(p, ResolvedFrame(i))]_brokerVars

(* A daemon that disconnects takes only its own requests with it: one that  *)
(* was re-announced over a newer connection stays pending.                  *)
DisconnectScope ==
  [][\A c \in Conns, i \in Ids :
       (daemons \ daemons' = {c} /\ requests[i] # c)
         => requests'[i] = requests[i]]_brokerVars
=============================================================================
