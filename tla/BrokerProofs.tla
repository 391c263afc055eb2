---------------------------- MODULE BrokerProofs ----------------------------
(***************************************************************************)
(* Proofs about the broker's routing state, for every set of ids and every *)
(* bound.  The inductive invariant is BrokerInv: the type invariant, the   *)
(* freshness of connection numbers and OwnerRegistered.                    *)
(***************************************************************************)
EXTENDS Broker, FiniteSetTheorems, TLAPS

BrokerInv == BrokerTypeOK /\ ConnsDistinct /\ OwnerRegistered

(* The frames the builders make are frames the broker may send. *)
LEMMA ServerFrames ==
  /\ \A i \in Ids : AddedFrame(i) \in ServerFrame /\ ResolvedFrame(i) \in ServerFrame
  /\ \A i \in Ids, v \in Verdict : DecisionFrame(i, v) \in ServerFrame
  /\ \A S \in SUBSET Ids : SnapshotFrame(S) \in ServerFrame
BY DEF AddedFrame, ResolvedFrame, DecisionFrame, SnapshotFrame, ServerFrame

(* Queueing well-formed frames for the PWAs keeps the queues well formed. *)
LEMMA BroadcastType ==
  ASSUME BrokerTypeOK, NEW frames \in Seq(ServerFrame)
  PROVE  Broadcast(frames) \in [Conns -> Seq(ServerFrame)]
BY DEF BrokerTypeOK, Broadcast

(* A connection number is a number, so NoConn is none of them. *)
LEMMA ConnsNumbers == Conns \subseteq Nat /\ NoConn \notin Conns
BY BrokerAssumption DEF Conns

(* An empty broker satisfies the invariant. *)
LEMMA InitInv == BrokerInit => BrokerInv
BY BrokerAssumption
   DEF BrokerInit, BrokerInv, BrokerTypeOK, ConnsDistinct, OwnerRegistered, Pending

(* register: the new number is larger than every number in use. *)
LEMMA RegisterInv ==
  ASSUME BrokerInv, NEW role \in Role, Register(role)
  PROVE  BrokerInv'
<1>1. nextConn \in Conns /\ nextConn' \in 0 .. MaxConns
  BY BrokerAssumption DEF BrokerInv, BrokerTypeOK, Register, Conns
<1>2. BrokerTypeOK'
  BY <1>1 DEF BrokerInv, BrokerTypeOK, Register, Conns
<1>3. ConnsDistinct'
  <2>1. \A c \in daemons \cup pwas \cup pumping : c \in Nat /\ c < nextConn
    BY ConnsNumbers DEF BrokerInv, BrokerTypeOK, ConnsDistinct
  <2>2. nextConn \in Nat /\ nextConn' = nextConn + 1
    BY <1>1, ConnsNumbers DEF Register
  <2>3. nextConn \notin daemons \cup pwas
    BY <2>1, <2>2
  <2>4. daemons' \cap pwas' = {}
    BY <2>3 DEF BrokerInv, ConnsDistinct, Register
  <2>5. \A c \in daemons' \cup pwas' \cup pumping' :
          c \in daemons \cup pwas \cup pumping \/ c = nextConn
    BY DEF Register
  <2>6. \A c \in daemons' \cup pwas' \cup pumping' : c < nextConn'
    BY <2>1, <2>2, <2>5
  <2> QED BY <2>4, <2>6 DEF ConnsDistinct
<1>4. OwnerRegistered'
  BY DEF BrokerInv, OwnerRegistered, Pending, Register
<1> QED BY <1>2, <1>3, <1>4 DEF BrokerInv

(* create: the new owner is the registered daemon that sent the frame. *)
LEMMA CreateInv ==
  ASSUME BrokerInv, NEW c \in daemons, NEW i \in Ids, Create(c, i)
  PROVE  BrokerInv'
<1>1. c \in Conns
  BY DEF BrokerInv, BrokerTypeOK
<1>2. <<AddedFrame(i)>> \in Seq(ServerFrame)
  BY ServerFrames
<1>3. outbox' \in [Conns -> Seq(ServerFrame)]
  BY <1>2, BroadcastType DEF BrokerInv, BrokerTypeOK, Create
<1>4. BrokerTypeOK'
  BY <1>1, <1>3 DEF BrokerInv, BrokerTypeOK, Create
<1>5. ConnsDistinct'
  BY DEF BrokerInv, ConnsDistinct, Create
<1>6. OwnerRegistered'
  BY DEF BrokerInv, BrokerTypeOK, OwnerRegistered, Pending, Create
<1> QED BY <1>4, <1>5, <1>6 DEF BrokerInv

(* resolve: a request only leaves the pending set. *)
LEMMA ResolveInv ==
  ASSUME BrokerInv, NEW i \in Ids, NEW v \in Verdict \cup {NoVerdict},
         NEW fromDaemon \in BOOLEAN, Resolve(i, v, fromDaemon)
  PROVE  BrokerInv'
<1>1. ResolvedOutbox(i, v, fromDaemon) \in [Conns -> Seq(ServerFrame)]
  <2>1. Broadcast(<<ResolvedFrame(i)>>) \in [Conns -> Seq(ServerFrame)]
    <3>1. <<ResolvedFrame(i)>> \in Seq(ServerFrame)
      BY ServerFrames
    <3> QED BY <3>1, BroadcastType DEF BrokerInv
  <2>2. v # NoVerdict => DecisionFrame(i, v) \in ServerFrame
    BY ServerFrames
  <2>3. \A c \in Conns : outbox[c] \in Seq(ServerFrame)
    BY DEF BrokerInv, BrokerTypeOK
  <2> QED BY <2>1, <2>2, <2>3 DEF ResolvedOutbox
<1>2. BrokerTypeOK'
  BY <1>1 DEF BrokerInv, BrokerTypeOK, Resolve
<1>3. ConnsDistinct'
  BY DEF BrokerInv, ConnsDistinct, Resolve
<1>4. OwnerRegistered'
  BY DEF BrokerInv, BrokerTypeOK, OwnerRegistered, Pending, Resolve
<1> QED BY <1>2, <1>3, <1>4 DEF BrokerInv

(* on_message, arm by arm. *)
LEMMA OnMessageInv ==
  ASSUME BrokerInv, NEW c \in daemons \cup pwas, NEW m \in ClientFrame, OnMessage(c, m)
  PROVE  BrokerInv'
<1>1. CASE IsCreate(c, m) /\ Create(c, m.id)
  BY <1>1, CreateInv DEF IsCreate
<1>2. CASE IsDecision(m) /\ Resolve(m.id, m.verdict, c \in daemons)
  <2>1. m.verdict \in Verdict /\ m.id \in Ids
    BY <1>2 DEF IsDecision, DecisionVerdict, ParseVerdict
  <2>2. (c \in daemons) \in BOOLEAN
    OBVIOUS
  <2> QED BY <1>2, <2>1, <2>2, ResolveInv
<1>3. CASE IsWithdraw(c, m) /\ Resolve(m.id, NoVerdict, TRUE)
  BY <1>3, ResolveInv DEF IsWithdraw
<1>4. CASE IsSubscribe(c, m) /\ SendSnapshot(c)
  <2>1. c \in Conns /\ SnapshotFrame(Pending) \in ServerFrame
    BY <1>4, ServerFrames DEF BrokerInv, BrokerTypeOK, IsSubscribe, Pending
  <2>2. outbox' \in [Conns -> Seq(ServerFrame)]
    BY <1>4, <2>1 DEF BrokerInv, BrokerTypeOK, SendSnapshot
  <2> QED BY <1>4, <2>2
        DEF BrokerInv, BrokerTypeOK, ConnsDistinct, OwnerRegistered, Pending, SendSnapshot
<1>5. CASE UNCHANGED brokerVars
  BY <1>5 DEF BrokerInv, BrokerTypeOK, ConnsDistinct, OwnerRegistered, Pending, brokerVars
<1> QED BY <1>1, <1>2, <1>3, <1>4, <1>5 DEF OnMessage

(* disconnect: whatever the connection owned goes with it. *)
LEMMA DisconnectInv ==
  ASSUME BrokerInv, NEW c \in Conns, Disconnect(c)
  PROVE  BrokerInv'
<1>1. outbox' \in [Conns -> Seq(ServerFrame)]
  <2>1. PICK order \in Orderings(Orphans(c)) :
          outbox' = [Broadcast([k \in DOMAIN order |-> ResolvedFrame(order[k])])
                       EXCEPT ![c] = <<>>]
    BY DEF Disconnect
  <2> DEFINE dismissed == [k \in DOMAIN order |-> ResolvedFrame(order[k])]
  <2>2. dismissed \in Seq(ServerFrame)
    <3>1. order \in [1 .. Cardinality(Orphans(c)) -> Ids]
      BY DEF Orderings, Orphans
    <3>2. Cardinality(Orphans(c)) \in Nat
      BY BrokerAssumption, FS_Subset, FS_CardinalityType DEF Orphans
    <3> QED BY <3>1, <3>2, ServerFrames
  <2>3. Broadcast(dismissed) \in [Conns -> Seq(ServerFrame)]
    BY <2>2, BroadcastType DEF BrokerInv
  <2> HIDE DEF dismissed
  <2>4. outbox' = [Broadcast(dismissed) EXCEPT ![c] = <<>>]
    BY <2>1 DEF dismissed
  <2> QED BY <2>3, <2>4
<1>2. BrokerTypeOK'
  BY <1>1 DEF BrokerInv, BrokerTypeOK, Disconnect
<1>3. ConnsDistinct'
  BY DEF BrokerInv, ConnsDistinct, Disconnect
<1>4. OwnerRegistered'
  BY ConnsNumbers DEF BrokerInv, BrokerTypeOK, OwnerRegistered, Pending, Orphans, Disconnect
<1> QED BY <1>2, <1>3, <1>4 DEF BrokerInv

(* The send tasks touch queues only. *)
LEMMA PumpInv ==
  ASSUME BrokerInv, NEW c \in Conns, PumpSend(c) \/ PumpFail(c)
  PROVE  BrokerInv'
<1>1. outbox' \in [Conns -> Seq(ServerFrame)]
  <2>1. outbox \in [Conns -> Seq(ServerFrame)] /\ <<>> \in Seq(ServerFrame)
    BY DEF BrokerInv, BrokerTypeOK
  <2>2. outbox[c] # <<>> => Tail(outbox[c]) \in Seq(ServerFrame)
    BY <2>1
  <2> QED BY <2>1, <2>2 DEF PumpSend, PumpFail
<1> QED BY <1>1
      DEF BrokerInv, BrokerTypeOK, ConnsDistinct, OwnerRegistered, Pending, PumpSend, PumpFail

(* A restarted broker has nothing pending and nobody registered. *)
LEMMA RestartInv ==
  ASSUME BrokerInv, Restart
  PROVE  BrokerInv'
BY DEF BrokerInv, BrokerTypeOK, ConnsDistinct, OwnerRegistered, Pending, Restart

(* Every operation of the broker keeps the invariant. *)
LEMMA NextInv == BrokerInv /\ [BrokerNext]_brokerVars => BrokerInv'
<1> SUFFICES ASSUME BrokerInv, [BrokerNext]_brokerVars PROVE BrokerInv'
  OBVIOUS
<1>1. CASE \E role \in Role : Register(role)
  BY <1>1, RegisterInv
<1>2. CASE \E c \in Conns, m \in ClientFrame : Receive(c, m)
  BY <1>2, OnMessageInv DEF Receive
<1>3. CASE \E c \in Conns : Disconnect(c)
  BY <1>3, DisconnectInv
<1>4. CASE \E c \in Conns : PumpSend(c) \/ PumpFail(c)
  BY <1>4, PumpInv
<1>5. CASE Restart
  BY <1>5, RestartInv
<1>6. CASE UNCHANGED brokerVars
  BY <1>6 DEF BrokerInv, BrokerTypeOK, ConnsDistinct, OwnerRegistered, Pending, brokerVars
<1> QED BY <1>1, <1>2, <1>3, <1>4, <1>5, <1>6 DEF BrokerNext

-----------------------------------------------------------------------------
(* The routing state keeps its type: no frame is ever queued that the      *)
(* protocol does not have, so a verdict on its way down is allow or deny   *)
(* whatever a client put in its decision.                                  *)
THEOREM BrokerTypeCorrect == BrokerSpec => []BrokerTypeOK
<1>1. BrokerInv => BrokerTypeOK
  BY DEF BrokerInv
<1> QED BY <1>1, InitInv, NextInv, PTL DEF BrokerSpec

(* Every pending request is owned by a registered daemon connection. *)
THEOREM OwnerAlwaysRegistered == BrokerSpec => []OwnerRegistered
<1>1. BrokerInv => OwnerRegistered
  BY DEF BrokerInv
<1> QED BY <1>1, InitInv, NextInv, PTL DEF BrokerSpec

-----------------------------------------------------------------------------
(* The only steps in which a daemon leaves are disconnect, which touches   *)
(* its own requests, and a restart; when a restart takes exactly c, every  *)
(* pending request was c's, by OwnerRegistered.                            *)
LEMMA DisconnectScopeStep ==
  ASSUME BrokerInv, [BrokerNext]_brokerVars, NEW c \in Conns, NEW i \in Ids,
         daemons \ daemons' = {c}, requests[i] # c
  PROVE  requests'[i] = requests[i]
<1>1. CASE \E d \in Conns : Disconnect(d)
  <2>1. PICK d \in Conns : Disconnect(d)
    BY <1>1
  <2>2. d = c
    BY <2>1 DEF Disconnect
  <2> QED BY <2>1, <2>2 DEF Disconnect, Orphans
<1>2. CASE Restart
  <2>1. daemons = {c} /\ requests'[i] = NoConn
    BY <1>2 DEF Restart
  <2>2. i \notin Pending
    BY <2>1 DEF BrokerInv, OwnerRegistered
  <2> QED BY <2>1, <2>2 DEF Pending
<1>3. ASSUME daemons \subseteq daemons' PROVE FALSE
  BY <1>3
<1>4. CASE \/ \E role \in Role : Register(role)
           \/ \E d \in Conns : PumpSend(d) \/ PumpFail(d)
           \/ UNCHANGED brokerVars
  BY <1>3, <1>4 DEF Register, PumpSend, PumpFail, brokerVars
<1>5. CASE \E d \in Conns, m \in ClientFrame : Receive(d, m)
  BY <1>3, <1>5 DEF Receive, OnMessage, Create, Resolve, SendSnapshot, brokerVars
<1> QED BY <1>1, <1>2, <1>4, <1>5 DEF BrokerNext

(* A daemon that disconnects takes only its own requests with it. *)
THEOREM DisconnectTakesItsOwn == BrokerSpec => DisconnectScope
<1>1. BrokerInv /\ [BrokerNext]_brokerVars =>
        [\A c \in Conns, i \in Ids :
           (daemons \ daemons' = {c} /\ requests[i] # c)
             => requests'[i] = requests[i]]_brokerVars
  BY DisconnectScopeStep
<1> QED BY <1>1, InitInv, NextInv, PTL DEF BrokerSpec, DisconnectScope

-----------------------------------------------------------------------------
(* Adding one frame to a queue, and which frame is then its last. *)
LEMMA LastOfConcat ==
  ASSUME NEW S, NEW q \in Seq(S), NEW e
  PROVE  /\ Len(q \o <<e>>) = Len(q) + 1 /\ (q \o <<e>>)[Len(q) + 1] = e
         /\ Len(Append(q, e)) = Len(q) + 1 /\ Append(q, e)[Len(q) + 1] = e
         /\ Len(q) \in Nat /\ Len(q) # Len(q) + 1 /\ Len(<<>>) # Len(q) + 1
OBVIOUS

(* Which step queues a decision: only resolve of a pending id, when the    *)
(* decision came from the web.                                             *)
LEMMA RoutingStep ==
  ASSUME BrokerInv, BrokerNext, NEW c \in Conns, NEW i \in Ids, NEW v \in Verdict,
         Queued(c, DecisionFrame(i, v))
  PROVE  /\ requests[i] = c
         /\ c \in daemons
         /\ requests'[i] = NoConn
         /\ \A p \in pwas \cap pumping : Queued(p, ResolvedFrame(i))
<1>1. /\ outbox \in [Conns -> Seq(ServerFrame)] /\ outbox[c] \in Seq(ServerFrame)
      /\ Len(outbox'[c]) = Len(outbox[c]) + 1
      /\ outbox'[c][Len(outbox[c]) + 1] = DecisionFrame(i, v)
      /\ pwas \subseteq Conns /\ daemons \cap pwas = {}
      /\ requests \in [Ids -> Conns \cup {NoConn}]
  BY DEF BrokerInv, BrokerTypeOK, ConnsDistinct, Queued
<1>2. /\ \A j : AddedFrame(j) # DecisionFrame(i, v) /\ ResolvedFrame(j) # DecisionFrame(i, v)
      /\ \A S : SnapshotFrame(S) # DecisionFrame(i, v)
      /\ \A j, w : DecisionFrame(j, w) = DecisionFrame(i, v) => j = i
  BY DEF AddedFrame, ResolvedFrame, SnapshotFrame, DecisionFrame
<1>3. outbox'[c] # outbox[c] /\ outbox'[c] # <<>>
  BY <1>1, LastOfConcat
<1>4. \A e : outbox'[c] = outbox[c] \o <<e>> \/ outbox'[c] = Append(outbox[c], e)
               => e = DecisionFrame(i, v)
  BY <1>1, LastOfConcat
<1>5. CASE \E d \in Conns, m \in ClientFrame : Receive(d, m)
  <2>1. PICK d \in Conns, m \in ClientFrame : OnMessage(d, m)
    BY <1>5 DEF Receive
  <2>2. ASSUME NEW j, Create(d, j) PROVE FALSE
    BY <1>1, <1>2, <1>3, <1>4, <2>2 DEF Create, Broadcast
  <2>3. ASSUME SendSnapshot(d) PROVE FALSE
    BY <1>1, <1>2, <1>3, <1>4, <2>3 DEF SendSnapshot
  <2>4. ASSUME NEW j \in Ids, NEW w, NEW b, Resolve(j, w, b)
        PROVE  /\ requests[i] = c
               /\ c \in daemons
               /\ requests'[i] = NoConn
               /\ \A p \in pwas \cap pumping : Queued(p, ResolvedFrame(i))
    <3>1. j \in Pending /\ outbox' = ResolvedOutbox(j, w, b) /\ requests' = [requests EXCEPT ![j] = NoConn]
      BY <1>3, <2>4 DEF Resolve
    <3>2. outbox'[c] # Broadcast(<<ResolvedFrame(j)>>)[c]
      BY <1>1, <1>2, <1>3, <1>4 DEF Broadcast
    <3>3. /\ c = requests[j] /\ c \in daemons
          /\ outbox'[c] = Append(outbox[c], DecisionFrame(j, w))
      BY <3>1, <3>2 DEF ResolvedOutbox
    <3>4. j = i
      BY <1>2, <1>4, <3>3
    <3>5. ASSUME NEW p \in pwas \cap pumping PROVE Queued(p, ResolvedFrame(i))
      <4>1. p \in Conns /\ p \notin daemons
        BY <1>1, <3>5
      <4>2. outbox'[p] = outbox[p] \o <<ResolvedFrame(i)>>
        BY <3>1, <3>4, <3>5, <4>1 DEF ResolvedOutbox, Broadcast
      <4>3. outbox[p] \in Seq(ServerFrame)
        BY <1>1, <4>1
      <4> QED BY <4>2, <4>3, LastOfConcat DEF Queued
    <3> QED BY <1>1, <3>1, <3>3, <3>4, <3>5
  <2>5. UNCHANGED brokerVars => FALSE
    BY <1>3 DEF brokerVars
  <2> QED BY <2>1, <2>2, <2>3, <2>4, <2>5 DEF OnMessage, IsDecision, IsWithdraw
<1>6. CASE \E d \in Conns : Disconnect(d)
  <2>0. PICK d \in Conns : Disconnect(d)
    BY <1>6
  <2>1. PICK order \in Orderings(Orphans(d)) :
          outbox' = [Broadcast([k \in DOMAIN order |-> ResolvedFrame(order[k])])
                       EXCEPT ![d] = <<>>]
    BY <2>0 DEF Disconnect
  <2> DEFINE dismissed == [k \in DOMAIN order |-> ResolvedFrame(order[k])]
  <2>2. dismissed \in Seq(ServerFrame) /\ \A k \in DOMAIN dismissed : dismissed[k] # DecisionFrame(i, v)
    <3>1. order \in [1 .. Cardinality(Orphans(d)) -> Ids]
      BY DEF Orderings, Orphans
    <3>2. Cardinality(Orphans(d)) \in Nat
      BY BrokerAssumption, FS_Subset, FS_CardinalityType DEF Orphans
    <3> QED BY <1>2, <3>1, <3>2, ServerFrames
  <2>3. outbox' = [Broadcast(dismissed) EXCEPT ![d] = <<>>]
    BY <2>1
  <2> HIDE DEF dismissed
  <2>4. outbox'[c] = outbox[c] \o dismissed
    BY <1>1, <1>3, <2>3 DEF Broadcast
  <2>5. Len(dismissed) = 1 /\ dismissed[1] = DecisionFrame(i, v) /\ 1 \in DOMAIN dismissed
    BY <1>1, <2>2, <2>4
  <2> QED BY <2>2, <2>5
<1>7. CASE \E d \in Conns : PumpSend(d)
  <2>1. PICK d \in Conns : outbox[d] # <<>> /\ outbox' = [outbox EXCEPT ![d] = Tail(outbox[d])]
    BY <1>7 DEF PumpSend
  <2>2. outbox[c] # <<>> /\ outbox'[c] = Tail(outbox[c])
    BY <1>1, <1>3, <2>1
  <2>3. Len(Tail(outbox[c])) = Len(outbox[c]) - 1 /\ Len(outbox[c]) \in Nat
    BY <1>1, <2>2
  <2> QED BY <1>1, <2>2, <2>3
<1>8. CASE \E d \in Conns : PumpFail(d)
  BY <1>1, <1>3, <1>8 DEF PumpFail
<1>9. CASE \E role \in Role : Register(role)
  BY <1>3, <1>9 DEF Register
<1>10. CASE Restart
  BY <1>3, <1>10 DEF Restart
<1> QED BY <1>5, <1>6, <1>7, <1>8, <1>9, <1>10 DEF BrokerNext

(* A web decision goes to the one daemon that owns the request, in the step *)
(* that ends the request and dismisses its card on every PWA.               *)
THEOREM WebDecisionsRouted == BrokerSpec => WebDecisionRouting
<1>1. BrokerInv /\ [BrokerNext]_brokerVars =>
        [\A c \in Conns, i \in Ids, v \in Verdict :
           Queued(c, DecisionFrame(i, v)) =>
             /\ requests[i] = c
             /\ c \in daemons
             /\ requests'[i] = NoConn
             /\ \A p \in pwas \cap pumping : Queued(p, ResolvedFrame(i))]_brokerVars
  BY RoutingStep
<1> QED BY <1>1, InitInv, NextInv, PTL DEF BrokerSpec, WebDecisionRouting
=============================================================================
