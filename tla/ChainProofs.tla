---------------------------- MODULE ChainProofs -----------------------------
(***************************************************************************)
(* The proof that the approval chain never makes up a verdict, for every   *)
(* set of requests, every number of links, crashes and restarts, and with  *)
(* or without overlapping links; that it implements Approval; and that it  *)
(* strands no waiting plugin while links do not overlap; and the auto-start *)
(* of the daemon the chain runs in, for every number of plugins that start  *)
(* close together: a daemon that loses the race for the address always has  *)
(* a winner, and on Windows the race has exactly one.                       *)
(***************************************************************************)
EXTENDS Chain, DaemonStart, BrokerProofs, FiniteSetTheorems, TLAPS

(* The verdicts people have decided for request i, *)
Issued(i) == {v \in Verdict : <<i, v>> \in issued}

(* the frames that may be queued for a daemon, *)
Routed == {m \in [type : {"decision"}, id : Ids, verdict : Verdict] :
             m.verdict \in Issued(m.id)}

(* the lines that may be on their way to the plugin of request i, *)
Lines(i) == {AckLine} \cup {l \in [type : {"decision"}, verdict : Verdict] :
                              l.verdict \in Issued(i)}

(* and the lines a plugin sends after its create line. *)
Locals == [type : {"decision"}, verdict : Verdict]

(* Whatever carries a verdict down to a plugin carries one that a person   *)
(* decided for that request; only a plugin that is done has answered.      *)
Provenance ==
  /\ pwas = {}
  /\ outbox \in [Conns -> Seq(Routed)]
  /\ \A i \in Ids : /\ chan[i] \in Seq(Issued(i))
                    /\ toPlugin[i] \in Seq(Lines(i))
                    /\ phase[i] = "relaying" => held[i] \in Issued(i)
                    /\ phase[i] # "done" => answer[i] = NoVerdict
  /\ VerdictIntegrity

(* The daemon reads a create line exactly where it expects one. *)
LinesInOrder ==
  \A i \in Ids :
    /\ phase[i] = "idle" => toDaemon[i] = <<>> /\ task[i] = "none" /\ i \notin hungUp
    /\ task[i] # "none" => toDaemon[i] \in Seq(Locals)
    /\ toDaemon[i] # <<>> => Tail(toDaemon[i]) \in Seq(Locals)

(* The types of the variables of one host, and of the network. *)
HostTypeOK == PluginTypeOK /\ DaemonTypeOK

NetTypeOK ==
  /\ dialed \in Conns \cup {NoConn}
  /\ up \in [Conns -> Seq(ClientFrame)]
  /\ cut \subseteq Conns
  /\ crashes \in 0 .. MaxCrashes
  /\ restarts \in 0 .. MaxRestarts

(* The inductive invariant. *)
ChainInv == BrokerInv /\ HostTypeOK /\ NetTypeOK /\ LinesInOrder /\ Provenance

hostVars == <<pluginVars, daemonVars>>

-----------------------------------------------------------------------------
(* Sequences over a smaller set are sequences over a larger one. *)
LEMMA SeqMono ==
  ASSUME NEW S, NEW T, S \subseteq T
  PROVE  Seq(S) \subseteq Seq(T)
OBVIOUS

(* A decision that was made stays made. *)
LEMMA IssuedGrows ==
  ASSUME issued \subseteq issued'
  PROVE  /\ Seq(Routed) \subseteq Seq(Routed')
         /\ \A i \in Ids : /\ Issued(i) \subseteq Issued(i)'
                           /\ Seq(Issued(i)) \subseteq Seq(Issued(i)')
                           /\ Seq(Lines(i)) \subseteq Seq(Lines(i)')
<1>1. \A i \in Ids : Issued(i) \subseteq Issued(i)'
  BY DEF Issued
<1>2. Routed \subseteq Routed'
  BY <1>1 DEF Routed
<1>3. \A i \in Ids : Lines(i) \subseteq Lines(i)'
  BY <1>1 DEF Lines
<1> QED BY <1>1, <1>2, <1>3, SeqMono

(* A frame appended behind others is no new first frame. *)
LEMMA TailAppend ==
  ASSUME NEW S, NEW T, NEW q \in Seq(S), q # <<>>, Tail(q) \in Seq(T), NEW e \in T, T \subseteq S
  PROVE  Tail(Append(q, e)) \in Seq(T)
<1>1. Tail(Append(q, e)) = Append(Tail(q), e)
  OBVIOUS
<1> QED BY <1>1

(* Nothing follows a single element. *)
LEMMA SingleTail == ASSUME NEW e, NEW T PROVE Tail(<<e>>) \in Seq(T)
<1>1. Tail(<<e>>) = <<>>
  OBVIOUS
<1> QED BY <1>1

(* Frames and lines that are built are of the right kind. *)
LEMMA ChainFrames ==
  /\ \A i \in Ids : CreateFrame(i) \in ClientFrame /\ WithdrawFrame(i) \in ClientFrame
  /\ \A i \in Ids, w \in WireVerdict : DecisionFrame(i, w) \in ClientFrame
  /\ \A v \in Verdict : LocalLine(v) \in Locals
  /\ Locals \subseteq PluginLine /\ CreateLine \in PluginLine
  /\ \A i \in Ids : Lines(i) \subseteq DaemonLine /\ Issued(i) \subseteq Verdict
<1>1. \A i \in Ids : CreateFrame(i) \in ClientFrame /\ WithdrawFrame(i) \in ClientFrame
  BY DEF CreateFrame, WithdrawFrame, ClientFrame
<1>2. \A i \in Ids, w \in WireVerdict : DecisionFrame(i, w) \in ClientFrame
  BY DEF DecisionFrame, ClientFrame
<1>3. \A v \in Verdict : LocalLine(v) \in Locals
  BY DEF LocalLine, Locals
<1>4. Locals \subseteq PluginLine /\ CreateLine \in PluginLine
  BY DEF Locals, PluginLine, CreateLine
<1>5. \A i \in Ids : Lines(i) \subseteq DaemonLine /\ Issued(i) \subseteq Verdict
  BY DEF Lines, DaemonLine, Issued
<1> QED BY <1>1, <1>2, <1>3, <1>4, <1>5

-----------------------------------------------------------------------------
(* The plugin's steps keep the host's types and the order of its lines. *)
LEMMA PluginHost ==
  ASSUME ChainInv, NEW i \in Ids, PluginStep(i), UNCHANGED daemonVars
  PROVE  HostTypeOK' /\ LinesInOrder'
<1>1. /\ phase \in [Ids -> Phase] /\ answer \in [Ids -> Answer]
      /\ held \in [Ids -> Verdict \cup {NoVerdict}]
      /\ toDaemon \in [Ids -> Seq(PluginLine)] /\ toPlugin \in [Ids -> Seq(DaemonLine)]
      /\ hungUp \subseteq Ids /\ issued \subseteq Ids \X WireVerdict
      /\ DaemonTypeOK'
  BY DEF ChainInv, HostTypeOK, PluginTypeOK, DaemonTypeOK, daemonVars
<1>2. \A j \in Ids :
        /\ phase[j] = "idle" => toDaemon[j] = <<>> /\ task[j] = "none" /\ j \notin hungUp
        /\ task[j] # "none" => toDaemon[j] \in Seq(Locals)
        /\ toDaemon[j] # <<>> => Tail(toDaemon[j]) \in Seq(Locals)
  BY DEF ChainInv, LinesInOrder
<1>3. task' = task
  BY DEF daemonVars
<1>4. ASSUME UNCHANGED <<toDaemon, hungUp, issued>>, held' = held,
             NEW r \in Phase \ {"idle"}, phase' = [phase EXCEPT ![i] = r],
             answer' \in [Ids -> Answer], toPlugin' \in [Ids -> Seq(DaemonLine)]
      PROVE  HostTypeOK' /\ LinesInOrder'
  <2>1. PluginTypeOK'
    BY <1>1, <1>4 DEF PluginTypeOK
  <2>2. LinesInOrder'
    BY <1>1, <1>2, <1>3, <1>4 DEF LinesInOrder
  <2> QED BY <1>1, <2>1, <2>2 DEF HostTypeOK
<1>5. CASE PluginStepAside(i)
  <2>1. PICK a \in {"defer", "ask"} : WriteResponse(i, a)
    BY <1>5 DEF PluginStepAside
  <2>2. answer' \in [Ids -> Answer] /\ phase' = [phase EXCEPT ![i] = "done"]
    BY <1>1, <2>1 DEF WriteResponse, Answer
  <2> QED BY <1>1, <1>4, <1>5, <2>2 DEF PluginStepAside, Phase
<1>6. CASE PluginOpen(i)
  <2>1. toDaemon' = [toDaemon EXCEPT ![i] = <<CreateLine>>] /\ task[i] = "none"
    BY <1>2, <1>6 DEF PluginOpen
  <2>2. <<CreateLine>> \in Seq(PluginLine) /\ Tail(<<CreateLine>>) \in Seq(Locals)
    BY ChainFrames, SingleTail
  <2>3. PluginTypeOK'
    BY <1>1, <1>6, <2>1, <2>2 DEF PluginTypeOK, PluginOpen, Phase
  <2>4. LinesInOrder'
    BY <1>1, <1>2, <1>3, <1>6, <2>1, <2>2 DEF LinesInOrder, PluginOpen
  <2> QED BY <1>1, <2>3, <2>4 DEF HostTypeOK
<1>7. CASE PluginRemote(i)
  <2>1. toPlugin[i] # <<>> /\ Tail(toPlugin[i]) \in Seq(DaemonLine)
    BY <1>1, <1>7 DEF PluginRemote
  <2>2. toPlugin' \in [Ids -> Seq(DaemonLine)] /\ answer' \in [Ids -> Answer]
    BY <1>1, <1>7, <2>1 DEF PluginRemote, WriteResponse, InterpretDecision, Answer, Verdict
  <2> QED BY <1>4, <1>7, <2>2 DEF PluginRemote, WriteResponse, Phase
<1>8. CASE \E v \in Verdict : PluginLocal(i, v)
  <2>1. PICK v \in Verdict : PluginLocal(i, v)
    BY <1>8
  <2>2. toDaemon' = [toDaemon EXCEPT ![i] = Append(toDaemon[i], LocalLine(v))]
    BY <2>1 DEF PluginLocal
  <2>3. LocalLine(v) \in Locals /\ Locals \subseteq PluginLine
    BY ChainFrames
  <2>4. Append(toDaemon[i], LocalLine(v)) \in Seq(PluginLine)
    BY <1>1, <2>3
  <2>5. task[i] # "none" => Append(toDaemon[i], LocalLine(v)) \in Seq(Locals)
    BY <1>2, <2>3
  <2>6. Tail(Append(toDaemon[i], LocalLine(v))) \in Seq(Locals)
    <3>1. CASE toDaemon[i] = <<>>
      <4>1. Append(toDaemon[i], LocalLine(v)) = <<LocalLine(v)>>
        BY <3>1
      <4> QED BY <4>1, SingleTail
    <3>2. CASE toDaemon[i] # <<>>
      BY <1>1, <1>2, <2>3, <3>2, TailAppend
    <3> QED BY <3>1, <3>2
  <2>7. PluginTypeOK'
    BY <1>1, <2>1, <2>2, <2>4 DEF PluginTypeOK, PluginLocal, Phase, WireVerdict
  <2>8. LinesInOrder'
    BY <1>1, <1>2, <1>3, <2>1, <2>2, <2>5, <2>6 DEF LinesInOrder, PluginLocal
  <2> QED BY <1>1, <2>7, <2>8 DEF HostTypeOK
<1>9. CASE PluginSettle(i)
  BY <1>1, <1>4, <1>9 DEF PluginSettle, WriteResponse, Phase, Answer
<1>10. CASE PluginClosed(i)
  BY <1>1, <1>4, <1>10 DEF PluginClosed, WriteResponse, Phase, Answer
<1>11. CASE PluginKill(i)
  BY <1>1, <1>4, <1>11 DEF PluginKill, Phase
<1> QED BY <1>5, <1>6, <1>7, <1>8, <1>9, <1>10, <1>11 DEF PluginStep

(* The steps of a handle_plugin task do. *)
LEMMA TaskHost ==
  ASSUME ChainInv, NEW i \in Ids, DaemonTask(i)
  PROVE  HostTypeOK' /\ LinesInOrder'
<1>1. /\ toDaemon \in [Ids -> Seq(PluginLine)] /\ toPlugin \in [Ids -> Seq(DaemonLine)]
      /\ hungUp \subseteq Ids /\ task \in [Ids -> Task] /\ routes \subseteq Ids
      /\ chan \in [Ids -> Seq(Verdict)] /\ queue \in Seq(ClientFrame)
  BY DEF ChainInv, HostTypeOK, PluginTypeOK, DaemonTypeOK
<1>2. \A j \in Ids :
        /\ phase[j] = "idle" => toDaemon[j] = <<>> /\ task[j] = "none" /\ j \notin hungUp
        /\ task[j] # "none" => toDaemon[j] \in Seq(Locals)
        /\ toDaemon[j] # <<>> => Tail(toDaemon[j]) \in Seq(Locals)
  BY DEF ChainInv, LinesInOrder
<1>3. \A q \in Seq(Locals) : q # <<>> => Tail(q) \in Seq(Locals) /\ Head(q).verdict \in WireVerdict
  <2> SUFFICES ASSUME NEW q \in Seq(Locals), q # <<>>
               PROVE  Tail(q) \in Seq(Locals) /\ Head(q).verdict \in WireVerdict
    OBVIOUS
  <2>1. Head(q) \in Locals /\ Tail(q) \in Seq(Locals)
    OBVIOUS
  <2> QED BY <2>1 DEF Locals, WireVerdict
<1>4. CASE HandleCreate(i)
  <2>1. toDaemon[i] # <<>> /\ Tail(toDaemon[i]) \in Seq(Locals) /\ Tail(toDaemon[i]) \in Seq(PluginLine)
    BY <1>1, <1>2, <1>4 DEF HandleCreate
  <2>2. Append(queue, CreateFrame(i)) \in Seq(ClientFrame)
    BY <1>1, ChainFrames
  <2>3. HostTypeOK'
    BY <1>1, <1>4, <2>1, <2>2
       DEF ChainInv, HostTypeOK, PluginTypeOK, DaemonTypeOK, HandleCreate, Task
  <2>4. LinesInOrder'
    BY <1>1, <1>2, <1>3, <1>4, <2>1 DEF LinesInOrder, HandleCreate
  <2> QED BY <2>3, <2>4
<1>5. CASE HandleRemote(i)
  <2>1. /\ chan[i] # <<>> /\ Head(chan[i]) \in Verdict /\ Tail(chan[i]) \in Seq(Verdict)
    BY <1>1, <1>5 DEF HandleRemote
  <2>2. [type |-> "decision", verdict |-> Head(chan[i])] \in DaemonLine
    BY <2>1 DEF DaemonLine
  <2>3. Append(toPlugin[i], [type |-> "decision", verdict |-> Head(chan[i])]) \in Seq(DaemonLine)
    BY <1>1, <2>2
  <2>4. HostTypeOK'
    BY <1>1, <1>5, <2>1, <2>3
       DEF ChainInv, HostTypeOK, PluginTypeOK, DaemonTypeOK, HandleRemote, Task
  <2>5. LinesInOrder'
    BY <1>1, <1>2, <1>5 DEF LinesInOrder, HandleRemote
  <2> QED BY <2>4, <2>5
<1>6. CASE HandleLocal(i)
  <2>1. /\ Tail(toDaemon[i]) \in Seq(Locals) /\ Head(toDaemon[i]).verdict \in WireVerdict
        /\ Tail(toDaemon[i]) \in Seq(PluginLine)
    BY <1>1, <1>2, <1>3, <1>6 DEF HandleLocal
  <2>2. Append(queue, DecisionFrame(i, Head(toDaemon[i]).verdict)) \in Seq(ClientFrame)
    BY <1>1, <2>1, ChainFrames
  <2>3. Append(toPlugin[i], AckLine) \in Seq(DaemonLine)
    <3>1. AckLine \in DaemonLine
      BY DEF DaemonLine
    <3> QED BY <1>1, <3>1
  <2>4. HostTypeOK'
    BY <1>1, <1>6, <2>1, <2>2, <2>3
       DEF ChainInv, HostTypeOK, PluginTypeOK, DaemonTypeOK, HandleLocal, Task
  <2>5. LinesInOrder'
    BY <1>1, <1>2, <1>3, <1>6, <2>1 DEF LinesInOrder, HandleLocal
  <2> QED BY <2>4, <2>5
<1>7. CASE HandleEof(i)
  <2>1. Append(queue, WithdrawFrame(i)) \in Seq(ClientFrame)
    BY <1>1, ChainFrames
  <2>2. HostTypeOK'
    BY <1>1, <1>7, <2>1
       DEF ChainInv, HostTypeOK, PluginTypeOK, DaemonTypeOK, HandleEof, Task, pluginVars
  <2>3. LinesInOrder'
    BY <1>1, <1>2, <1>7 DEF LinesInOrder, HandleEof, pluginVars
  <2> QED BY <2>2, <2>3
<1>8. CASE HandleFinish(i)
  <2>1. HostTypeOK'
    BY <1>1, <1>8
       DEF ChainInv, HostTypeOK, PluginTypeOK, DaemonTypeOK, HandleFinish, Task
  <2>2. LinesInOrder'
    BY <1>1, <1>2, <1>8 DEF LinesInOrder, HandleFinish
  <2> QED BY <2>1, <2>2
<1> QED BY <1>4, <1>5, <1>6, <1>7, <1>8 DEF DaemonTask

(* A frame queued for a daemon is a decision the daemon can route. *)
LEMMA RoutedFrame ==
  ASSUME NEW m \in Routed
  PROVE  m.id \in Ids /\ m.verdict \in Verdict /\ m.verdict \in Issued(m.id)
BY DEF Routed

(* What is announced again is a sequence of ids. *)
LEMMA OrderingsSeq ==
  ASSUME NEW S \in SUBSET Ids, NEW order \in Orderings(S)
  PROVE  order \in Seq(Ids)
<1>1. Cardinality(S) \in Nat
  BY BrokerAssumption, FS_Subset, FS_CardinalityType
<1>2. order \in [1 .. Cardinality(S) -> Ids]
  BY DEF Orderings
<1> QED BY <1>1, <1>2

(* Outside the host's own steps, only these touch its variables. *)
LEMMA NetHost ==
  ASSUME ChainInv,
         \/ Network \/ Fault
         \/ \E i \in Ids, w \in WireVerdict : WebDecide(i, w)
  PROVE  HostTypeOK' /\ LinesInOrder'
<1> USE DEF ChainInv
<1>1. CASE UNCHANGED hostVars
  BY <1>1 DEF hostVars, pluginVars, daemonVars, HostTypeOK, PluginTypeOK, DaemonTypeOK, LinesInOrder
<1>2. ASSUME UNCHANGED <<pluginVars, task>>, DaemonTypeOK'
      PROVE  HostTypeOK' /\ LinesInOrder'
  BY <1>2 DEF pluginVars, HostTypeOK, PluginTypeOK, LinesInOrder
<1>3. /\ announce \in Seq(Ids) /\ queue \in Seq(ClientFrame) /\ chan \in [Ids -> Seq(Verdict)]
      /\ routes \in SUBSET Ids /\ outbox \in [Conns -> Seq(Routed)]
      /\ hungUp \subseteq Ids /\ task \in [Ids -> Task]
  BY DEF HostTypeOK, PluginTypeOK, DaemonTypeOK, Provenance
<1>4. CASE Connect
  <2>1. announce' \in Seq(Ids)
    BY <1>3, <1>4, OrderingsSeq DEF Connect, LinkUp
  <2> QED BY <1>2, <1>4, <2>1 DEF Connect, LinkUp, HostTypeOK, DaemonTypeOK
<1>5. CASE Announce
  <2>1. announce' \in Seq(Ids)
    BY <1>3, <1>5 DEF Announce, LinkAnnounce
  <2> QED BY <1>2, <1>5, <2>1 DEF Announce, LinkAnnounce, HostTypeOK, DaemonTypeOK
<1>6. CASE StartPump
  BY <1>2, <1>6 DEF StartPump, LinkPump, HostTypeOK, DaemonTypeOK
<1>7. CASE Forward
  <2>1. queue' \in Seq(ClientFrame)
    BY <1>3, <1>7 DEF Forward, LinkSend
  <2> QED BY <1>2, <1>7, <2>1 DEF Forward, LinkSend, HostTypeOK, DaemonTypeOK
<1>8. CASE Deliver
  <2> DEFINE m == Head(outbox[dialed])
  <2>1. dialed \in Conns /\ outbox[dialed] # <<>> /\ RouteDecision(m)
    BY <1>8 DEF Deliver, PumpSend, NetTypeOK
  <2>2. m \in Routed
    BY <1>3, <2>1
  <2> HIDE DEF m
  <2>3. m.id \in Ids /\ m.verdict \in Verdict
    BY <2>2, RoutedFrame
  <2>4. chan' \in [Ids -> Seq(Verdict)]
    BY <1>3, <2>1, <2>3 DEF RouteDecision
  <2> QED BY <1>2, <2>1, <2>4 DEF RouteDecision, HostTypeOK, DaemonTypeOK
<1>9. CASE DaemonNotices
  BY <1>2, <1>9 DEF DaemonNotices, LinkDown, HostTypeOK, DaemonTypeOK
<1>10. CASE \E c \in Conns : BrokerReads(c) \/ BrokerWriteFails(c) \/ BrokerNotices(c) \/ CutLink(c)
  BY <1>1, <1>10 DEF BrokerReads, BrokerWriteFails, BrokerNotices, CutLink, hostVars
<1>11. CASE RestartBroker
  BY <1>1, <1>11 DEF RestartBroker, hostVars
<1>12. CASE CrashDaemon
  <2>1. DaemonTypeOK'
    BY <1>12 DEF CrashDaemon, DaemonCrash, DaemonTypeOK, Task
  <2>2. PluginTypeOK'
    BY <1>12 DEF CrashDaemon, DaemonCrash, HostTypeOK, PluginTypeOK
  <2>3. LinesInOrder'
    BY <1>12 DEF CrashDaemon, DaemonCrash, LinesInOrder
  <2> QED BY <2>1, <2>2, <2>3 DEF HostTypeOK
<1>13. CASE \E i \in Ids, w \in WireVerdict : WebDecide(i, w)
  <2>1. issued' \subseteq Ids \X WireVerdict
    BY <1>13 DEF WebDecide, HostTypeOK, PluginTypeOK
  <2> QED BY <1>13, <2>1
        DEF WebDecide, HostTypeOK, PluginTypeOK, DaemonTypeOK, LinesInOrder, daemonVars
<1> QED BY <1>4, <1>5, <1>6, <1>7, <1>8, <1>9, <1>10, <1>11, <1>12, <1>13 DEF Network, Fault

-----------------------------------------------------------------------------
(* A web decision comes from no daemon, so on_message resolves or ignores. *)
LEMMA WebArms ==
  ASSUME ChainInv, NEW i \in Ids, NEW w \in WireVerdict, WebDecide(i, w)
  PROVE  \/ w \in Verdict /\ Resolve(i, w, FALSE)
         \/ UNCHANGED brokerVars
<1>1. NoConn \notin daemons /\ NoConn \notin pwas
  BY ConnsNumbers DEF ChainInv, BrokerInv, BrokerTypeOK
<1>2. OnMessage(NoConn, DecisionFrame(i, w))
  BY DEF WebDecide
<1> DEFINE m == DecisionFrame(i, w)
<1>3. m.type = "decision" /\ m.id = i /\ m.verdict = w
  BY DEF DecisionFrame
<1> HIDE DEF m
<1>4. \/ IsDecision(m) /\ Resolve(m.id, m.verdict, NoConn \in daemons)
      \/ UNCHANGED brokerVars
  BY <1>1, <1>2, <1>3 DEF OnMessage, IsCreate, IsWithdraw, IsSubscribe, m
<1>5. IsDecision(m) => w \in Verdict
  BY <1>3 DEF IsDecision, DecisionVerdict, ParseVerdict
<1>6. (NoConn \in daemons) = FALSE
  BY <1>1
<1> QED BY <1>3, <1>4, <1>5, <1>6

(* Every step of the chain keeps the broker's invariant. *)
LEMMA BrokerPart ==
  ASSUME ChainInv, ChainNext
  PROVE  BrokerInv'
<1> USE DEF ChainInv
<1>1. CASE UNCHANGED brokerVars
  BY <1>1, NextInv
<1>2. CASE \E i \in Ids : Host(i)
  BY <1>1, <1>2 DEF Host
<1>3. CASE \E i \in Ids, w \in WireVerdict : WebDecide(i, w)
  <2>1. PICK i \in Ids, w \in WireVerdict : WebDecide(i, w)
    BY <1>3
  <2>2. CASE w \in Verdict /\ Resolve(i, w, FALSE)
    BY <2>2, ResolveInv
  <2> QED BY <1>1, <2>1, <2>2, WebArms
<1>4. CASE Connect
  BY <1>4, RegisterInv DEF Connect, Role
<1>5. CASE Announce \/ StartPump \/ Forward \/ DaemonNotices \/ CrashDaemon
           \/ \E c \in Conns : CutLink(c)
  BY <1>1, <1>5 DEF Announce, StartPump, Forward, DaemonNotices, CrashDaemon, CutLink
<1>6. CASE Deliver
  <2>1. dialed \in Conns
    BY <1>6 DEF Deliver, NetTypeOK
  <2> QED BY <1>6, <2>1, PumpInv DEF Deliver
<1>7. CASE \E c \in Conns : BrokerReads(c)
  <2>1. PICK c \in Conns : BrokerReads(c)
    BY <1>7
  <2>2. Head(up[c]) \in ClientFrame
    BY <2>1 DEF BrokerReads, NetTypeOK
  <2> QED BY <2>1, <2>2, OnMessageInv DEF BrokerReads
<1>8. CASE \E c \in Conns : BrokerWriteFails(c)
  BY <1>8, PumpInv DEF BrokerWriteFails
<1>9. CASE \E c \in Conns : BrokerNotices(c)
  BY <1>9, DisconnectInv DEF BrokerNotices
<1>10. CASE RestartBroker
  BY <1>10, RestartInv DEF RestartBroker
<1> QED BY <1>2, <1>3, <1>4, <1>5, <1>6, <1>7, <1>8, <1>9, <1>10 DEF ChainNext, Network, Fault

(* Writing to the link keeps the frames in flight well formed. *)
LEMMA TransmitType ==
  ASSUME NetTypeOK, NEW m \in ClientFrame, Transmit(m)
  PROVE  up' \in [Conns -> Seq(ClientFrame)]
<1>1. \A c \in Conns : Append(up[c], m) \in Seq(ClientFrame)
  BY DEF NetTypeOK
<1> QED BY <1>1 DEF Transmit, NetTypeOK

(* Every step keeps the network's types. *)
LEMMA NetPart ==
  ASSUME ChainInv, ChainNext
  PROVE  NetTypeOK'
<1> USE DEF ChainInv
<1>1. CASE UNCHANGED netVars
  BY <1>1 DEF netVars, NetTypeOK
<1>2. CASE \/ \E i \in Ids : Host(i)
           \/ \E i \in Ids, w \in WireVerdict : WebDecide(i, w)
           \/ StartPump \/ Deliver \/ \E c \in Conns : BrokerWriteFails(c)
  BY <1>1, <1>2 DEF Host, WebDecide, StartPump, Deliver, BrokerWriteFails
<1>3. CASE Connect
  <2>1. nextConn \in Conns
    BY <1>3, BrokerAssumption DEF Connect, Register, Conns, BrokerInv, BrokerTypeOK
  <2> QED BY <1>3, <2>1 DEF Connect, NetTypeOK
<1>4. CASE Announce
  <2>1. announce \in Seq(Ids) /\ announce # <<>>
    BY <1>4 DEF Announce, LinkAnnounce, HostTypeOK, DaemonTypeOK
  <2>2. Head(announce) \in Ids
    BY <2>1
  <2>3. CreateFrame(Head(announce)) \in ClientFrame
    BY <2>2, ChainFrames
  <2> QED BY <1>4, <2>3, TransmitType DEF Announce, NetTypeOK
<1>5. CASE Forward
  <2>1. queue \in Seq(ClientFrame) /\ queue # <<>>
    BY <1>5 DEF Forward, LinkSend, HostTypeOK, DaemonTypeOK
  <2>2. Head(queue) \in ClientFrame
    BY <2>1
  <2> QED BY <1>5, <2>2, TransmitType DEF Forward, NetTypeOK
<1>6. CASE DaemonNotices
  BY <1>6 DEF DaemonNotices, NetTypeOK
<1>7. CASE \E c \in Conns : BrokerReads(c)
  <2>1. PICK c \in Conns : BrokerReads(c)
    BY <1>7
  <2>2. up[c] # <<>> /\ Tail(up[c]) \in Seq(ClientFrame)
    BY <2>1 DEF BrokerReads, NetTypeOK
  <2> QED BY <2>1, <2>2 DEF BrokerReads, NetTypeOK
<1>8. CASE \E c \in Conns : BrokerNotices(c)
  BY <1>8 DEF BrokerNotices, NetTypeOK
<1>9. CASE \E c \in Conns : CutLink(c)
  BY <1>9 DEF CutLink, NetTypeOK
<1>10. CASE CrashDaemon
  <2>1. crashes' \in 0 .. MaxCrashes
    BY <1>10, ChainAssumption DEF CrashDaemon, NetTypeOK
  <2> QED BY <1>10, <2>1 DEF CrashDaemon, NetTypeOK
<1>11. CASE RestartBroker
  <2>1. restarts' \in 0 .. MaxRestarts
    BY <1>11, ChainAssumption DEF RestartBroker, NetTypeOK
  <2> QED BY <1>11, <2>1 DEF RestartBroker, NetTypeOK
<1> QED BY <1>2, <1>3, <1>4, <1>5, <1>6, <1>7, <1>8, <1>9, <1>10, <1>11
      DEF ChainNext, Network, Fault

-----------------------------------------------------------------------------
(* With no PWA registered, broadcast queues nothing. *)
LEMMA BroadcastNobody ==
  ASSUME ChainInv, NEW frames
  PROVE  \A c \in Conns : Broadcast(frames)[c] = outbox[c]
BY DEF ChainInv, Provenance, Broadcast

(* What a daemon's frame makes the broker queue: nothing.  Its decisions   *)
(* are not sent back.                                                      *)
LEMMA DaemonFrameQueues ==
  ASSUME ChainInv, NEW c \in daemons, NEW m \in ClientFrame, OnMessage(c, m)
  PROVE  pwas' = {} /\ outbox' \in [Conns -> Seq(Routed)]
<1>1. pwas = {} /\ outbox \in [Conns -> Seq(Routed)]
  BY DEF ChainInv, Provenance
<1>2. \A j, v : Resolve(j, v, TRUE) => pwas' = {} /\ outbox' \in [Conns -> Seq(Routed)]
  <2> SUFFICES ASSUME NEW j, NEW v, Resolve(j, v, TRUE)
               PROVE  pwas' = {} /\ outbox' \in [Conns -> Seq(Routed)]
    OBVIOUS
  <2>1. pwas' = {}
    BY <1>1 DEF Resolve
  <2>2. CASE j \notin Pending
    BY <1>1, <2>1, <2>2 DEF Resolve
  <2>3. CASE j \in Pending
    <3>1. outbox' = [d \in Conns |-> Broadcast(<<ResolvedFrame(j)>>)[d]]
      BY <2>3 DEF Resolve, ResolvedOutbox
    <3> QED BY <1>1, <2>1, <3>1, BroadcastNobody
  <2> QED BY <2>2, <2>3
<1>3. CASE IsCreate(c, m) /\ Create(c, m.id)
  <2>1. outbox' = outbox \/ outbox' = Broadcast(<<AddedFrame(m.id)>>)
    BY <1>3 DEF Create
  <2>2. Broadcast(<<AddedFrame(m.id)>>) \in [Conns -> Seq(Routed)]
    BY <1>1 DEF Broadcast
  <2> QED BY <1>1, <1>3, <2>1, <2>2 DEF Create
<1>4. CASE IsDecision(m) /\ Resolve(m.id, m.verdict, c \in daemons)
  <2>1. (c \in daemons) = TRUE
    OBVIOUS
  <2>2. Resolve(m.id, m.verdict, TRUE)
    BY <1>4, <2>1
  <2> QED BY <1>2, <2>2
<1>5. CASE IsWithdraw(c, m) /\ Resolve(m.id, NoVerdict, TRUE)
  BY <1>2, <1>5
<1>6. CASE IsSubscribe(c, m) /\ SendSnapshot(c)
  BY <1>1, <1>6 DEF IsSubscribe
<1>7. CASE UNCHANGED brokerVars
  BY <1>1, <1>7 DEF brokerVars
<1> QED BY <1>3, <1>4, <1>5, <1>6, <1>7 DEF OnMessage

(* What a web decision makes it queue: that decision, for the owner. *)
LEMMA WebQueues ==
  ASSUME ChainInv, NEW i \in Ids, NEW w \in WireVerdict, WebDecide(i, w)
  PROVE  pwas' = {} /\ outbox' \in [Conns -> Seq(Routed')]
<1>1. pwas = {} /\ outbox \in [Conns -> Seq(Routed)]
  BY DEF ChainInv, Provenance
<1>2. issued' = issued \cup {<<i, w>>}
  BY DEF WebDecide
<1>3. Seq(Routed) \subseteq Seq(Routed')
  BY <1>2, IssuedGrows
<1>4. CASE UNCHANGED brokerVars
  BY <1>1, <1>3, <1>4 DEF brokerVars
<1>5. CASE w \in Verdict /\ Resolve(i, w, FALSE)
  <2>1. DecisionFrame(i, w) \in Routed'
    BY <1>2, <1>5 DEF DecisionFrame, Routed, Issued
  <2>2. \A c \in Conns : Append(outbox[c], DecisionFrame(i, w)) \in Seq(Routed')
    BY <1>1, <1>3, <2>1
  <2>3. \A c \in Conns : Broadcast(<<ResolvedFrame(i)>>)[c] \in Seq(Routed')
    BY <1>1, <1>3, BroadcastNobody
  <2>4. ResolvedOutbox(i, w, FALSE) \in [Conns -> Seq(Routed')]
    BY <2>2, <2>3 DEF ResolvedOutbox
  <2> QED BY <1>1, <1>3, <1>5, <2>4 DEF Resolve
<1> QED BY <1>4, <1>5, WebArms

(* The broker's queues carry only decisions that were made. *)
LEMMA QueuesCarryDecisions ==
  ASSUME ChainInv, ChainNext, issued \subseteq issued'
  PROVE  pwas' = {} /\ outbox' \in [Conns -> Seq(Routed')]
<1>1. /\ pwas = {} /\ outbox \in [Conns -> Seq(Routed)] /\ Seq(Routed) \subseteq Seq(Routed')
  BY IssuedGrows DEF ChainInv, Provenance
<1>2. SUFFICES ASSUME ~\E i \in Ids, w \in WireVerdict : WebDecide(i, w)
               PROVE  pwas' = {} /\ outbox' \in [Conns -> Seq(Routed)]
  BY <1>1, WebQueues
<1>3. CASE UNCHANGED brokerVars
  BY <1>1, <1>3 DEF brokerVars
<1>4. CASE \/ \E i \in Ids : Host(i)
           \/ Announce \/ StartPump \/ Forward \/ DaemonNotices \/ CrashDaemon
           \/ \E c \in Conns : CutLink(c)
  BY <1>3, <1>4 DEF Host, Announce, StartPump, Forward, DaemonNotices, CrashDaemon, CutLink
<1>5. CASE Connect
  BY <1>1, <1>5 DEF Connect, Register
<1>6. CASE Deliver
  <2>1. dialed \in Conns /\ outbox[dialed] # <<>>
    BY <1>6 DEF Deliver, PumpSend, ChainInv, NetTypeOK
  <2>2. Tail(outbox[dialed]) \in Seq(Routed)
    BY <1>1, <2>1
  <2> QED BY <1>1, <1>6, <2>2 DEF Deliver, PumpSend
<1>7. CASE \E c \in Conns : BrokerReads(c)
  <2>1. PICK c \in Conns : BrokerReads(c)
    BY <1>7
  <2>2. Head(up[c]) \in ClientFrame
    BY <2>1 DEF BrokerReads, ChainInv, NetTypeOK
  <2> QED BY <2>1, <2>2, DaemonFrameQueues DEF BrokerReads
<1>8. CASE \E c \in Conns : BrokerWriteFails(c)
  BY <1>1, <1>8 DEF BrokerWriteFails, PumpFail
<1>9. CASE \E c \in Conns : BrokerNotices(c)
  <2>1. PICK c \in Conns : Disconnect(c)
    BY <1>9 DEF BrokerNotices
  <2>2. PICK frames : outbox' = [Broadcast(frames) EXCEPT ![c] = <<>>]
    BY <2>1 DEF Disconnect
  <2>3. Broadcast(frames) \in [Conns -> Seq(Routed)]
    BY <1>1 DEF Broadcast
  <2>4. outbox' \in [Conns -> Seq(Routed)]
    <3>1. <<>> \in Seq(Routed)
      OBVIOUS
    <3> QED BY <2>2, <2>3, <3>1
  <2>5. pwas' = {}
    BY <1>1, <2>1 DEF Disconnect
  <2> QED BY <2>4, <2>5
<1>10. CASE RestartBroker
  BY <1>1, <1>10 DEF RestartBroker, Restart
<1> QED BY <1>2, <1>4, <1>5, <1>6, <1>7, <1>8, <1>9, <1>10 DEF ChainNext, Network, Fault

(* What Provenance says of the host's variables for request i. *)
HostProvenance(i) ==
  /\ chan[i] \in Seq(Issued(i))
  /\ toPlugin[i] \in Seq(Lines(i))
  /\ phase[i] = "relaying" => held[i] \in Issued(i)
  /\ phase[i] # "done" => answer[i] = NoVerdict
  /\ answer[i] \in Verdict => answer[i] \in Issued(i)

(* Provenance, request by request. *)
LEMMA ProvenanceParts ==
  Provenance <=> /\ pwas = {} /\ outbox \in [Conns -> Seq(Routed)]
                 /\ \A i \in Ids : HostProvenance(i)
BY DEF Provenance, HostProvenance, VerdictIntegrity, Issued

(* A decision line that is on its way to a plugin was decided for it. *)
LEMMA LineVerdict ==
  ASSUME NEW i \in Ids, NEW l \in Lines(i), l.type = "decision"
  PROVE  l.verdict \in Issued(i) /\ InterpretDecision(l.verdict) = l.verdict
BY DEF Lines, AckLine, Issued, Verdict, InterpretDecision

(* The plugin's steps answer only with what was decided. *)
LEMMA PluginProvenance ==
  ASSUME ChainInv, NEW i \in Ids, PluginStep(i), UNCHANGED daemonVars, NEW j \in Ids
  PROVE  issued \subseteq issued' /\ HostProvenance(j)'
<1>1. /\ HostProvenance(j) /\ HostProvenance(i)
      /\ phase \in [Ids -> Phase] /\ answer \in [Ids -> Answer]
      /\ held \in [Ids -> Verdict \cup {NoVerdict}]
      /\ toPlugin \in [Ids -> Seq(DaemonLine)] /\ chan' = chan
  BY ProvenanceParts DEF ChainInv, HostTypeOK, PluginTypeOK, daemonVars
<1>2. ASSUME issued' = issued, held' = held, toPlugin'[j] \in Seq(Lines(j)),
             phase'[j] = "relaying" => phase[j] = "relaying",
             phase'[j] # "done" => phase[j] # "done",
             answer'[j] = answer[j] \/ (phase'[j] = "done" /\
                                         (answer'[j] \in Verdict => answer'[j] \in Issued(j)))
      PROVE  issued \subseteq issued' /\ HostProvenance(j)'
  <2>1. Issued(j)' = Issued(j) /\ Lines(j)' = Lines(j)
    BY <1>2 DEF Issued, Lines
  <2> QED BY <1>1, <1>2, <2>1 DEF HostProvenance
<1>3. toPlugin[j] \in Seq(Lines(j))
  BY <1>1 DEF HostProvenance
<1>4. CASE PluginStepAside(i)
  <2>1. PICK a \in {"defer", "ask"} : WriteResponse(i, a)
    BY <1>4 DEF PluginStepAside
  <2>2. /\ phase' = [phase EXCEPT ![i] = "done"] /\ answer' = [answer EXCEPT ![i] = a]
        /\ a \notin Verdict
    BY <2>1 DEF WriteResponse, Verdict
  <2> QED BY <1>1, <1>2, <1>3, <1>4, <2>2 DEF PluginStepAside
<1>5. CASE PluginOpen(i)
  BY <1>1, <1>2, <1>3, <1>5 DEF PluginOpen
<1>6. CASE PluginRemote(i)
  <2> DEFINE l == Head(toPlugin[i])
  <2>1. /\ toPlugin[i] \in Seq(Lines(i)) /\ toPlugin[i] # <<>> /\ l.type = "decision"
        /\ phase' = [phase EXCEPT ![i] = "done"]
        /\ answer' = [answer EXCEPT ![i] = InterpretDecision(l.verdict)]
        /\ toPlugin' = [toPlugin EXCEPT ![i] = Tail(toPlugin[i])]
        /\ issued' = issued /\ held' = held
    BY <1>1, <1>6 DEF PluginRemote, WriteResponse, HostProvenance
  <2>2. l \in Lines(i) /\ Tail(toPlugin[i]) \in Seq(Lines(i))
    BY <2>1
  <2> HIDE DEF l
  <2>3. InterpretDecision(l.verdict) \in Issued(i)
    BY <2>1, <2>2, LineVerdict
  <2>4. toPlugin'[j] \in Seq(Lines(j))
    BY <1>1, <1>3, <2>1, <2>2
  <2>5. answer'[j] = answer[j] \/ (phase'[j] = "done" /\ answer'[j] \in Issued(j))
    BY <1>1, <2>1, <2>3
  <2> QED BY <1>1, <1>2, <2>1, <2>4, <2>5
<1>7. CASE \E v \in Verdict : PluginLocal(i, v)
  <2>1. PICK v \in Verdict : PluginLocal(i, v)
    BY <1>7
  <2>2. issued' = issued \cup {<<i, v>>}
    BY <2>1 DEF PluginLocal
  <2>3. /\ Issued(j) \subseteq Issued(j)' /\ Seq(Issued(j)) \subseteq Seq(Issued(j)')
        /\ Seq(Lines(j)) \subseteq Seq(Lines(j)')
    BY <2>2, IssuedGrows
  <2>4. v \in Issued(i)'
    BY <2>2 DEF Issued
  <2>5. /\ phase' = [phase EXCEPT ![i] = "relaying"] /\ held' = [held EXCEPT ![i] = v]
        /\ answer' = answer /\ toPlugin' = toPlugin /\ phase[i] = "waiting"
    BY <2>1 DEF PluginLocal
  <2>6. phase'[j] = "relaying" => held'[j] \in Issued(j)'
    BY <1>1, <2>3, <2>4, <2>5 DEF HostProvenance
  <2>7. phase'[j] # "done" => answer'[j] = NoVerdict
    BY <1>1, <2>5 DEF HostProvenance
  <2> QED BY <1>1, <2>2, <2>3, <2>5, <2>6, <2>7 DEF HostProvenance
<1>8. CASE PluginSettle(i)
  <2>1. held[i] \in Issued(i)
    BY <1>1, <1>8 DEF PluginSettle, HostProvenance
  <2> QED BY <1>1, <1>2, <1>3, <1>8, <2>1 DEF PluginSettle, WriteResponse
<1>9. CASE PluginClosed(i)
  <2>1. "defer" \notin Verdict
    BY DEF Verdict
  <2> QED BY <1>1, <1>2, <1>3, <1>9, <2>1 DEF PluginClosed, WriteResponse
<1>10. CASE PluginKill(i)
  BY <1>1, <1>2, <1>3, <1>10 DEF PluginKill
<1> QED BY <1>4, <1>5, <1>6, <1>7, <1>8, <1>9, <1>10 DEF PluginStep

(* A handle_plugin task passes on only what was decided. *)
LEMMA TaskProvenance ==
  ASSUME ChainInv, NEW i \in Ids, DaemonTask(i), NEW j \in Ids
  PROVE  issued \subseteq issued' /\ HostProvenance(j)'
<1>1. /\ HostProvenance(j) /\ HostProvenance(i)
      /\ chan \in [Ids -> Seq(Verdict)] /\ toPlugin \in [Ids -> Seq(DaemonLine)]
  BY ProvenanceParts DEF ChainInv, HostTypeOK, PluginTypeOK, DaemonTypeOK
<1>2. UNCHANGED <<phase, answer, held, issued>>
  BY DEF DaemonTask, HandleCreate, HandleRemote, HandleLocal, HandleEof, HandleFinish, pluginVars
<1>3. Issued(j)' = Issued(j) /\ Lines(j)' = Lines(j)
  BY <1>2 DEF Issued, Lines
<1>4. SUFFICES chan'[j] \in Seq(Issued(j)) /\ toPlugin'[j] \in Seq(Lines(j))
  BY <1>1, <1>2, <1>3 DEF HostProvenance
<1>5. /\ chan[j] \in Seq(Issued(j)) /\ toPlugin[j] \in Seq(Lines(j))
      /\ chan[i] \in Seq(Issued(i)) /\ toPlugin[i] \in Seq(Lines(i))
  BY <1>1 DEF HostProvenance
<1>6. CASE HandleCreate(i)
  BY <1>5, <1>6 DEF HandleCreate
<1>7. CASE HandleRemote(i)
  <2>1. chan[i] # <<>> /\ Head(chan[i]) \in Issued(i) /\ Tail(chan[i]) \in Seq(Issued(i))
    BY <1>5, <1>7 DEF HandleRemote
  <2>2. [type |-> "decision", verdict |-> Head(chan[i])] \in Lines(i)
    BY <2>1 DEF Lines, Issued
  <2>3. Append(toPlugin[i], [type |-> "decision", verdict |-> Head(chan[i])]) \in Seq(Lines(i))
    BY <1>5, <2>2
  <2> QED BY <1>1, <1>5, <1>7, <2>1, <2>3 DEF HandleRemote
<1>8. CASE HandleLocal(i)
  <2>1. Append(toPlugin[i], AckLine) \in Seq(Lines(i))
    <3>1. AckLine \in Lines(i)
      BY DEF Lines
    <3> QED BY <1>5, <3>1
  <2> QED BY <1>1, <1>5, <1>8, <2>1 DEF HandleLocal
<1>9. CASE HandleEof(i)
  BY <1>5, <1>9 DEF HandleEof, pluginVars
<1>10. CASE HandleFinish(i)
  BY <1>1, <1>5, <1>10 DEF HandleFinish
<1> QED BY <1>6, <1>7, <1>8, <1>9, <1>10 DEF DaemonTask

(* Web decisions, links and faults: a decision delivered to the daemon goes *)
(* to the task of its own request.                                          *)
LEMMA NetProvenance ==
  ASSUME ChainInv, NEW j \in Ids,
         \/ Network \/ Fault
         \/ \E i \in Ids, w \in WireVerdict : WebDecide(i, w)
  PROVE  issued \subseteq issued' /\ HostProvenance(j)'
<1>1. HostProvenance(j) /\ chan \in [Ids -> Seq(Verdict)]
  BY ProvenanceParts DEF ChainInv, HostTypeOK, DaemonTypeOK
<1>2. ASSUME issued \subseteq issued', UNCHANGED <<phase, answer, held, toPlugin>>,
             chan'[j] \in Seq(Issued(j))
      PROVE  issued \subseteq issued' /\ HostProvenance(j)'
  <2>1. /\ Issued(j) \subseteq Issued(j)' /\ Seq(Issued(j)) \subseteq Seq(Issued(j)')
        /\ Seq(Lines(j)) \subseteq Seq(Lines(j)')
    BY <1>2, IssuedGrows
  <2> QED BY <1>1, <1>2, <2>1 DEF HostProvenance
<1>3. chan[j] \in Seq(Issued(j))
  BY <1>1 DEF HostProvenance
<1>4. CASE Deliver
  <2> DEFINE m == Head(outbox[dialed])
  <2>1. /\ dialed \in Conns /\ outbox[dialed] # <<>> /\ RouteDecision(m)
        /\ outbox[dialed] \in Seq(Routed)
    BY <1>4 DEF Deliver, PumpSend, ChainInv, NetTypeOK, Provenance
  <2>2. m \in Routed
    BY <2>1
  <2> HIDE DEF m
  <2>3. m.id \in Ids /\ m.verdict \in Issued(m.id)
    BY <2>2, RoutedFrame
  <2>4. chan'[j] \in Seq(Issued(j))
    BY <1>1, <1>3, <2>1, <2>3 DEF RouteDecision
  <2> QED BY <1>2, <2>1, <2>4 DEF RouteDecision, pluginVars
<1>5. CASE Connect \/ Announce \/ StartPump \/ Forward \/ DaemonNotices
  BY <1>2, <1>3, <1>5
     DEF Connect, LinkUp, Announce, LinkAnnounce, StartPump, LinkPump, Forward, LinkSend,
         DaemonNotices, LinkDown, pluginVars
<1>6. CASE \/ \E c \in Conns : BrokerReads(c) \/ BrokerWriteFails(c) \/ BrokerNotices(c) \/ CutLink(c)
           \/ RestartBroker
  BY <1>2, <1>3, <1>6
     DEF BrokerReads, BrokerWriteFails, BrokerNotices, CutLink, RestartBroker, pluginVars, daemonVars
<1>7. CASE CrashDaemon
  BY <1>2, <1>7 DEF CrashDaemon, DaemonCrash
<1>8. CASE \E i \in Ids, w \in WireVerdict : WebDecide(i, w)
  BY <1>2, <1>3, <1>8 DEF WebDecide, daemonVars
<1> QED BY <1>4, <1>5, <1>6, <1>7, <1>8 DEF Network, Fault

-----------------------------------------------------------------------------
(* The chain starts within the invariant, *)
LEMMA ChainInitInv == ChainInit => ChainInv
<1> SUFFICES ASSUME ChainInit PROVE ChainInv
  OBVIOUS
<1>1. BrokerInv
  BY InitInv DEF ChainInit
<1>2. HostTypeOK
  BY DEF ChainInit, PluginInit, DaemonInit, HostTypeOK, PluginTypeOK, DaemonTypeOK, Phase,
         Answer, Task
<1>3. NetTypeOK
  BY ChainAssumption DEF ChainInit, NetTypeOK
<1>4. LinesInOrder
  BY DEF ChainInit, PluginInit, DaemonInit, LinesInOrder
<1>5. Provenance
  BY DEF ChainInit, BrokerInit, PluginInit, DaemonInit, Provenance, VerdictIntegrity,
         NoVerdict, Verdict
<1> QED BY <1>1, <1>2, <1>3, <1>4, <1>5 DEF ChainInv

(* and every step stays within it. *)
LEMMA ChainNextInv == ChainInv /\ [ChainNext]_chainVars => ChainInv'
<1> SUFFICES ASSUME ChainInv, [ChainNext]_chainVars PROVE ChainInv'
  OBVIOUS
<1>1. CASE ChainNext
  <2>1. BrokerInv' /\ NetTypeOK'
    BY <1>1, BrokerPart, NetPart
  <2>2. HostTypeOK' /\ LinesInOrder'
    BY <1>1, PluginHost, TaskHost, NetHost DEF ChainNext, Host
  <2>3. \A j \in Ids : issued \subseteq issued' /\ HostProvenance(j)'
    BY <1>1, PluginProvenance, TaskProvenance, NetProvenance DEF ChainNext, Host
  <2>4. issued \subseteq issued'
    BY <1>1 DEF ChainNext, Host, Network, Fault, WebDecide, PluginStep, PluginStepAside,
         PluginOpen, PluginRemote, PluginLocal, PluginSettle, PluginClosed, PluginKill,
         DaemonTask, HandleCreate, HandleRemote, HandleLocal, HandleEof, HandleFinish,
         Connect, LinkUp, Announce, LinkAnnounce, StartPump, LinkPump, Forward, LinkSend,
         Deliver, RouteDecision, DaemonNotices, LinkDown, BrokerReads, BrokerWriteFails,
         BrokerNotices, CutLink, CrashDaemon, DaemonCrash, RestartBroker, pluginVars
  <2>5. pwas' = {} /\ outbox' \in [Conns -> Seq(Routed')]
    BY <1>1, <2>4, QueuesCarryDecisions
  <2>6. Provenance'
    BY <2>3, <2>5 DEF Provenance, HostProvenance, VerdictIntegrity, Issued
  <2> QED BY <2>1, <2>2, <2>6 DEF ChainInv
<1>2. CASE UNCHANGED chainVars
  <2>1. UNCHANGED <<brokerVars, pluginVars, daemonVars, netVars>>
    BY <1>2 DEF chainVars
  <2>2. BrokerInv'
    BY <2>1, NextInv DEF ChainInv
  <2>3. HostTypeOK' /\ NetTypeOK' /\ LinesInOrder'
    BY <2>1 DEF ChainInv, HostTypeOK, PluginTypeOK, DaemonTypeOK, NetTypeOK, LinesInOrder,
                pluginVars, daemonVars, netVars
  <2>4. Provenance'
    BY <2>1 DEF ChainInv, Provenance, VerdictIntegrity, Routed, Lines, Issued,
                brokerVars, pluginVars, daemonVars
  <2> QED BY <2>2, <2>3, <2>4 DEF ChainInv
<1> QED BY <1>1, <1>2

(* The whole chain keeps its type. *)
THEOREM ChainTypeCorrect == ChainSpec => []ChainTypeOK
<1>1. ChainInv => ChainTypeOK
  BY DEF ChainInv, BrokerInv, HostTypeOK, NetTypeOK, ChainTypeOK
<1> QED BY <1>1, ChainInitInv, ChainNextInv, PTL DEF ChainSpec

(* A plugin prints allow or deny only if a person decided exactly that for *)
(* its command, whatever is lost, cut, crashed, restarted or announced     *)
(* twice, and however the links overlap.                                   *)
THEOREM VerdictsAreDecisions == ChainSpec => []VerdictIntegrity
<1>1. ChainInv => VerdictIntegrity
  BY DEF ChainInv, Provenance
<1> QED BY <1>1, ChainInitInv, ChainNextInv, PTL DEF ChainSpec

-----------------------------------------------------------------------------
(* Every step of the chain is a step of Approval, or none. *)
LEMMA ApprovalStep ==
  ASSUME ChainInv, [ChainNext]_chainVars
  PROVE  [A!ApprovalNext]_A!approvalVars
<1> DEFINE dead == {j \in Ids : phase[j] = "killed"}
<1>1. phase \in [Ids -> Phase] /\ answer \in [Ids -> Answer]
  BY DEF ChainInv, HostTypeOK, PluginTypeOK
<1>2. ASSUME UNCHANGED <<issued, answer>>, dead' = dead
      PROVE  [A!ApprovalNext]_A!approvalVars
  BY <1>2 DEF A!approvalVars
<1>3. CASE UNCHANGED <<phase, issued, answer>>
  BY <1>2, <1>3
<1>4. ASSUME NEW i \in Ids, PluginStep(i)
      PROVE  [A!ApprovalNext]_A!approvalVars
  <2>1. HostProvenance(i)
    BY ProvenanceParts DEF ChainInv
  <2>2. phase[i] \notin {"done", "killed"} => A!Open(i)
    BY <2>1 DEF A!Open, HostProvenance, NoVerdict, A!NoVerdict
  <2>3. ASSUME NEW v \in Issued(i), WriteResponse(i, v), UNCHANGED issued,
               phase[i] \notin {"done", "killed"}
        PROVE  A!ApprovalNext
    <3>1. dead' = dead
      BY <1>1, <2>3 DEF WriteResponse
    <3>2. v \in Verdict /\ A!Settle(i, v)
      BY <2>2, <2>3, <3>1 DEF WriteResponse, Issued, A!Settle
    <3> QED BY <3>2 DEF A!ApprovalNext, Verdict, A!Verdict
  <2>4. ASSUME NEW a \in {"defer", "ask"}, WriteResponse(i, a), UNCHANGED issued,
               phase[i] \notin {"done", "killed"}
        PROVE  A!ApprovalNext
    <3>1. dead' = dead
      BY <1>1, <2>4 DEF WriteResponse
    <3>2. A!StepAside(i, a)
      BY <2>2, <2>4, <3>1 DEF WriteResponse, A!StepAside
    <3> QED BY <3>2 DEF A!ApprovalNext
  <2>5. CASE PluginStepAside(i)
    BY <2>4, <2>5 DEF PluginStepAside
  <2>6. CASE PluginOpen(i)
    BY <1>1, <1>2, <2>6 DEF PluginOpen
  <2>7. CASE PluginRemote(i)
    <3>1. toPlugin[i] \in Seq(Lines(i)) /\ toPlugin[i] # <<>>
      BY <2>1, <2>7 DEF PluginRemote, HostProvenance
    <3>2. Head(toPlugin[i]) \in Lines(i)
      BY <3>1
    <3>3. InterpretDecision(Head(toPlugin[i]).verdict) \in Issued(i)
      BY <2>7, <3>2, LineVerdict DEF PluginRemote
    <3> QED BY <2>3, <2>7, <3>3 DEF PluginRemote
  <2>8. CASE \E v \in Verdict : PluginLocal(i, v)
    <3>1. PICK v \in Verdict : PluginLocal(i, v)
      BY <2>8
    <3>2. dead' = dead
      BY <1>1, <3>1 DEF PluginLocal
    <3>3. A!Decide
      BY <3>1, <3>2 DEF PluginLocal, A!Decide, WireVerdict, A!WireVerdict, Verdict, A!Verdict
    <3> QED BY <3>3 DEF A!ApprovalNext
  <2>9. CASE PluginSettle(i)
    <3>1. held[i] \in Issued(i)
      BY <2>1, <2>9 DEF PluginSettle, HostProvenance
    <3> QED BY <2>3, <2>9, <3>1 DEF PluginSettle
  <2>10. CASE PluginClosed(i)
    BY <2>4, <2>10 DEF PluginClosed
  <2>11. CASE PluginKill(i)
    <3>1. dead' = dead \cup {i}
      BY <1>1, <2>11 DEF PluginKill
    <3>2. A!Vanish(i)
      BY <2>2, <2>11, <3>1 DEF PluginKill, A!Vanish
    <3> QED BY <3>2 DEF A!ApprovalNext
  <2> QED BY <1>4, <2>5, <2>6, <2>7, <2>8, <2>9, <2>10, <2>11 DEF PluginStep
<1>5. ASSUME NEW i \in Ids, DaemonTask(i)
      PROVE  [A!ApprovalNext]_A!approvalVars
  BY <1>3, <1>5 DEF DaemonTask, HandleCreate, HandleRemote, HandleLocal, HandleEof, HandleFinish,
                    pluginVars
<1>6. CASE \E i \in Ids, w \in WireVerdict : WebDecide(i, w)
  <2>1. PICK i \in Ids, w \in WireVerdict : WebDecide(i, w)
    BY <1>6
  <2>2. A!Decide
    BY <2>1 DEF WebDecide, A!Decide, WireVerdict, A!WireVerdict, Verdict, A!Verdict
  <2> QED BY <2>2 DEF A!ApprovalNext
<1>7. CASE Network \/ Fault
  BY <1>3, <1>7 DEF Network, Fault, Connect, LinkUp, Announce, LinkAnnounce, StartPump, LinkPump,
         Forward, LinkSend, Deliver, RouteDecision, DaemonNotices, LinkDown, BrokerReads,
         BrokerWriteFails, BrokerNotices, CutLink, CrashDaemon, DaemonCrash, RestartBroker,
         pluginVars
<1>8. CASE UNCHANGED chainVars
  BY <1>3, <1>8 DEF chainVars, pluginVars
<1> QED BY <1>4, <1>5, <1>6, <1>7, <1>8 DEF ChainNext, Host

(* The chain implements Approval: one answer per command, never revised,   *)
(* never given to a dead process, and only what was decided for it.        *)
THEOREM ChainImplementsApproval == ChainSpec => ImplementsApproval
<1>1. ChainInit => A!ApprovalInit
  BY DEF ChainInit, PluginInit, A!ApprovalInit, NoVerdict, A!NoVerdict
<1> QED BY <1>1, ChainInitInv, ChainNextInv, ApprovalStep, PTL
      DEF ChainSpec, ImplementsApproval, A!ApprovalSpec

-----------------------------------------------------------------------------
(* The rest is the proof of NeverStranded, for links that do not overlap:  *)
(* with Overlap it is false, a frame read late on the old link takes the   *)
(* request back from the new one.                                          *)

(* A request has ended for its task: nothing of it may reach it any more.  *)
Ended == {i \in Ids : i \in hungUp \/ task[i] = "finishing"}

(* What the daemon may have sent: it withdraws or decides only what ended. *)
Sent == {m \in ClientFrame : m.type \in {"decision", "withdraw"} => m.id \in Ended}

(* The daemon has one link, and while it is whole the broker knows it and  *)
(* no other.                                                               *)
OneLink ==
  /\ link = "down" <=> dialed = NoConn
  /\ dialed # NoConn => daemons \subseteq {dialed}
  /\ dialed # NoConn /\ dialed \notin cut => dialed \in daemons \cap pumping

(* A running task is in the routes table, its socket open; what is on its  *)
(* way to the broker withdraws or decides only requests that have ended.   *)
Enrolled == \A i \in Ids : task[i] # "none" => i \in routes /\ i \notin hungUp

NothingEndsEarly == queue \in Seq(Sent) /\ up \in [Conns -> Seq(Sent)]

(* The strengthening that makes NeverStranded inductive. *)
LinkInv == OneLink /\ Enrolled /\ NothingEndsEarly

-----------------------------------------------------------------------------
(* Where the elements of a queue are after an append, *)
LEMMA AppendAt ==
  ASSUME NEW S, NEW q \in Seq(S), NEW e \in S
  PROVE  /\ \A k \in DOMAIN q : k \in DOMAIN Append(q, e) /\ Append(q, e)[k] = q[k]
         /\ \E k \in DOMAIN Append(q, e) : Append(q, e)[k] = e
<1>1. /\ Len(q) \in Nat /\ DOMAIN q = 1 .. Len(q)
      /\ Append(q, e) \in Seq(S) /\ Len(Append(q, e)) = Len(q) + 1
      /\ DOMAIN Append(q, e) = 1 .. Len(q) + 1
      /\ Append(q, e)[Len(q) + 1] = e
      /\ \A k \in 1 .. Len(q) : Append(q, e)[k] = q[k]
  OBVIOUS
<1> QED BY <1>1

(* and after its first element left. *)
LEMMA TailAt ==
  ASSUME NEW S, NEW q \in Seq(S), q # <<>>, NEW k \in DOMAIN q
  PROVE  q[k] = Head(q) \/ \E l \in DOMAIN Tail(q) : Tail(q)[l] = q[k]
<1>1. /\ Len(q) \in Nat /\ DOMAIN q = 1 .. Len(q)
      /\ Head(q) = q[1]
      /\ Tail(q) \in Seq(S) /\ Len(Tail(q)) = Len(q) - 1
      /\ DOMAIN Tail(q) = 1 .. Len(q) - 1
      /\ \A l \in 1 .. Len(q) - 1 : Tail(q)[l] = q[l + 1]
  OBVIOUS
<1>2. CASE k = 1
  BY <1>1, <1>2
<1>3. CASE k # 1
  <2>1. k - 1 \in 1 .. Len(q) - 1 /\ (k - 1) + 1 = k
    BY <1>1, <1>3
  <2> QED BY <1>1, <2>1
<1> QED BY <1>2, <1>3

-----------------------------------------------------------------------------
(* A request that has ended has ended for good, *)
LEMMA EndedGrows ==
  ASSUME ChainInv, ChainNext
  PROVE  Ended \subseteq Ended' /\ Seq(Sent) \subseteq Seq(Sent')
<1>1. /\ task \in [Ids -> Task] /\ hungUp \subseteq Ids
      /\ \A j \in Ids : phase[j] = "idle" => task[j] = "none"
  BY DEF ChainInv, HostTypeOK, PluginTypeOK, DaemonTypeOK, LinesInOrder
<1>2. ASSUME NEW i \in Ids, DaemonTask(i) PROVE Ended \subseteq Ended'
  BY <1>1, <1>2 DEF Ended, DaemonTask, HandleCreate, HandleRemote, HandleLocal, HandleEof,
                    HandleFinish, pluginVars
<1>3. ASSUME UNCHANGED <<task, hungUp>> PROVE Ended \subseteq Ended'
  BY <1>3 DEF Ended
<1>4. ASSUME CrashDaemon PROVE Ended \subseteq Ended'
  BY <1>1, <1>4 DEF CrashDaemon, DaemonCrash, Ended
<1>5. ASSUME NEW i \in Ids, PluginStep(i), UNCHANGED daemonVars PROVE Ended \subseteq Ended'
  BY <1>3, <1>5 DEF PluginStep, PluginStepAside, PluginOpen, PluginRemote, PluginLocal,
                    PluginSettle, PluginClosed, PluginKill, daemonVars
<1>6. Ended \subseteq Ended'
  BY <1>2, <1>3, <1>4, <1>5
     DEF ChainNext, Host, Network, Fault, WebDecide, Connect, LinkUp, Announce, LinkAnnounce,
         StartPump, LinkPump, Forward, LinkSend, Deliver, RouteDecision, DaemonNotices, LinkDown,
         BrokerReads, BrokerWriteFails, BrokerNotices, CutLink, RestartBroker, pluginVars,
         daemonVars
<1>7. Sent \subseteq Sent'
  BY <1>6 DEF Sent
<1> QED BY <1>6, <1>7, SeqMono

(* The frames a daemon sends. *)
LEMMA SentFrames ==
  /\ \A i \in Ids : CreateFrame(i) \in Sent
  /\ \A i \in Ended : WithdrawFrame(i) \in Sent
  /\ \A i \in Ended, w \in WireVerdict : DecisionFrame(i, w) \in Sent
<1>1. Ended \subseteq Ids
  BY DEF Ended
<1>2. \A i \in Ids : CreateFrame(i).type = "create"
  BY DEF CreateFrame
<1>3. \A i \in Ids : WithdrawFrame(i).id = i
  BY DEF WithdrawFrame
<1>4. \A i \in Ids, w \in WireVerdict : DecisionFrame(i, w).id = i
  BY DEF DecisionFrame
<1> QED BY <1>1, <1>2, <1>3, <1>4, ChainFrames DEF Sent

-----------------------------------------------------------------------------
(* What a frame or a web decision does to the broker's connections: nothing. *)
LEMMA FramesKeepLinks ==
  ASSUME ChainInv
  PROVE  /\ \A c, m : OnMessage(c, m) => UNCHANGED <<daemons, pumping>>
         /\ \A i \in Ids, w \in WireVerdict : WebDecide(i, w) => UNCHANGED <<daemons, pumping>>
<1>1. \A c, m : OnMessage(c, m) => UNCHANGED <<daemons, pumping>>
  BY DEF OnMessage, Create, Resolve, SendSnapshot, brokerVars
<1> QED BY <1>1 DEF WebDecide

(* The daemon's one link, step by step. *)
LEMMA OneLinkStep ==
  ASSUME ChainInv, OneLink, ChainNext, ~Overlap
  PROVE  OneLink'
<1>1. /\ dialed \in Conns \cup {NoConn} /\ daemons \subseteq Conns
      /\ \A c \in daemons : c < nextConn
  BY DEF ChainInv, BrokerInv, BrokerTypeOK, ConnsDistinct, NetTypeOK
<1>2. ASSUME UNCHANGED <<dialed, link, daemons, pumping>>, cut \subseteq cut'
      PROVE  OneLink'
  BY <1>2 DEF OneLink
<1>3. CASE \E i \in Ids : Host(i)
  BY <1>2, <1>3
     DEF Host, daemonVars, brokerVars, netVars, DaemonTask, HandleCreate, HandleRemote,
         HandleLocal, HandleEof, HandleFinish
<1>4. CASE \E i \in Ids, w \in WireVerdict : WebDecide(i, w)
  BY <1>2, <1>4, FramesKeepLinks DEF WebDecide, daemonVars, netVars
<1>5. CASE Connect
  <2>1. /\ link' = "announcing" /\ dialed' = nextConn /\ daemons' = {nextConn}
        /\ nextConn \in pumping'
    BY <1>5 DEF Connect, LinkUp, Register
  <2>2. nextConn # NoConn
    BY BrokerAssumption DEF ChainInv, BrokerInv, BrokerTypeOK
  <2> QED BY <2>1, <2>2 DEF OneLink
<1>6. CASE Announce \/ StartPump \/ Forward \/ Deliver
  <2>1. UNCHANGED <<dialed, daemons, pumping, cut>>
    BY <1>6 DEF Announce, StartPump, Forward, Deliver, PumpSend, brokerVars, netVars
  <2>2. link' = link \/ (link' = "up" /\ link = "announcing")
    BY <1>6 DEF Announce, LinkAnnounce, StartPump, LinkPump, Forward, LinkSend, Deliver,
                RouteDecision
  <2> QED BY <2>1, <2>2 DEF OneLink
<1>7. CASE DaemonNotices \/ CrashDaemon
  BY <1>7 DEF DaemonNotices, LinkDown, CrashDaemon, DaemonCrash, OneLink
<1>8. CASE \E c \in Conns : BrokerReads(c)
  BY <1>2, <1>8, FramesKeepLinks DEF BrokerReads, daemonVars
<1>9. CASE \E c \in Conns : BrokerWriteFails(c) \/ BrokerNotices(c)
  BY <1>9 DEF BrokerWriteFails, PumpFail, BrokerNotices, Disconnect, OneLink, daemonVars, netVars
<1>10. CASE \E c \in Conns : CutLink(c)
  BY <1>2, <1>10 DEF CutLink, brokerVars, daemonVars
<1>11. CASE RestartBroker
  <2>1. UNCHANGED <<dialed, link>> /\ daemons' = {} /\ cut' = cut \cup {c \in Conns : c < nextConn}
    BY <1>11 DEF RestartBroker, Restart, daemonVars
  <2>2. dialed # NoConn => dialed \in cut'
    BY <1>1, <2>1 DEF OneLink
  <2> QED BY <2>1, <2>2 DEF OneLink
<1> QED BY <1>3, <1>4, <1>5, <1>6, <1>7, <1>8, <1>9, <1>10, <1>11 DEF ChainNext, Network, Fault

(* A task is in the table for as long as it runs. *)
LEMMA EnrolledStep ==
  ASSUME ChainInv, Enrolled, ChainNext
  PROVE  Enrolled'
<1>1. task \in [Ids -> Task] /\ hungUp \subseteq Ids /\ routes \subseteq Ids
  BY DEF ChainInv, HostTypeOK, PluginTypeOK, DaemonTypeOK
<1>2. CASE UNCHANGED <<task, hungUp, routes>>
  BY <1>2 DEF Enrolled
<1>3. ASSUME NEW i \in Ids, DaemonTask(i) PROVE Enrolled'
  BY <1>1, <1>3 DEF Enrolled, DaemonTask, HandleCreate, HandleRemote, HandleLocal, HandleEof,
                    HandleFinish, pluginVars
<1>4. ASSUME NEW i \in Ids, PluginStep(i), UNCHANGED daemonVars PROVE Enrolled'
  BY <1>2, <1>4 DEF PluginStep, PluginStepAside, PluginOpen, PluginRemote, PluginLocal,
                    PluginSettle, PluginClosed, PluginKill, daemonVars
<1>5. CASE CrashDaemon
  BY <1>5 DEF CrashDaemon, DaemonCrash, Enrolled
<1> QED BY <1>2, <1>3, <1>4, <1>5
     DEF ChainNext, Host, Network, Fault, WebDecide, Connect, LinkUp, Announce, LinkAnnounce,
         StartPump, LinkPump, Forward, LinkSend, Deliver, RouteDecision, DaemonNotices, LinkDown,
         BrokerReads, BrokerWriteFails, BrokerNotices, CutLink, RestartBroker, pluginVars,
         daemonVars

(* Writing to the link keeps what is in flight harmless. *)
LEMMA TransmitSent ==
  ASSUME NothingEndsEarly, NEW m \in Sent, Transmit(m)
  PROVE  up' \in [Conns -> Seq(Sent)]
<1>1. \A c \in Conns : Append(up[c], m) \in Seq(Sent)
  BY DEF NothingEndsEarly
<1> QED BY <1>1 DEF Transmit, NothingEndsEarly

(* The daemon withdraws and decides only what has ended. *)
LEMMA NothingEndsEarlyStep ==
  ASSUME ChainInv, NothingEndsEarly, ChainNext
  PROVE  NothingEndsEarly'
<1>1. /\ queue \in Seq(Sent) /\ up \in [Conns -> Seq(Sent)] /\ <<>> \in Seq(Sent)
      /\ Seq(Sent) \subseteq Seq(Sent')
  BY EndedGrows DEF NothingEndsEarly
<1>2. SUFFICES queue' \in Seq(Sent) \cup Seq(Sent') /\ up' \in [Conns -> Seq(Sent)]
  BY <1>1 DEF NothingEndsEarly
<1>3. ASSUME NEW i \in Ids, DaemonTask(i), up' = up
      PROVE  queue' \in Seq(Sent') /\ up' \in [Conns -> Seq(Sent)]
  <2>0. task \in [Ids -> Task] /\ \A q \in Seq(Locals) : q # <<>> => Head(q).verdict \in WireVerdict
    <3>1. \A q \in Seq(Locals) : q # <<>> => Head(q) \in Locals
      OBVIOUS
    <3> QED BY <3>1 DEF Locals, WireVerdict, ChainInv, HostTypeOK, DaemonTypeOK
  <2>1. CASE HandleCreate(i)
    <3>1. CreateFrame(i) \in Sent'
      BY SentFrames, <1>1, ChainFrames DEF Sent, CreateFrame
    <3>2. queue \in Seq(Sent')
      BY <1>1
    <3>3. Append(queue, CreateFrame(i)) \in Seq(Sent')
      BY <3>1, <3>2
    <3> QED BY <1>1, <1>3, <2>1, <3>3 DEF HandleCreate
  <2>2. CASE HandleLocal(i)
    <3> DEFINE m == DecisionFrame(i, Head(toDaemon[i]).verdict)
    <3>1. /\ task' = [task EXCEPT ![i] = "finishing"] /\ queue' = Append(queue, m)
          /\ toDaemon[i] \in Seq(Locals) /\ toDaemon[i] # <<>>
      BY <2>2 DEF HandleLocal, ChainInv, LinesInOrder
    <3>2. m \in ClientFrame /\ m.id = i
      BY <2>0, <3>1, ChainFrames DEF DecisionFrame
    <3>3. i \in Ended'
      BY <2>0, <3>1 DEF Ended
    <3> HIDE DEF m
    <3>4. m \in Sent'
      BY <3>2, <3>3 DEF Sent
    <3>5. queue \in Seq(Sent')
      BY <1>1
    <3>6. Append(queue, m) \in Seq(Sent')
      BY <3>4, <3>5
    <3> QED BY <1>1, <1>3, <3>1, <3>6
  <2>3. CASE HandleEof(i)
    <3>1. /\ task' = [task EXCEPT ![i] = "finishing"] /\ queue' = Append(queue, WithdrawFrame(i))
      BY <2>3 DEF HandleEof
    <3>2. i \in Ended'
      BY <2>0, <3>1 DEF Ended
    <3>3. WithdrawFrame(i) \in ClientFrame /\ WithdrawFrame(i).id = i
      BY ChainFrames DEF WithdrawFrame
    <3>4. WithdrawFrame(i) \in Sent'
      BY <3>2, <3>3 DEF Sent
    <3>5. queue \in Seq(Sent')
      BY <1>1
    <3>6. Append(queue, WithdrawFrame(i)) \in Seq(Sent')
      BY <3>4, <3>5
    <3> QED BY <1>1, <1>3, <3>1, <3>6
  <2>4. CASE HandleRemote(i) \/ HandleFinish(i)
    BY <1>1, <1>3, <2>4 DEF HandleRemote, HandleFinish
  <2> QED BY <1>3, <2>1, <2>2, <2>3, <2>4 DEF DaemonTask
<1>4. CASE UNCHANGED <<queue, up>>
  BY <1>1, <1>4
<1>5. CASE \E i \in Ids : Host(i)
  BY <1>3, <1>4, <1>5 DEF Host, daemonVars, netVars
<1>6. CASE Announce
  <2>1. announce \in Seq(Ids) /\ announce # <<>>
    BY <1>6 DEF Announce, LinkAnnounce, ChainInv, HostTypeOK, DaemonTypeOK
  <2>2. Head(announce) \in Ids
    BY <2>1
  <2>3. CreateFrame(Head(announce)) \in Sent
    BY <2>2, SentFrames
  <2>4. up' \in [Conns -> Seq(Sent)]
    BY <1>6, <2>3, TransmitSent DEF Announce
  <2> QED BY <1>1, <1>6, <2>4 DEF Announce, LinkAnnounce
<1>7. CASE Forward
  <2>1. queue # <<>> /\ queue' = Tail(queue)
    BY <1>7 DEF Forward, LinkSend
  <2>2. Head(queue) \in Sent /\ Tail(queue) \in Seq(Sent)
    BY <1>1, <2>1
  <2>3. up' \in [Conns -> Seq(Sent)]
    BY <1>7, <2>2, TransmitSent DEF Forward
  <2> QED BY <2>1, <2>2, <2>3
<1>8. CASE \E c \in Conns : BrokerReads(c)
  <2>1. PICK c \in Conns : BrokerReads(c)
    BY <1>8
  <2>2. up[c] \in Seq(Sent) /\ up[c] # <<>>
    BY <1>1, <2>1 DEF BrokerReads
  <2>3. Tail(up[c]) \in Seq(Sent)
    BY <2>2
  <2> QED BY <1>1, <2>1, <2>3 DEF BrokerReads, daemonVars
<1>9. CASE (\E c \in Conns : BrokerNotices(c)) \/ RestartBroker
  BY <1>1, <1>9 DEF BrokerNotices, RestartBroker, daemonVars
<1>10. CASE CrashDaemon
  BY <1>1, <1>10 DEF CrashDaemon, DaemonCrash
<1>11. CASE \/ \E i \in Ids, w \in WireVerdict : WebDecide(i, w)
            \/ Connect \/ StartPump \/ Deliver \/ DaemonNotices
            \/ \E c \in Conns : BrokerWriteFails(c) \/ CutLink(c)
  BY <1>4, <1>11 DEF WebDecide, Connect, LinkUp, StartPump, LinkPump, Deliver, RouteDecision,
         DaemonNotices, LinkDown, BrokerWriteFails, CutLink, daemonVars, netVars
<1> QED BY <1>5, <1>6, <1>7, <1>8, <1>9, <1>10, <1>11 DEF ChainNext, Network, Fault

-----------------------------------------------------------------------------
(* What NeverStranded promises a waiting task. *)
Reached(i) == requests[i] = dialed \/ CreateAhead(i) \/ DecisionAhead(i)

(* The whole link: what LinkWhole says of both of its ends. *)
LEMMA WholeLink ==
  ASSUME ChainInv, OneLink, LinkWhole
  PROVE  /\ dialed \in Conns /\ daemons = {dialed} /\ dialed \in pumping /\ dialed < nextConn
         /\ up[dialed] \in Seq(ClientFrame) /\ outbox[dialed] \in Seq(Routed)
<1>1. dialed # NoConn
  BY DEF OneLink, LinkWhole
<1> QED BY <1>1 DEF OneLink, LinkWhole, ChainInv, NetTypeOK, Provenance, BrokerInv, ConnsDistinct

(* The steps of the host keep a waiting task reached. *)
LEMMA HostKeepsReached ==
  ASSUME ChainInv, NEW j \in Ids, Host(j), NEW i \in Ids, task'[i] = "serving",
         task[i] = "serving" => Reached(i)
  PROVE  Reached(i)'
<1>1. /\ queue \in Seq(ClientFrame) /\ task \in [Ids -> Task] /\ chan \in [Ids -> Seq(Verdict)]
      /\ CreateFrame(i) \in ClientFrame
  BY ChainFrames DEF ChainInv, HostTypeOK, DaemonTypeOK
<1>2. UNCHANGED <<requests, outbox, dialed, up>>
  BY DEF Host, brokerVars, netVars
<1>3. ASSUME Reached(i), UNCHANGED <<announce, chan>>,
             queue' = queue \/ \E m \in ClientFrame : queue' = Append(queue, m)
      PROVE  Reached(i)'
  <2>1. \A k \in DOMAIN queue : \E l \in DOMAIN queue' : queue'[l] = queue[k]
    <3>1. CASE queue' = queue
      BY <3>1
    <3>2. ASSUME NEW m \in ClientFrame, queue' = Append(queue, m)
          PROVE  \A k \in DOMAIN queue : k \in DOMAIN queue' /\ queue'[k] = queue[k]
      <4>1. \A k \in DOMAIN queue : k \in DOMAIN Append(queue, m) /\ Append(queue, m)[k] = queue[k]
        BY <1>1, AppendAt
      <4> QED BY <3>2, <4>1
    <3> QED BY <1>3, <3>1, <3>2
  <2>2. CreateAhead(i) => CreateAhead(i)'
    BY <1>2, <1>3, <2>1 DEF CreateAhead
  <2>3. DecisionAhead(i) => DecisionAhead(i)'
    BY <1>2, <1>3 DEF DecisionAhead
  <2> QED BY <1>2, <1>3, <2>2, <2>3 DEF Reached
<1>4. CASE PluginStep(j) /\ UNCHANGED daemonVars
  BY <1>3, <1>4 DEF daemonVars
<1>5. CASE HandleCreate(j)
  <2>1. CASE j = i
    <3>1. queue' = Append(queue, CreateFrame(i))
      BY <1>5, <2>1 DEF HandleCreate
    <3>2. \E k \in DOMAIN queue' : queue'[k] = CreateFrame(i)
      BY <1>1, <3>1, AppendAt
    <3> QED BY <3>2 DEF Reached, CreateAhead
  <2>2. CASE j # i
    <3>1. task[i] = "serving" /\ CreateFrame(j) \in ClientFrame
      BY <1>1, <1>5, <2>2, ChainFrames DEF HandleCreate
    <3> QED BY <1>3, <1>5, <3>1 DEF HandleCreate
  <2> QED BY <2>1, <2>2
<1>6. CASE HandleLocal(j)
  <2>1. j # i /\ task[i] = "serving"
    BY <1>1, <1>6 DEF HandleLocal
  <2>2. toDaemon[j] \in Seq(Locals) /\ toDaemon[j] # <<>>
    BY <1>6 DEF HandleLocal, ChainInv, LinesInOrder
  <2>3. Head(toDaemon[j]) \in Locals
    BY <2>2
  <2>4. DecisionFrame(j, Head(toDaemon[j]).verdict) \in ClientFrame
    BY <2>3, ChainFrames DEF Locals, WireVerdict
  <2> QED BY <1>3, <1>6, <2>1, <2>4 DEF HandleLocal
<1>7. CASE HandleEof(j)
  <2>1. task[i] = "serving" /\ WithdrawFrame(j) \in ClientFrame
    BY <1>1, <1>7, ChainFrames DEF HandleEof
  <2> QED BY <1>3, <1>7, <2>1 DEF HandleEof
<1>8. CASE HandleRemote(j) \/ HandleFinish(j)
  <2>1. task[i] = "serving" /\ i # j /\ chan'[i] = chan[i] /\ UNCHANGED <<queue, announce>>
    BY <1>1, <1>8 DEF HandleRemote, HandleFinish
  <2>2. CreateAhead(i) => CreateAhead(i)'
    BY <1>2, <2>1 DEF CreateAhead
  <2>3. DecisionAhead(i) => DecisionAhead(i)'
    BY <1>2, <2>1 DEF DecisionAhead
  <2> QED BY <1>2, <2>1, <2>2, <2>3 DEF Reached
<1> QED BY <1>4, <1>5, <1>6, <1>7, <1>8 DEF Host, DaemonTask

(* Frames on their way up keep it reached, until the broker reads them. *)
LEMMA SendKeepsReached ==
  ASSUME ChainInv, OneLink, LinkWhole, NEW i \in Ids, Reached(i), Announce \/ Forward
  PROVE  Reached(i)'
<1>1. /\ dialed \in Conns /\ up[dialed] \in Seq(ClientFrame) /\ up \in [Conns -> Seq(ClientFrame)]
      /\ dialed \notin cut /\ queue \in Seq(ClientFrame) /\ announce \in Seq(Ids)
  BY WholeLink DEF LinkWhole, ChainInv, NetTypeOK, HostTypeOK, DaemonTypeOK
<1>2. UNCHANGED <<requests, outbox, chan, dialed>>
  BY DEF Announce, LinkAnnounce, Forward, LinkSend, brokerVars
<1>3. ASSUME NEW m \in ClientFrame, Transmit(m)
      PROVE  /\ \A k \in DOMAIN up[dialed] : \E l \in DOMAIN up'[dialed] : up'[dialed][l] = up[dialed][k]
             /\ \E l \in DOMAIN up'[dialed] : up'[dialed][l] = m
  <2>1. up'[dialed] = Append(up[dialed], m)
    BY <1>1, <1>3 DEF Transmit
  <2> DEFINE q == up[dialed]
  <2>2. q \in Seq(ClientFrame)
    BY <1>1
  <2> HIDE DEF q
  <2>3. /\ \A k \in DOMAIN q : k \in DOMAIN Append(q, m) /\ Append(q, m)[k] = q[k]
        /\ \E k \in DOMAIN Append(q, m) : Append(q, m)[k] = m
    BY <2>2, AppendAt
  <2> QED BY <2>1, <2>3 DEF q
<1>4. CreateAhead(i) => CreateAhead(i)'
  <2>1. CASE Announce
    <3>1. /\ announce # <<>> /\ announce' = Tail(announce) /\ queue' = queue
          /\ Transmit(CreateFrame(Head(announce)))
      BY <2>1 DEF Announce, LinkAnnounce
    <3>2. Head(announce) \in Ids
      BY <1>1, <3>1
    <3>3. CreateFrame(Head(announce)) \in ClientFrame
      BY <3>2, ChainFrames
    <3>4. \A k \in DOMAIN announce : announce[k] = Head(announce) \/
            \E l \in DOMAIN announce' : announce'[l] = announce[k]
      BY <1>1, <3>1, TailAt
    <3> QED BY <1>2, <1>3, <3>1, <3>3, <3>4 DEF CreateAhead
  <2>2. CASE Forward
    <3>1. /\ queue # <<>> /\ queue' = Tail(queue) /\ announce' = announce
          /\ Transmit(Head(queue))
      BY <2>2 DEF Forward, LinkSend
    <3>2. Head(queue) \in ClientFrame
      BY <1>1, <3>1
    <3>3. \A k \in DOMAIN queue : queue[k] = Head(queue) \/
            \E l \in DOMAIN queue' : queue'[l] = queue[k]
      BY <1>1, <3>1, TailAt
    <3> QED BY <1>2, <1>3, <3>1, <3>2, <3>3 DEF CreateAhead
  <2> QED BY <2>1, <2>2
<1>5. DecisionAhead(i) => DecisionAhead(i)'
  BY <1>2 DEF DecisionAhead
<1> QED BY <1>2, <1>4, <1>5 DEF Reached

(* The broker reads a create frame of i, and i is pending under the link;  *)
(* no other frame in flight names i.                                       *)
LEMMA ReadKeepsReached ==
  ASSUME ChainInv, LinkInv, LinkWhole, NEW i \in Ids, task[i] = "serving", Reached(i),
         NEW c \in Conns, BrokerReads(c)
  PROVE  Reached(i)'
<1> DEFINE m == Head(up[c])
<1>1. c = dialed /\ up[dialed] # <<>> /\ OnMessage(c, m) /\ up' = [up EXCEPT ![c] = Tail(@)]
  BY WholeLink DEF BrokerReads, LinkInv
<1>2. /\ up[dialed] \in Seq(Sent) /\ up \in [Conns -> Seq(Sent)] /\ c \in daemons
      /\ outbox \in [Conns -> Seq(Routed)] /\ requests \in [Ids -> Conns \cup {NoConn}]
      /\ pwas = {} /\ i \notin Ended /\ dialed \in Conns
  BY <1>1, WholeLink
     DEF LinkInv, NothingEndsEarly, Enrolled, Ended, ChainInv, Provenance, BrokerInv, BrokerTypeOK
<1>3. m \in Sent
  BY <1>1, <1>2
<1>4. /\ up'[dialed] = Tail(up[dialed])
      /\ \A k \in DOMAIN up[dialed] : up[dialed][k] = m \/
           \E l \in DOMAIN up'[dialed] : up'[dialed][l] = up[dialed][k]
  <2>1. up'[dialed] = Tail(up[dialed])
    BY <1>1, <1>2
  <2> QED BY <1>1, <1>2, <2>1, TailAt
<1> HIDE DEF m
<1>5. UNCHANGED <<chan, queue, announce, dialed>>
  BY DEF BrokerReads, daemonVars
<1>6. ASSUME requests'[i] = requests[i], outbox'[dialed] = outbox[dialed], m # CreateFrame(i)
      PROVE  Reached(i)'
  <2>1. CreateAhead(i) => CreateAhead(i)'
    BY <1>4, <1>5, <1>6 DEF CreateAhead
  <2>2. DecisionAhead(i) => DecisionAhead(i)'
    BY <1>5, <1>6 DEF DecisionAhead
  <2> QED BY <1>5, <1>6, <2>1, <2>2 DEF Reached
<1>7. CreateFrame(i).type = "create" /\ CreateFrame(i).id = i
  BY DEF CreateFrame
<1>8. CASE IsCreate(c, m) /\ Create(c, m.id)
  <2>1. requests' = [requests EXCEPT ![m.id] = c]
    BY <1>8 DEF Create
  <2>2. CASE m.id = i
    BY <1>1, <1>2, <1>5, <2>1, <2>2 DEF Reached
  <2>3. CASE m.id # i
    <3>1. outbox'[dialed] = outbox[dialed]
      BY <1>2, <1>8, BroadcastNobody DEF Create
    <3> QED BY <1>2, <1>6, <1>7, <2>1, <2>3, <3>1
  <2> QED BY <2>2, <2>3
<1>9. \A j, v : j # i /\ Resolve(j, v, TRUE) =>
                  requests'[i] = requests[i] /\ outbox'[dialed] = outbox[dialed]
  BY <1>2, BroadcastNobody DEF Resolve, ResolvedOutbox
<1>10. CASE IsDecision(m) /\ Resolve(m.id, m.verdict, c \in daemons)
  <2>1. m.type = "decision" /\ m.id # i
    BY <1>2, <1>3, <1>10 DEF IsDecision, Sent
  <2>2. (c \in daemons) = TRUE
    BY <1>2
  <2>3. Resolve(m.id, m.verdict, TRUE)
    BY <1>10, <2>2
  <2> QED BY <1>6, <1>7, <1>9, <2>1, <2>3
<1>11. CASE IsWithdraw(c, m) /\ Resolve(m.id, NoVerdict, TRUE)
  <2>1. m.type = "withdraw" /\ m.id # i
    BY <1>2, <1>3, <1>11 DEF IsWithdraw, Sent
  <2> QED BY <1>6, <1>7, <1>9, <1>11, <2>1
<1>12. CASE IsSubscribe(c, m)
  BY <1>2, <1>12 DEF IsSubscribe
<1>13. CASE ~IsCreate(c, m) /\ UNCHANGED brokerVars
  <2>1. m # CreateFrame(i)
    BY <1>2, <1>7, <1>13 DEF IsCreate
  <2> QED BY <1>6, <1>13, <2>1 DEF brokerVars
<1> QED BY <1>1, <1>8, <1>10, <1>11, <1>12, <1>13 DEF OnMessage

(* A web decision for i is queued for the link that owns i. *)
LEMMA DecideKeepsReached ==
  ASSUME ChainInv, OneLink, LinkWhole, NEW i \in Ids, Reached(i),
         NEW j \in Ids, NEW w \in WireVerdict, WebDecide(j, w)
  PROVE  Reached(i)'
<1>1. UNCHANGED <<chan, queue, announce, dialed, up>>
  BY DEF WebDecide, daemonVars, netVars
<1>2. /\ dialed \in Conns /\ daemons = {dialed} /\ dialed \in pumping
      /\ outbox[dialed] \in Seq(Routed) /\ requests \in [Ids -> Conns \cup {NoConn}]
      /\ dialed # NoConn
  BY WholeLink, ConnsNumbers DEF ChainInv, BrokerInv, BrokerTypeOK
<1>3. CreateAhead(i) => CreateAhead(i)'
  BY <1>1 DEF CreateAhead
<1>4. CASE UNCHANGED brokerVars
  BY <1>1, <1>3, <1>4 DEF brokerVars, Reached, DecisionAhead
<1>5. CASE w \in Verdict /\ Resolve(j, w, FALSE)
  <2> DEFINE m == DecisionFrame(j, w)
  <2>1. CASE j \notin Pending
    <3>1. UNCHANGED <<requests, outbox>>
      BY <1>5, <2>1 DEF Resolve
    <3> QED BY <1>1, <1>3, <3>1 DEF Reached, DecisionAhead
  <2>2. CASE j \in Pending
    <3>1. requests' = [requests EXCEPT ![j] = NoConn] /\ requests[j] = dialed
      BY <1>2, <1>5, <2>2 DEF Resolve, ChainInv, BrokerInv, OwnerRegistered
    <3>2. outbox'[dialed] = Append(outbox[dialed], m)
      BY <1>2, <1>5, <2>2, <3>1 DEF Resolve, ResolvedOutbox, NoVerdict, Verdict
    <3>3. m.type = "decision" /\ m.id = j /\ m \in [type : {"decision"}, id : Ids, verdict : Verdict]
      BY <1>5 DEF DecisionFrame
    <3> HIDE DEF m
    <3>4. /\ \A k \in DOMAIN outbox[dialed] : k \in DOMAIN outbox'[dialed] /\ outbox'[dialed][k] = outbox[dialed][k]
          /\ \E k \in DOMAIN outbox'[dialed] : outbox'[dialed][k] = m
      <4>1. outbox[dialed] \in Seq([type : {"decision"}, id : Ids, verdict : Verdict])
        <5>1. Routed \subseteq [type : {"decision"}, id : Ids, verdict : Verdict]
          BY DEF Routed
        <5>2. Seq(Routed) \subseteq Seq([type : {"decision"}, id : Ids, verdict : Verdict])
          BY <5>1, SeqMono
        <5> QED BY <1>2, <5>2
      <4> QED BY <3>2, <3>3, <4>1, AppendAt
    <3>5. DecisionAhead(i) => DecisionAhead(i)'
      BY <1>1, <3>4 DEF DecisionAhead
    <3>6. j = i => DecisionAhead(i)'
      BY <1>1, <3>3, <3>4 DEF DecisionAhead
    <3>7. j # i => requests'[i] = requests[i]
      BY <1>2, <3>1
    <3> QED BY <1>1, <1>3, <3>5, <3>6, <3>7 DEF Reached
  <2> QED BY <2>1, <2>2
<1> QED BY <1>4, <1>5, WebArms

(* A decision that is delivered goes to the task's channel. *)
LEMMA DeliverKeepsReached ==
  ASSUME ChainInv, LinkInv, LinkWhole, NEW i \in Ids, task[i] = "serving", Reached(i), Deliver
  PROVE  Reached(i)'
<1> DEFINE m == Head(outbox[dialed])
<1>1. /\ outbox[dialed] # <<>> /\ outbox' = [outbox EXCEPT ![dialed] = Tail(@)]
      /\ chan' = IF m.id \in routes THEN [chan EXCEPT ![m.id] = Append(@, m.verdict)] ELSE chan
      /\ UNCHANGED <<requests, queue, announce, dialed, up>>
  BY DEF Deliver, PumpSend, RouteDecision, netVars
<1>2. /\ outbox[dialed] \in Seq(Routed) /\ dialed \in Conns /\ i \in routes
      /\ outbox \in [Conns -> Seq(Routed)] /\ chan \in [Ids -> Seq(Verdict)]
  BY WholeLink DEF LinkInv, Enrolled, ChainInv, Provenance, HostTypeOK, DaemonTypeOK
<1>3. m \in Routed
  BY <1>1, <1>2
<1>4. \A k \in DOMAIN outbox[dialed] : outbox[dialed][k] = m \/
           \E l \in DOMAIN outbox'[dialed] : outbox'[dialed][l] = outbox[dialed][k]
  <2>1. outbox'[dialed] = Tail(outbox[dialed])
    BY <1>1, <1>2
  <2> QED BY <1>1, <1>2, <2>1, TailAt
<1> HIDE DEF m
<1>5. m.verdict \in Verdict /\ m.id \in Ids
  BY <1>3, RoutedFrame
<1>6. \A q \in Seq(Verdict) : Append(q, m.verdict) # <<>>
  BY <1>5
<1>7. chan'[i] # <<>> \/ (chan'[i] = chan[i] /\ m.id # i)
  BY <1>1, <1>2, <1>5, <1>6
<1>8. chan[i] # <<>> => chan'[i] # <<>>
  BY <1>7
<1>9. DecisionAhead(i) => DecisionAhead(i)'
  BY <1>1, <1>4, <1>7, <1>8 DEF DecisionAhead
<1>10. CreateAhead(i) => CreateAhead(i)'
  BY <1>1 DEF CreateAhead
<1> QED BY <1>1, <1>9, <1>10 DEF Reached

(* What happens to connections that carry nothing any more is no matter. *)
LEMMA CutKeepsReached ==
  ASSUME ChainInv, OneLink, LinkWhole, NEW i \in Ids, Reached(i),
         NEW c \in Conns, BrokerWriteFails(c) \/ BrokerNotices(c)
  PROVE  Reached(i)'
<1>1. c # dialed /\ dialed \in Conns /\ UNCHANGED <<chan, queue, announce, dialed>>
  BY WholeLink DEF LinkWhole, BrokerWriteFails, BrokerNotices, daemonVars, netVars
<1>2. up'[dialed] = up[dialed]
  BY <1>1 DEF BrokerWriteFails, BrokerNotices, netVars, ChainInv, NetTypeOK
<1>3. outbox'[dialed] = outbox[dialed]
  <2>1. outbox \in [Conns -> Seq(Routed)]
    BY DEF ChainInv, Provenance
  <2>2. CASE BrokerWriteFails(c)
    BY <1>1, <2>1, <2>2 DEF BrokerWriteFails, PumpFail
  <2>3. CASE BrokerNotices(c)
    <3>1. PICK frames : outbox' = [Broadcast(frames) EXCEPT ![c] = <<>>]
      BY <2>3 DEF BrokerNotices, Disconnect
    <3>2. outbox'[dialed] = Broadcast(frames)[dialed]
      BY <1>1, <3>1 DEF Broadcast
    <3> QED BY <1>1, <3>2, BroadcastNobody
  <2> QED BY <2>2, <2>3
<1>4. requests[i] = dialed => requests'[i] = dialed
  BY <1>1 DEF BrokerWriteFails, PumpFail, BrokerNotices, Disconnect, Orphans
<1>5. CreateAhead(i) => CreateAhead(i)'
  BY <1>1, <1>2 DEF CreateAhead
<1>6. DecisionAhead(i) => DecisionAhead(i)'
  BY <1>1, <1>3 DEF DecisionAhead
<1> QED BY <1>1, <1>4, <1>5, <1>6 DEF Reached

(* No step of the chain strands a waiting plugin. *)
LEMMA NeverStrandedStep ==
  ASSUME ChainInv, LinkInv, LinkInv', NeverStranded, ChainNext, ~Overlap
  PROVE  NeverStranded'
<1> SUFFICES ASSUME NEW i \in Ids, task'[i] = "serving", LinkWhole'
             PROVE  Reached(i)'
  BY DEF NeverStranded, Reached
<1>1. /\ task \in [Ids -> Task] /\ dialed \in Conns \cup {NoConn}
      /\ OneLink /\ OneLink' /\ link' # "down" /\ dialed' \notin cut'
  BY DEF LinkInv, LinkWhole, ChainInv, HostTypeOK, DaemonTypeOK, NetTypeOK
<1>2. ASSUME task[i] = "serving", LinkWhole PROVE Reached(i)
  BY <1>2 DEF NeverStranded, Reached
<1>3. CASE Connect
  <2>1. i \in routes /\ announce' \in Orderings(routes)
    BY <1>3 DEF Connect, LinkUp, LinkInv, Enrolled
  <2> QED BY <2>1 DEF Orderings, Reached, CreateAhead
<1>4. ASSUME NEW j \in Ids, Host(j) PROVE Reached(i)'
  <2>1. LinkWhole
    BY <1>1, <1>4 DEF LinkWhole, Host, netVars, daemonVars, DaemonTask, HandleCreate, HandleRemote,
                      HandleLocal, HandleEof, HandleFinish
  <2> QED BY <1>2, <1>4, <2>1, HostKeepsReached
<1>5. ASSUME UNCHANGED <<dialed, task>>, cut \subseteq cut', link' # "down" => link # "down"
      PROVE  task[i] = "serving" /\ LinkWhole /\ Reached(i)
  BY <1>1, <1>2, <1>5 DEF LinkWhole
<1>6. CASE \E j \in Ids, w \in WireVerdict : WebDecide(j, w)
  <2>1. LinkWhole /\ Reached(i)
    BY <1>5, <1>6 DEF WebDecide, daemonVars, netVars
  <2> QED BY <1>1, <1>6, <2>1, DecideKeepsReached
<1>7. CASE Announce \/ Forward
  <2>1. LinkWhole /\ Reached(i)
    BY <1>5, <1>7 DEF Announce, LinkAnnounce, Forward, LinkSend
  <2> QED BY <1>1, <1>7, <2>1, SendKeepsReached
<1>8. CASE Deliver
  <2>1. task[i] = "serving" /\ LinkWhole /\ Reached(i)
    BY <1>5, <1>8 DEF Deliver, RouteDecision, netVars
  <2> QED BY <1>8, <2>1, DeliverKeepsReached
<1>9. CASE \E c \in Conns : BrokerReads(c)
  <2>1. task[i] = "serving" /\ LinkWhole /\ Reached(i)
    BY <1>5, <1>9 DEF BrokerReads, daemonVars
  <2> QED BY <1>9, <2>1, ReadKeepsReached
<1>10. CASE \E c \in Conns : BrokerWriteFails(c) \/ BrokerNotices(c)
  <2>1. LinkWhole /\ Reached(i)
    BY <1>5, <1>10 DEF BrokerWriteFails, BrokerNotices, daemonVars, netVars
  <2> QED BY <1>1, <1>10, <2>1, CutKeepsReached
<1>11. CASE StartPump \/ \E c \in Conns : CutLink(c)
  <2>1. Reached(i) /\ UNCHANGED <<requests, outbox, chan, queue, announce, dialed, up>>
    BY <1>5, <1>11 DEF StartPump, LinkPump, CutLink, brokerVars, daemonVars, netVars
  <2> QED BY <2>1 DEF Reached, CreateAhead, DecisionAhead
<1>12. CASE RestartBroker
  <2>1. LinkWhole
    BY <1>5, <1>12 DEF RestartBroker, daemonVars
  <2>2. dialed \in cut' /\ dialed' = dialed
    BY <1>1, <1>12, <2>1, WholeLink DEF RestartBroker
  <2> QED BY <1>1, <2>2
<1>13. CASE DaemonNotices \/ CrashDaemon
  BY <1>1, <1>13 DEF DaemonNotices, LinkDown, CrashDaemon, DaemonCrash
<1> QED BY <1>3, <1>4, <1>6, <1>7, <1>8, <1>9, <1>10, <1>11, <1>12, <1>13
      DEF ChainNext, Network, Fault

(* The chain starts with nobody waiting and no link. *)
LEMMA LinkInvInit ==
  ASSUME ChainInit
  PROVE  LinkInv /\ NeverStranded
<1>1. OneLink
  BY DEF OneLink, ChainInit, BrokerInit, DaemonInit
<1>2. Enrolled /\ NeverStranded
  BY DEF Enrolled, NeverStranded, ChainInit, DaemonInit
<1>3. NothingEndsEarly
  <2>1. <<>> \in Seq(Sent)
    OBVIOUS
  <2> QED BY <2>1 DEF NothingEndsEarly, ChainInit, DaemonInit
<1> QED BY <1>1, <1>2, <1>3 DEF LinkInv

(* Every step keeps the strengthened invariant. *)
LEMMA LinkInvNext ==
  ASSUME ChainInv, LinkInv, NeverStranded, ~Overlap, [ChainNext]_chainVars
  PROVE  LinkInv' /\ NeverStranded'
<1>1. CASE ChainNext
  <2>1. LinkInv'
    BY <1>1, OneLinkStep, EnrolledStep, NothingEndsEarlyStep DEF LinkInv
  <2> QED BY <1>1, <2>1, NeverStrandedStep
<1>2. CASE UNCHANGED chainVars
  <2>1. OneLink' /\ Enrolled'
    BY <1>2 DEF chainVars, brokerVars, pluginVars, daemonVars, netVars, LinkInv, OneLink, Enrolled
  <2>2. NothingEndsEarly'
    BY <1>2 DEF chainVars, pluginVars, daemonVars, netVars, LinkInv, NothingEndsEarly, Sent, Ended
  <2>3. NeverStranded'
    BY <1>2 DEF chainVars, brokerVars, pluginVars, daemonVars, netVars, NeverStranded, LinkWhole,
                CreateAhead, DecisionAhead
  <2> QED BY <2>1, <2>2, <2>3 DEF LinkInv
<1> QED BY <1>1, <1>2

(* A plugin that waits is never forgotten, as long as the daemon redials   *)
(* only after the broker saw the old link drop: while the link is whole,   *)
(* the request is pending under it, or the create frame or the decision    *)
(* that will end the wait is under way.                                    *)
THEOREM WaitersReached == ~Overlap => (ChainSpec => []NeverStranded)
<1> SUFFICES ASSUME ~Overlap PROVE ChainSpec => []NeverStranded
  OBVIOUS
<1> DEFINE I == ChainInv /\ LinkInv /\ NeverStranded
<1>1. ChainInit => I
  BY ChainInitInv, LinkInvInit
<1>2. I /\ [ChainNext]_chainVars => I'
  BY ChainNextInv, LinkInvNext
<1>3. I => NeverStranded
  OBVIOUS
<1> HIDE DEF I
<1> QED BY <1>1, <1>2, <1>3, PTL DEF ChainSpec

-----------------------------------------------------------------------------
(* Auto-start.                                                             *)

(* A daemon exists once its plugin has spawned it; the address names one   *)
(* that bound it, and a free address is about to be taken by somebody, or  *)
(* everybody who had it has died.                                          *)
StartTypeOK ==
  /\ unix \in BOOLEAN
  /\ plugin \in [Procs -> {"starting", "polling", "connected", "deferred"}]
  /\ peer \in [Procs -> Procs \cup {NoSock}]
  /\ daemon \in [Procs -> {"none", "spawned", "removed", "listening", "lost", "dead"}]
  /\ path \in Procs \cup {NoSock}

SpawnedOnce == \A p \in Procs : plugin[p] = "starting" => daemon[p] = "none"

PathWasBound == path # NoSock => daemon[path] \in {"listening", "dead"}

FreeIsContested ==
  path = NoSock /\ (\E d \in Procs : daemon[d] # "none")
    => \E d \in Procs : daemon[d] \in {"spawned", "removed", "dead"}

(* On Windows the address names whoever listens: a pipe cannot be removed. *)
PipeNamesListener == ~unix => \A d \in Procs : daemon[d] = "listening" => d = path

(* The inductive invariant. *)
StartInv ==
  /\ StartTypeOK
  /\ SpawnedOnce
  /\ PathWasBound
  /\ FreeIsContested
  /\ PipeNamesListener

-----------------------------------------------------------------------------
(* At the start there is no daemon and nothing at the address. *)
LEMMA StartInvInit == StartInit => StartInv
BY DEF StartInit, StartInv, StartTypeOK, SpawnedOnce, PathWasBound, FreeIsContested,
       PipeNamesListener

(* A plugin that connects, gives up or waits leaves daemons and address     *)
(* alone (connect_or_start).                                                *)
LEMMA PluginSteps ==
  ASSUME StartInv,
         NEW p \in Procs,
         FirstConnect(p) \/ PollConnect(p) \/ PollTimeout(p)
  PROVE  StartInv'
<1>1. UNCHANGED <<unix, daemon, path>>
  BY DEF FirstConnect, PollConnect, PollTimeout, Connected
<1>2. plugin[p] \in {"starting", "polling"} /\ plugin' \in
        {[plugin EXCEPT ![p] = "connected"], [plugin EXCEPT ![p] = "deferred"]}
  BY DEF FirstConnect, PollConnect, PollTimeout, Connected
<1>3. peer' \in [Procs -> Procs \cup {NoSock}]
  BY DEF FirstConnect, PollConnect, PollTimeout, Connected, StartInv, StartTypeOK
<1>4. StartTypeOK'
  BY <1>1, <1>2, <1>3 DEF StartInv, StartTypeOK
<1>5. SpawnedOnce'
  BY <1>1, <1>2 DEF StartInv, StartTypeOK, SpawnedOnce
<1>6. (PathWasBound /\ FreeIsContested /\ PipeNamesListener)'
  BY <1>1 DEF StartInv, PathWasBound, FreeIsContested, PipeNamesListener
<1> QED
  BY <1>4, <1>5, <1>6 DEF StartInv

(* spawn_daemon adds a daemon, where the plugin had none, or fails. *)
LEMMA SpawnStep ==
  ASSUME StartInv,
         NEW p \in Procs,
         SpawnDaemon(p)
  PROVE  StartInv'
<1>1. UNCHANGED <<unix, peer, path>> /\ daemon[p] = "none"
  BY DEF SpawnDaemon, StartInv, SpawnedOnce
<1>2. CASE daemon' = daemon
  BY <1>1, <1>2 DEF SpawnDaemon, StartInv, StartTypeOK, SpawnedOnce, PathWasBound,
                    FreeIsContested, PipeNamesListener
<1>3. CASE daemon' = [daemon EXCEPT ![p] = "spawned"]
  <2>1. \A d \in Procs : daemon'[d] = IF d = p THEN "spawned" ELSE daemon[d]
    BY <1>3 DEF StartInv, StartTypeOK
  <2>2. StartTypeOK'
    BY <1>1, <1>3 DEF SpawnDaemon, StartInv, StartTypeOK
  <2>3. SpawnedOnce'
    BY <2>1 DEF SpawnDaemon, StartInv, StartTypeOK, SpawnedOnce
  <2>4. (PathWasBound /\ PipeNamesListener)'
    BY <1>1, <2>1 DEF StartInv, StartTypeOK, PathWasBound, PipeNamesListener
  <2>5. FreeIsContested'
    BY <2>1 DEF FreeIsContested
  <2> QED
    BY <2>2, <2>3, <2>4, <2>5 DEF StartInv
<1> QED
  BY <1>2, <1>3 DEF SpawnDaemon

(* A daemon step concerns one daemon that has been spawned, and no plugin. *)
LEMMA DaemonMoves ==
  ASSUME StartInv,
         NEW d \in Procs, NEW st \in {"removed", "listening", "lost", "dead"},
         daemon[d] # "none",
         daemon' = [daemon EXCEPT ![d] = st],
         path' \in Procs \cup {NoSock},
         UNCHANGED <<unix, plugin, peer>>
  PROVE  /\ StartTypeOK' /\ SpawnedOnce'
         /\ \A e \in Procs : daemon'[e] = IF e = d THEN st ELSE daemon[e]
<1>1. \A e \in Procs : daemon'[e] = IF e = d THEN st ELSE daemon[e]
  BY DEF StartInv, StartTypeOK
<1>2. StartTypeOK'
  BY DEF StartInv, StartTypeOK
<1> QED
  BY <1>1, <1>2 DEF StartInv, SpawnedOnce

(* accept_plugins on Unix, first half: remove_file frees the address, and   *)
(* whoever removed it is still to bind.                                     *)
LEMMA RemoveFileStep ==
  ASSUME StartInv, NEW d \in Procs, RemoveFile(d)
  PROVE  StartInv'
<1>1. /\ StartTypeOK' /\ SpawnedOnce'
      /\ \A e \in Procs : daemon'[e] = IF e = d THEN "removed" ELSE daemon[e]
  BY DaemonMoves DEF RemoveFile
<1> QED
  BY <1>1 DEF RemoveFile, StartInv, PathWasBound, FreeIsContested, PipeNamesListener

(* Second half, and the whole of it on Windows: the address is taken if     *)
(* free, and kept by its owner if not.                                      *)
LEMMA TakeAddressStep ==
  ASSUME StartInv, NEW d \in Procs, daemon[d] \in {"spawned", "removed"},
         TakeAddress(d, path = NoSock)
  PROVE  StartInv'
<1>1. CASE path = NoSock
  <2>1. /\ StartTypeOK' /\ SpawnedOnce'
        /\ \A e \in Procs : daemon'[e] = IF e = d THEN "listening" ELSE daemon[e]
    BY <1>1, DaemonMoves DEF TakeAddress
  <2> QED
    BY <1>1, <2>1, StartAssumption
    DEF TakeAddress, StartInv, PathWasBound, FreeIsContested, PipeNamesListener
<1>2. CASE path # NoSock
  <2>1. /\ StartTypeOK' /\ SpawnedOnce'
        /\ \A e \in Procs : daemon'[e] = IF e = d THEN "lost" ELSE daemon[e]
    BY <1>2, DaemonMoves DEF TakeAddress, StartInv, StartTypeOK
  <2>2. path' = path /\ path # d /\ unix' = unix /\ path \in Procs
    BY <1>2 DEF TakeAddress, StartInv, StartTypeOK, PathWasBound
  <2> QED
    BY <1>2, <2>1, <2>2 DEF StartInv, PathWasBound, FreeIsContested, PipeNamesListener
<1> QED
  BY <1>1, <1>2

(* A daemon that dies leaves its socket file, or frees its pipe. *)
LEMMA DieStep ==
  ASSUME StartInv, NEW d \in Procs, Die(d)
  PROVE  StartInv'
<1>1. /\ StartTypeOK' /\ SpawnedOnce'
      /\ \A e \in Procs : daemon'[e] = IF e = d THEN "dead" ELSE daemon[e]
  BY DaemonMoves DEF Die, StartInv, StartTypeOK
<1> QED
  BY <1>1 DEF Die, StartInv, StartTypeOK, PathWasBound, FreeIsContested, PipeNamesListener

(* One step per action of plugins and daemons. *)
LEMMA StartInvStep == StartInv /\ [StartNext]_startVars => StartInv'
<1> SUFFICES ASSUME StartInv, [StartNext]_startVars
             PROVE  StartInv'
  OBVIOUS
<1>1. ASSUME NEW p \in Procs, FirstConnect(p) \/ PollConnect(p) \/ PollTimeout(p)
      PROVE  StartInv'
  BY <1>1, PluginSteps
<1>2. ASSUME NEW p \in Procs, SpawnDaemon(p)
      PROVE  StartInv'
  BY <1>2, SpawnStep
<1>3. ASSUME NEW d \in Procs, RemoveFile(d)
      PROVE  StartInv'
  BY <1>3, RemoveFileStep
<1>4. ASSUME NEW d \in Procs, Bind(d) \/ CreatePipe(d)
      PROVE  StartInv'
  BY <1>4, TakeAddressStep DEF Bind, CreatePipe
<1>5. ASSUME NEW d \in Procs, Die(d)
      PROVE  StartInv'
  BY <1>5, DieStep
<1>6. CASE UNCHANGED startVars
  BY <1>6 DEF startVars, StartInv, StartTypeOK, SpawnedOnce, PathWasBound, FreeIsContested,
              PipeNamesListener
<1> QED
  BY <1>1, <1>2, <1>3, <1>4, <1>5, <1>6 DEF StartNext

(* The invariant holds on every run of the start. *)
THEOREM StartInvHolds == StartSpec => []StartInv
BY StartInvInit, StartInvStep, PTL DEF StartSpec

(* Losing the race is fine because there is a winner (accept_plugins): once *)
(* every spawned daemon has had its turn and none has died, the address     *)
(* names one that listens, and the polling plugins find it.                 *)
THEOREM StartHasWinner == StartSpec => []WinnerListens
<1>1. StartInv => WinnerListens
  BY DEF StartInv, PathWasBound, StartTypeOK, FreeIsContested, WinnerListens, Reachable
<1> QED
  BY <1>1, StartInvHolds, PTL

(* On Windows accept_plugins takes the address in one call, the creation of *)
(* the first pipe instance, and one daemon per host is what comes of it: no *)
(* two listen, whatever the order of spawns, deaths and further spawns.  On *)
(* Unix remove_file and bind are two calls, and two daemons may listen.     *)
THEOREM SoleDaemonOnWindows == StartSpec => [](~unix => SoleDaemon)
<1>1. ASSUME StartInv, ~unix
      PROVE  SoleDaemon
  <2> DEFINE listening == {d \in Procs : daemon[d] = "listening"}
  <2>1. listening \subseteq {path}
    BY <1>1 DEF StartInv, PipeNamesListener
  <2>2. IsFiniteSet({path}) /\ Cardinality({path}) = 1
    BY FS_Singleton
  <2>3. Cardinality(listening) <= 1
    BY <2>1, <2>2, FS_Subset
  <2> QED
    BY <2>3 DEF SoleDaemon
<1> QED
  BY <1>1, StartInvHolds, PTL
=============================================================================
