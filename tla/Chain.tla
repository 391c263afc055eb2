------------------------------- MODULE Chain --------------------------------
(***************************************************************************)
(* The approval chain: the plugins and the daemon of one host, the broker, *)
(* and the network between daemon and broker, which loses links.  People   *)
(* decide at the terminal (Plugin) or on the web, where a decision is a    *)
(* frame that reaches the broker from outside; the PWA connections         *)
(* themselves are the subject of Mediation.  The broker's send queue and   *)
(* the socket behind it are one FIFO, outbox.                              *)
(***************************************************************************)
EXTENDS Broker, Daemon

CONSTANTS
  MaxCrashes,   \* bound: daemon crashes
  MaxRestarts,  \* bound: broker restarts
  Overlap       \* may the daemon redial before the broker saw the old link drop

ASSUME ChainAssumption ==
  /\ MaxCrashes \in Nat
  /\ MaxRestarts \in Nat
  /\ Overlap \in BOOLEAN

VARIABLES
  dialed,     \* the connection number of the daemon's link, or NoConn
  up,         \* connection -> frames in flight from daemon to broker
  cut,        \* connections that carry nothing any more
  crashes,    \* daemon crashes so far
  restarts    \* broker restarts so far

netVars == <<dialed, up, cut, crashes, restarts>>

chainVars == <<brokerVars, pluginVars, daemonVars, netVars>>

ChainTypeOK ==
  /\ BrokerTypeOK
  /\ PluginTypeOK
  /\ DaemonTypeOK
  /\ dialed \in Conns \cup {NoConn}
  /\ up \in [Conns -> Seq(ClientFrame)]
  /\ cut \subseteq Conns
  /\ crashes \in 0 .. MaxCrashes
  /\ restarts \in 0 .. MaxRestarts

ChainInit ==
  /\ BrokerInit
  /\ PluginInit
  /\ DaemonInit
  /\ dialed = NoConn
  /\ up = [c \in Conns |-> <<>>]
  /\ cut = {}
  /\ crashes = 0
  /\ restarts = 0

-----------------------------------------------------------------------------
(* A local step: plugin and daemon task, over the local socket. *)
Host(i) ==
  /\ \/ PluginStep(i) /\ UNCHANGED daemonVars
     \/ DaemonTask(i)
  /\ UNCHANGED <<brokerVars, netVars>>

(* connect_broker succeeded: the broker has registered the connection. *)
Connect ==
  /\ Overlap \/ daemons = {}
  /\ LinkUp
  /\ Register("daemon")
  /\ dialed' = nextConn
  /\ UNCHANGED <<up, cut, crashes, restarts>>

(* What the daemon writes to a cut link is lost without its knowing. *)
Transmit(m) ==
  up' = IF dialed \in cut THEN up ELSE [up EXCEPT ![dialed] = Append(@, m)]

Announce ==
  /\ LinkAnnounce
  /\ Transmit(CreateFrame(Head(announce)))
  /\ UNCHANGED <<brokerVars, dialed, cut, crashes, restarts>>

StartPump ==
  /\ LinkPump
  /\ UNCHANGED <<brokerVars, netVars>>

Forward ==
  /\ LinkSend
  /\ Transmit(Head(queue))
  /\ UNCHANGED <<brokerVars, dialed, cut, crashes, restarts>>

(* The oldest frame queued for the daemon reaches route_decision. *)
Deliver ==
  /\ dialed # NoConn
  /\ PumpSend(dialed)
  /\ RouteDecision(Head(outbox[dialed]))
  /\ UNCHANGED netVars

(* broker_loop notices that its link is dead. *)
DaemonNotices ==
  /\ dialed \in cut
  /\ LinkDown
  /\ dialed' = NoConn
  /\ UNCHANGED <<brokerVars, up, cut, crashes, restarts>>

(* The broker reads the oldest frame of a daemon connection, *)
BrokerReads(c) ==
  /\ c \in daemons
  /\ up[c] # <<>>
  /\ OnMessage(c, Head(up[c]))
  /\ up' = [up EXCEPT ![c] = Tail(@)]
  /\ UNCHANGED <<pluginVars, daemonVars, dialed, cut, crashes, restarts>>

(* fails to write to a cut one, *)
BrokerWriteFails(c) ==
  /\ c \in cut
  /\ PumpFail(c)
  /\ UNCHANGED <<pluginVars, daemonVars, netVars>>

(* or notices that it is dead; what was not read by then is lost. *)
BrokerNotices(c) ==
  /\ c \in cut
  /\ Disconnect(c)
  /\ up' = [up EXCEPT ![c] = <<>>]
  /\ UNCHANGED <<pluginVars, daemonVars, dialed, cut, crashes, restarts>>

(* A decision made on the web reaches on_message: any verdict field.  It   *)
(* comes from a PWA connection, so from none of the daemons'.              *)
WebDecide(i, w) ==
  /\ i \in Pending
  /\ OnMessage(NoConn, DecisionFrame(i, w))
  /\ issued' = issued \cup {<<i, w>>}
  /\ UNCHANGED <<phase, answer, held, toDaemon, toPlugin, hungUp, daemonVars, netVars>>

-----------------------------------------------------------------------------
(* Bound: a link is cut only while a number is left to redial with. *)
SpareConn == nextConn < MaxConns

CutLink(c) ==
  /\ SpareConn
  /\ c \in (daemons \cup {dialed}) \ cut
  /\ cut' = cut \cup {c}
  /\ UNCHANGED <<brokerVars, pluginVars, daemonVars, dialed, up, crashes, restarts>>

CrashDaemon ==
  /\ SpareConn
  /\ crashes < MaxCrashes
  /\ crashes' = crashes + 1
  /\ DaemonCrash
  /\ cut' = cut \cup ({dialed} \ {NoConn})
  /\ dialed' = NoConn
  /\ UNCHANGED <<brokerVars, up, restarts>>

RestartBroker ==
  /\ SpareConn
  /\ restarts < MaxRestarts
  /\ restarts' = restarts + 1
  /\ Restart
  /\ cut' = cut \cup {c \in Conns : c < nextConn}
  /\ up' = [c \in Conns |-> <<>>]
  /\ UNCHANGED <<pluginVars, daemonVars, dialed, crashes>>

Network ==
  \/ Connect
  \/ Announce
  \/ StartPump
  \/ Forward
  \/ Deliver
  \/ DaemonNotices
  \/ \E c \in Conns : BrokerReads(c)
  \/ \E c \in Conns : BrokerWriteFails(c)
  \/ \E c \in Conns : BrokerNotices(c)

Fault ==
  \/ \E c \in Conns : CutLink(c)
  \/ CrashDaemon
  \/ RestartBroker

ChainNext ==
  \/ \E i \in Ids : Host(i)
  \/ \E i \in Ids, w \in WireVerdict : WebDecide(i, w)
  \/ Network
  \/ Fault

(* Every task and socket makes progress, a dead link is noticed, and a     *)
(* request that stays on the web is decided there in the end.  Nothing is  *)
(* assumed of the terminal, of kills or of the faults.                     *)
ChainFairness ==
  /\ WF_chainVars(Connect)
  /\ WF_chainVars(Announce)
  /\ WF_chainVars(StartPump)
  /\ WF_chainVars(Forward)
  /\ WF_chainVars(Deliver)
  /\ WF_chainVars(DaemonNotices)
  /\ \A c \in Conns : WF_chainVars(BrokerReads(c)) /\ WF_chainVars(BrokerNotices(c))
  /\ \A i \in Ids :
       /\ WF_chainVars(DaemonTask(i) /\ UNCHANGED <<brokerVars, netVars>>)
       /\ WF_chainVars((PluginRemote(i) \/ PluginSettle(i) \/ PluginClosed(i))
                         /\ UNCHANGED <<daemonVars, brokerVars, netVars>>)
       /\ WF_chainVars(\E v \in Verdict : WebDecide(i, v))

ChainSpec == ChainInit /\ [][ChainNext]_chainVars

FairChainSpec == ChainSpec /\ ChainFairness
-----------------------------------------------------------------------------
(* A plugin prints allow or deny only if a person decided exactly that for  *)
(* exactly this request: no frame of another request, no malformed verdict  *)
(* (which interpret_decision would take for an allow), no crash, re-announce*)
(* or reordering can make one up.                                           *)
VerdictIntegrity ==
  \A i \in Ids : answer[i] \in Verdict => <<i, answer[i]>> \in issued

(* The chain implements Approval: the history of decisions and the answers *)
(* are its own, and the processes that vanish are the killed ones.         *)
A == INSTANCE Approval WITH gone <- {i \in Ids : phase[i] = "killed"}

(* Every behaviour of plugins, daemon, broker and network is one of the     *)
(* promised ones: one answer per command, never revised, never given to a   *)
(* dead process, and only a decision made for that command by then.         *)
ImplementsApproval == A!ApprovalSpec

(* A create frame for i is on its way to the broker over the current link. *)
CreateAhead(i) ==
  \/ \E k \in DOMAIN announce : announce[k] = i
  \/ \E k \in DOMAIN queue : queue[k] = CreateFrame(i)
  \/ \E k \in DOMAIN up[dialed] : up[dialed][k] = CreateFrame(i)

(* A decision for i is on its way to the task that waits for it. *)
DecisionAhead(i) ==
  \/ chan[i] # <<>>
  \/ \E k \in DOMAIN outbox[dialed] :
       outbox[dialed][k].type = "decision" /\ outbox[dialed][k].id = i

(* The link is whole: neither end has a reason to drop it. *)
LinkWhole == link # "down" /\ dialed \notin cut

(* A plugin that waits is never forgotten: while the link is whole, its     *)
(* request is pending under the current connection, or the frame that will  *)
(* make it so, or the decision that ends the wait, is under way.            *)
NeverStranded ==
  \A i \in Ids :
    (task[i] = "serving" /\ LinkWhole) =>
      requests[i] = dialed \/ CreateAhead(i) \/ DecisionAhead(i)

(* Nothing is in motion between daemon and broker. *)
Quiet ==
  /\ link = "up"
  /\ dialed \notin cut
  /\ daemons = {dialed}
  /\ queue = <<>>
  /\ \A c \in Conns : up[c] = <<>> /\ outbox[c] = <<>>

(* No PWA is left showing a prompt nothing is waiting on: once everything   *)
(* has been delivered, each pending request has a route to a plugin task.   *)
NoGhost == Quiet => Pending \subseteq routes

(* When the plugin has its ack, the broker has dismissed the web prompt. *)
AckMeansDismissed ==
  \A i \in Ids : (\E k \in DOMAIN toPlugin[i] : toPlugin[i][k] = AckLine) => i \notin Pending

(* Every approval that is opened comes to an end: people answer what stays  *)
(* on the web, and no cut link, crash or restart makes a plugin wait for an *)
(* answer that was already given and lost.                                  *)
WaitEnds == \A i \in Ids : phase[i] = "waiting" ~> PluginGone(i)
=============================================================================
