------------------------------- MODULE Plugin -------------------------------
(***************************************************************************)
(* The plugin processes of one host.  allowlister starts one per gated     *)
(* command; it prints one verdict and exits.  A process and the request it *)
(* opens are named by the same id.  Its threads (local prompt, socket      *)
(* reader, main loop) meet in one channel, so what they do is a race whose *)
(* winner is the event the main loop takes first.                          *)
(***************************************************************************)
EXTENDS Protocol, Sequences

VARIABLES
  phase,      \* id -> where the process is
  answer,     \* id -> what it printed on stdout
  held,       \* id -> the terminal's verdict, once the main loop took it
  toDaemon,   \* id -> lines on the local socket, plugin to daemon
  toPlugin,   \* id -> lines on the local socket, daemon to plugin
  hungUp,     \* ids whose daemon end of the local socket is closed
  issued      \* history: <<id, verdict>> pairs that a person decided

pluginVars == <<phase, answer, held, toDaemon, toPlugin, hungUp, issued>>

Phase == {"idle", "waiting", "relaying", "done", "killed"}

(* What the process can print: a decision, or an answer that leaves the    *)
(* decision to allowlister.                                                *)
Answer == Verdict \cup {"defer", "ask", NoVerdict}

(* The plugin <-> daemon protocol, newline-delimited JSON. *)
CreateLine      == [type |-> "create"]
LocalLine(v)    == [type |-> "decision", verdict |-> v]
AckLine         == [type |-> "ack"]
PluginLine      == {CreateLine} \cup [type : {"decision"}, verdict : Verdict]
DaemonLine      == {AckLine} \cup [type : {"decision"}, verdict : Verdict]

PluginTypeOK ==
  /\ phase \in [Ids -> Phase]
  /\ answer \in [Ids -> Answer]
  /\ held \in [Ids -> Verdict \cup {NoVerdict}]
  /\ toDaemon \in [Ids -> Seq(PluginLine)]
  /\ toPlugin \in [Ids -> Seq(DaemonLine)]
  /\ hungUp \subseteq Ids
  /\ issued \subseteq Ids \X WireVerdict

PluginInit ==
  /\ phase = [i \in Ids |-> "idle"]
  /\ answer = [i \in Ids |-> NoVerdict]
  /\ held = [i \in Ids |-> NoVerdict]
  /\ toDaemon = [i \in Ids |-> <<>>]
  /\ toPlugin = [i \in Ids |-> <<>>]
  /\ hungUp = {}
  /\ issued = {}

(* The process has exited, so its end of the local socket is closed. *)
PluginGone(i) == phase[i] \in {"done", "killed"}

(* write_response: print the one answer and exit. *)
WriteResponse(i, a) ==
  /\ phase' = [phase EXCEPT ![i] = "done"]
  /\ answer' = [answer EXCEPT ![i] = a]

-----------------------------------------------------------------------------
(* main, before any request is opened: the verdict needs no approval or no *)
(* daemon can be reached (defer), or the payload does not parse (ask).     *)
PluginStepAside(i) ==
  /\ phase[i] = "idle"
  /\ \E a \in {"defer", "ask"} : WriteResponse(i, a)
  /\ UNCHANGED <<held, toDaemon, toPlugin, hungUp, issued>>

(* connect_or_start succeeded: run_via_daemon writes the create line and   *)
(* starts the reader and the local prompt.                                 *)
PluginOpen(i) ==
  /\ phase[i] = "idle"
  /\ phase' = [phase EXCEPT ![i] = "waiting"]
  /\ toDaemon' = [toDaemon EXCEPT ![i] = <<CreateLine>>]
  /\ UNCHANGED <<answer, held, toPlugin, hungUp, issued>>

(* interpret_decision: whatever is not a deny is an allow. *)
InterpretDecision(w) == IF w = "deny" THEN "deny" ELSE "allow"

(* Event::Remote: a decision line from the daemon settles the command. *)
PluginRemote(i) ==
  /\ phase[i] = "waiting"
  /\ toPlugin[i] # <<>>
  /\ Head(toPlugin[i]).type = "decision"
  /\ WriteResponse(i, InterpretDecision(Head(toPlugin[i]).verdict))
  /\ toPlugin' = [toPlugin EXCEPT ![i] = Tail(@)]
  /\ UNCHANGED <<held, toDaemon, hungUp, issued>>

(* Event::Local: the operator typed a or d; relay it, then wait for the    *)
(* daemon's ack.                                                           *)
PluginLocal(i, v) ==
  /\ phase[i] = "waiting"
  /\ phase' = [phase EXCEPT ![i] = "relaying"]
  /\ held' = [held EXCEPT ![i] = v]
  /\ toDaemon' = [toDaemon EXCEPT ![i] = Append(@, LocalLine(v))]
  /\ issued' = issued \cup {<<i, v>>}
  /\ UNCHANGED <<answer, toPlugin, hungUp>>

(* recv_timeout returned, with whatever event or after two seconds: the    *)
(* terminal's verdict is printed.                                          *)
PluginSettle(i) ==
  /\ phase[i] = "relaying"
  /\ WriteResponse(i, held[i])
  /\ UNCHANGED <<held, toDaemon, toPlugin, hungUp, issued>>

(* Mutant: a lost daemon is taken for a consent. *)
PluginClosedAllows(i) ==
  /\ phase[i] = "waiting"
  /\ i \in hungUp
  /\ toPlugin[i] = <<>>
  /\ WriteResponse(i, "allow")
  /\ UNCHANGED <<held, toDaemon, toPlugin, hungUp, issued>>

(* Mutant: the end of the reader thread is not reported to the main loop. *)
PluginClosedUnseen(i) == FALSE

(* Event::Closed: the daemon hung up before any decision line. *)
PluginClosed(i) ==
  /\ phase[i] = "waiting"
  /\ i \in hungUp
  /\ toPlugin[i] = <<>>
  /\ WriteResponse(i, "defer")
  /\ UNCHANGED <<held, toDaemon, toPlugin, hungUp, issued>>

(* The gated command is interrupted: the process dies without an answer. *)
PluginKill(i) ==
  /\ phase[i] \in {"waiting", "relaying"}
  /\ phase' = [phase EXCEPT ![i] = "killed"]
  /\ UNCHANGED <<answer, held, toDaemon, toPlugin, hungUp, issued>>

PluginStep(i) ==
  \/ PluginStepAside(i)
  \/ PluginOpen(i)
  \/ PluginRemote(i)
  \/ \E v \in Verdict : PluginLocal(i, v)
  \/ PluginSettle(i)
  \/ PluginClosed(i)
  \/ PluginKill(i)
=============================================================================
