------------------------------- MODULE Daemon -------------------------------
(***************************************************************************)
(* The daemon of one host: a task per plugin connection (handle_plugin)    *)
(* and the supervisor of the one broker link (broker_loop), which share    *)
(* the routes table and the queue to the broker.  The tasks run on a       *)
(* multi-threaded runtime, so their steps interleave freely.               *)
(***************************************************************************)
EXTENDS Plugin

VARIABLES
  task,       \* id -> the handle_plugin task: not accepted, serving, finishing
  routes,     \* ids in the routes table
  chan,       \* id -> verdicts sent to the task's decision channel
  queue,      \* broker_tx .. broker_rx: frames waiting for the link
  link,       \* broker_loop: down, announcing or up
  announce    \* ids whose create frame is still to be re-announced

daemonVars == <<task, routes, chan, queue, link, announce>>

Task == {"none", "serving", "finishing"}

DaemonTypeOK ==
  /\ task \in [Ids -> Task]
  /\ routes \subseteq Ids
  /\ chan \in [Ids -> Seq(Verdict)]
  /\ queue \in Seq(ClientFrame)
  /\ link \in {"down", "announcing", "up"}
  /\ announce \in Seq(Ids)

DaemonInit ==
  /\ task = [i \in Ids |-> "none"]
  /\ routes = {}
  /\ chan = [i \in Ids |-> <<>>]
  /\ queue = <<>>
  /\ link = "down"
  /\ announce = <<>>

-----------------------------------------------------------------------------
(* accept_plugins and the head of handle_plugin: read the create line,     *)
(* enter the request in the routes table, queue its create frame.          *)
HandleCreate(i) ==
  /\ task[i] = "none"
  /\ i \notin hungUp
  /\ toDaemon[i] # <<>>
  /\ toDaemon' = [toDaemon EXCEPT ![i] = Tail(@)]
  /\ task' = [task EXCEPT ![i] = "serving"]
  /\ routes' = routes \cup {i}
  /\ queue' = Append(queue, CreateFrame(i))
  /\ UNCHANGED <<phase, answer, held, toPlugin, hungUp, issued, chan, link, announce>>

(* select!, first arm: a web decision is written to the plugin. *)
HandleRemote(i) ==
  /\ task[i] = "serving"
  /\ chan[i] # <<>>
  /\ chan' = [chan EXCEPT ![i] = Tail(@)]
  /\ toPlugin' = [toPlugin EXCEPT ![i] =
                    Append(@, [type |-> "decision", verdict |-> Head(chan[i])])]
  /\ task' = [task EXCEPT ![i] = "finishing"]
  /\ UNCHANGED <<phase, answer, held, toDaemon, hungUp, issued, routes, queue, link, announce>>

(* select!, second arm: a terminal decision is queued upstream and acked. *)
HandleLocal(i) ==
  /\ task[i] = "serving"
  /\ toDaemon[i] # <<>>
  /\ toDaemon' = [toDaemon EXCEPT ![i] = Tail(@)]
  /\ queue' = Append(queue, DecisionFrame(i, Head(toDaemon[i]).verdict))
  /\ toPlugin' = [toPlugin EXCEPT ![i] = Append(@, AckLine)]
  /\ task' = [task EXCEPT ![i] = "finishing"]
  /\ UNCHANGED <<phase, answer, held, hungUp, issued, routes, chan, link, announce>>

(* select!, second arm at end of file: the plugin is gone, so withdraw. *)
HandleEof(i) ==
  /\ task[i] = "serving"
  /\ toDaemon[i] = <<>>
  /\ PluginGone(i)
  /\ queue' = Append(queue, WithdrawFrame(i))
  /\ task' = [task EXCEPT ![i] = "finishing"]
  /\ UNCHANGED <<pluginVars, routes, chan, link, announce>>

(* After the loop, a step of its own: leave the routes table and return,   *)
(* which drops the decision channel and the socket.                        *)
HandleFinish(i) ==
  /\ task[i] = "finishing"
  /\ task' = [task EXCEPT ![i] = "none"]
  /\ routes' = routes \ {i}
  /\ chan' = [chan EXCEPT ![i] = <<>>]
  /\ hungUp' = hungUp \cup {i}
  /\ UNCHANGED <<phase, answer, held, toDaemon, toPlugin, issued, queue, link, announce>>

-----------------------------------------------------------------------------
(* broker_loop, connected: the requests now in the table will be announced *)
(* again, in some order.                                                   *)
LinkUp ==
  /\ link = "down"
  /\ link' = "announcing"
  /\ announce' \in Orderings(routes)
  /\ UNCHANGED <<pluginVars, task, routes, chan, queue>>

(* Mutant: only the first pending request is announced again. *)
LinkAnnounceFirst ==
  /\ link = "announcing"
  /\ announce # <<>>
  /\ announce' = <<>>
  /\ UNCHANGED <<pluginVars, task, routes, chan, queue, link>>

(* One create frame leaves for the socket; *)
LinkAnnounce ==
  /\ link = "announcing"
  /\ announce # <<>>
  /\ announce' = Tail(announce)
  /\ UNCHANGED <<pluginVars, task, routes, chan, queue, link>>

(* after the last one the pump starts. *)
LinkPump ==
  /\ link = "announcing"
  /\ announce = <<>>
  /\ link' = "up"
  /\ UNCHANGED <<pluginVars, task, routes, chan, queue, announce>>

(* The oldest queued frame leaves for the socket. *)
LinkSend ==
  /\ link = "up"
  /\ queue # <<>>
  /\ queue' = Tail(queue)
  /\ UNCHANGED <<pluginVars, task, routes, chan, link, announce>>

(* Mutant: a decision wakes every waiting task. *)
RouteDecisionToAll(m) ==
  /\ link = "up"
  /\ chan' = [i \in Ids |-> IF i \in routes THEN Append(chan[i], m.verdict) ELSE chan[i]]
  /\ UNCHANGED <<pluginVars, task, routes, queue, link, announce>>

(* route_decision: wake the task that waits on the id, if there is one. *)
RouteDecision(m) ==
  /\ link = "up"
  /\ chan' = IF m.id \in routes THEN [chan EXCEPT ![m.id] = Append(@, m.verdict)]
                                ELSE chan
  /\ UNCHANGED <<pluginVars, task, routes, queue, link, announce>>

(* The link dropped: what was not announced yet will be collected anew. *)
LinkDown ==
  /\ link # "down"
  /\ link' = "down"
  /\ announce' = <<>>
  /\ UNCHANGED <<pluginVars, task, routes, chan, queue>>

(* The process dies: every plugin connection closes, and a fresh daemon    *)
(* (auto-started by the next plugin) begins with nothing.                  *)
DaemonCrash ==
  /\ task' = [i \in Ids |-> "none"]
  /\ routes' = {}
  /\ chan' = [i \in Ids |-> <<>>]
  /\ queue' = <<>>
  /\ link' = "down"
  /\ announce' = <<>>
  /\ hungUp' = hungUp \cup {i \in Ids : phase[i] # "idle"}
  /\ UNCHANGED <<phase, answer, held, toDaemon, toPlugin, issued>>

DaemonTask(i) ==
  \/ HandleCreate(i)
  \/ HandleRemote(i)
  \/ HandleLocal(i)
  \/ HandleEof(i)
  \/ HandleFinish(i)
=============================================================================
