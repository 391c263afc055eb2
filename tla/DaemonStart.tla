---------------------------- MODULE DaemonStart -----------------------------
(***************************************************************************)
(* Auto-start: plugins that find no daemon spawn one each and poll the     *)
(* local address until somebody listens (connect_or_start); a spawned      *)
(* daemon takes the address over (accept_plugins).  On Unix that is two    *)
(* system calls, remove_file and bind; on Windows one, the creation of the *)
(* first pipe instance.  A daemon is named after the plugin that spawned   *)
(* it.                                                                     *)
(***************************************************************************)
EXTENDS Naturals, FiniteSets

CONSTANTS
  Procs,    \* plugins started close together, and the daemons they spawn
  NoSock    \* nothing at the local address

ASSUME StartAssumption ==
  /\ IsFiniteSet(Procs)
  /\ NoSock \notin Procs

VARIABLES
  unix,     \* whether the address is a Unix socket or a Windows pipe
  plugin,   \* plugin -> its progress in connect_or_start
  peer,     \* plugin -> the daemon it is connected to
  daemon,   \* daemon -> its progress
  path      \* the daemon whose listener the address names, alive or stale

startVars == <<unix, plugin, peer, daemon, path>>

StartInit ==
  /\ unix \in BOOLEAN
  /\ plugin = [p \in Procs |-> "starting"]
  /\ peer = [p \in Procs |-> NoSock]
  /\ daemon = [d \in Procs |-> "none"]
  /\ path = NoSock

(* connect succeeds: the address names a process that listens. *)
Reachable == path # NoSock /\ daemon[path] = "listening"

Connected(p) ==
  /\ plugin' = [plugin EXCEPT ![p] = "connected"]
  /\ peer' = [peer EXCEPT ![p] = path]
  /\ UNCHANGED <<unix, daemon, path>>

(* connect_or_start: the first connect, *)
FirstConnect(p) ==
  /\ plugin[p] = "starting"
  /\ Reachable
  /\ Connected(p)

(* or spawn_daemon when it fails; the spawn itself may fail too. *)
SpawnDaemon(p) ==
  /\ plugin[p] = "starting"
  /\ ~Reachable
  /\ plugin' = [plugin EXCEPT ![p] = "polling"]
  /\ daemon' \in {daemon, [daemon EXCEPT ![p] = "spawned"]}
  /\ UNCHANGED <<unix, peer, path>>

(* A connect of the polling loop succeeds, *)
PollConnect(p) ==
  /\ plugin[p] = "polling"
  /\ Reachable
  /\ Connected(p)

(* or none did before the deadline, and the plugin defers. *)
PollTimeout(p) ==
  /\ plugin[p] = "polling"
  /\ plugin' = [plugin EXCEPT ![p] = "deferred"]
  /\ UNCHANGED <<unix, peer, daemon, path>>

-----------------------------------------------------------------------------
(* Mutant: a stale socket file is left where it is. *)
RemoveFileSkipped(d) ==
  /\ unix
  /\ daemon[d] = "spawned"
  /\ daemon' = [daemon EXCEPT ![d] = "removed"]
  /\ UNCHANGED <<unix, plugin, peer, path>>

(* accept_plugins on Unix: drop whatever file is at the address, *)
RemoveFile(d) ==
  /\ unix
  /\ daemon[d] = "spawned"
  /\ path' = NoSock
  /\ daemon' = [daemon EXCEPT ![d] = "removed"]
  /\ UNCHANGED <<unix, plugin, peer>>

(* Mutant: a daemon that loses cleans the address up on its way out. *)
TakeAddressCleanup(d, free) ==
  /\ IF free THEN path' = d /\ daemon' = [daemon EXCEPT ![d] = "listening"]
             ELSE path' = NoSock /\ daemon' = [daemon EXCEPT ![d] = "lost"]
  /\ UNCHANGED <<unix, plugin, peer>>

(* The address is free: take it; otherwise the bind fails and serve ends. *)
TakeAddress(d, free) ==
  /\ IF free THEN path' = d /\ daemon' = [daemon EXCEPT ![d] = "listening"]
             ELSE UNCHANGED path /\ daemon' = [daemon EXCEPT ![d] = "lost"]
  /\ UNCHANGED <<unix, plugin, peer>>

(* then bind. *)
Bind(d) ==
  /\ unix
  /\ daemon[d] = "removed"
  /\ TakeAddress(d, path = NoSock)

(* accept_plugins on Windows: first_pipe_instance fails if one exists. *)
CreatePipe(d) ==
  /\ ~unix
  /\ daemon[d] = "spawned"
  /\ TakeAddress(d, path = NoSock)

(* A daemon dies: its socket file stays behind, its pipe does not. *)
Die(d) ==
  /\ daemon[d] = "listening"
  /\ daemon' = [daemon EXCEPT ![d] = "dead"]
  /\ path' = IF ~unix THEN NoSock ELSE path
  /\ UNCHANGED <<unix, plugin, peer>>

StartNext ==
  \/ \E p \in Procs : FirstConnect(p)
  \/ \E p \in Procs : SpawnDaemon(p)
  \/ \E p \in Procs : PollConnect(p)
  \/ \E p \in Procs : PollTimeout(p)
  \/ \E d \in Procs : RemoveFile(d)
  \/ \E d \in Procs : Bind(d)
  \/ \E d \in Procs : CreatePipe(d)
  \/ \E d \in Procs : Die(d)

StartSpec == StartInit /\ [][StartNext]_startVars

(* A spawned daemon runs. *)
FairStartSpec ==
  StartSpec /\ \A d \in Procs : WF_startVars(RemoveFile(d) \/ Bind(d) \/ CreatePipe(d))

-----------------------------------------------------------------------------
(* One daemon per host: no two processes listen for plugins. *)
SoleDaemon == Cardinality({d \in Procs : daemon[d] = "listening"}) <= 1

(* Losing the race is fine because there is a winner: once every spawned    *)
(* daemon has had its turn and none has died, the address names one that    *)
(* listens, so the polling plugins find it.                                 *)
WinnerListens ==
  ( /\ \E d \in Procs : daemon[d] # "none"
    /\ \A d \in Procs : daemon[d] \notin {"spawned", "removed", "dead"} ) => Reachable

(* A stale address does not stay in the way: whatever the others do, after *)
(* a spawn there is a moment when a daemon listens at the address, although *)
(* the spawned one may lose the bind, and the file of a dead one blocks it. *)
SpawnSucceeds == \A d \in Procs : daemon[d] = "spawned" ~> Reachable
=============================================================================
