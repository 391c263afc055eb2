--------------------------- MODULE ServiceWorker ----------------------------
(***************************************************************************)
(* The service worker's one socket to the broker and the bridge of a page  *)
(* that uses it (sw.js, broker-bridge.ts, register-service-worker.tsx and  *)
(* the bridge effect of App.tsx).  The worker's globals live as long as    *)
(* the worker: the browser may stop an idle worker, and an update replaces *)
(* it.  Messages between worker and page are two FIFOs.  How long a timer  *)
(* waits (the backoff) is not modelled: a pending timer fires some time.   *)
(***************************************************************************)
EXTENDS Naturals, Sequences, FiniteSets

CONSTANTS
  Urls,          \* broker addresses
  NoUrl,         \* brokerUrl = null, or no cards from any broker
  MaxLoads,      \* bound: page loads, the first one included
  MaxDrops,      \* bound: connections that fail or are lost
  MaxEvictions,  \* bound: times the browser stops the idle worker
  MaxUpdates,    \* bound: times a new version replaces the worker
  MaxSaves       \* bound: addresses the user saves on the setup screen

ASSUME WorkerAssumption == NoUrl \notin Urls

VARIABLES
  worker,        \* "none", "installed" or "active"
  brokerUrl,     \* the worker's brokerUrl
  brokerSocket,  \* index of the worker's brokerSocket in sockets, 0 if null
  sockets,       \* sockets this worker has created
  timers,        \* reconnect timers that have not fired
  base,          \* the page's broker base, NoUrl before the page is loaded
  controlled,    \* the page has a controller
  awaiting,      \* the bridge waits for controllerchange
  status,        \* the page's brokerStatus
  filled,        \* whose snapshot the page's inbox shows, NoUrl if emptied
  orphaned,      \* history: the worker was started anew since the page was loaded
  toWorker,      \* broker-connect messages posted to the worker
  toPage,        \* messages broadcast to the page
  faults         \* how often each bounded event has happened

workerVars == <<worker, brokerUrl, brokerSocket, sockets, timers>>
pageVars   == <<base, controlled, awaiting, status, filled, orphaned>>
swVars     == <<workerVars, pageVars, toWorker, toPage, faults>>

(* st is readyState, with CLOSED split: "closed" until the close event is   *)
(* dispatched, "gone" afterwards.  subs counts subscribe frames that the    *)
(* broker has not answered with a snapshot.                                 *)
Socket == [to : Urls, st : {"connecting", "open", "closed", "gone"}, subs : Nat]

SwInit ==
  /\ worker = "none"
  /\ brokerUrl = NoUrl /\ brokerSocket = 0 /\ sockets = <<>> /\ timers = 0
  /\ base = NoUrl /\ controlled = FALSE /\ awaiting = FALSE
  /\ status = "connecting" /\ filled = NoUrl /\ orphaned = FALSE
  /\ toWorker = <<>> /\ toPage = <<>>
  /\ faults = [loads |-> 0, drops |-> 0, evictions |-> 0, updates |-> 0, saves |-> 0]

Count(event, max) ==
  /\ faults[event] < max
  /\ faults' = [faults EXCEPT ![event] = @ + 1]

Tell(m) == toPage' = Append(toPage, m)

Live(s) == sockets[s].st \in {"connecting", "open"}

-----------------------------------------------------------------------------
(* The worker. *)

(* install ends in skipWaiting, so activation follows at once. *)
Install ==
  /\ base # NoUrl /\ worker = "none"
  /\ worker' = "installed"
  /\ UNCHANGED <<brokerUrl, brokerSocket, sockets, timers, pageVars, toWorker, toPage, faults>>

(* activate ends in clients.claim(): the page gets a controller, and a     *)
(* bridge that waits for controllerchange posts its one connect.           *)
Activate ==
  /\ worker = "installed"
  /\ worker' = "active"
  /\ controlled' = TRUE
  /\ awaiting' = FALSE
  /\ toWorker' = IF awaiting THEN Append(toWorker, base) ELSE toWorker
  /\ UNCHANGED <<brokerUrl, brokerSocket, sockets, timers, base, status, filled, orphaned,
                 toPage, faults>>

(* Mutant: a socket that is still connecting is not reused. *)
ConnectBrokerStacking(u) ==
  /\ brokerUrl' = u
  /\ IF brokerSocket # 0 /\ sockets[brokerSocket].st = "open"
     THEN /\ Tell([type |-> "open"])
          /\ sockets' = [sockets EXCEPT ![brokerSocket].subs = @ + 1]
          /\ UNCHANGED brokerSocket
     ELSE /\ sockets' = Append(sockets, [to |-> u, st |-> "connecting", subs |-> 0])
          /\ brokerSocket' = Len(sockets')
          /\ UNCHANGED toPage

(* connectBroker(url): reuse a live socket, whatever address it has, and   *)
(* bootstrap the page again if it is open; otherwise dial.                 *)
ConnectBroker(u) ==
  /\ brokerUrl' = u
  /\ IF brokerSocket # 0 /\ Live(brokerSocket)
     THEN /\ UNCHANGED brokerSocket
          /\ IF sockets[brokerSocket].st = "open"
             THEN /\ Tell([type |-> "open"])
                  /\ sockets' = [sockets EXCEPT ![brokerSocket].subs = @ + 1]
             ELSE UNCHANGED <<toPage, sockets>>
     ELSE /\ sockets' = Append(sockets, [to |-> u, st |-> "connecting", subs |-> 0])
          /\ brokerSocket' = Len(sockets')
          /\ UNCHANGED toPage

(* A posted broker-connect is handled; it starts a stopped worker. *)
Deliver ==
  /\ worker = "active" /\ toWorker # <<>>
  /\ ConnectBroker(Head(toWorker))
  /\ toWorker' = Tail(toWorker)
  /\ UNCHANGED <<worker, timers, pageVars, faults>>

(* The open event: subscribe and announce.  Events of one worker's sockets *)
(* are dispatched in the order they happen, so an older close comes first. *)
OnOpen(s) ==
  /\ sockets[s].st = "connecting"
  /\ \A t \in DOMAIN sockets : sockets[t].st # "closed"
  /\ sockets' = [sockets EXCEPT ![s].st = "open", ![s].subs = 1]
  /\ Tell([type |-> "open"])
  /\ UNCHANGED <<worker, brokerUrl, brokerSocket, timers, pageVars, toWorker, faults>>

(* The message event for a snapshot, relayed to the page. *)
OnSnapshot(s) ==
  /\ sockets[s].st = "open" /\ sockets[s].subs > 0
  /\ sockets' = [sockets EXCEPT ![s].subs = @ - 1]
  /\ Tell([type |-> "snapshot", from |-> sockets[s].to])
  /\ UNCHANGED <<worker, brokerUrl, brokerSocket, timers, pageVars, toWorker, faults>>

(* The connection cannot be made or is lost; readyState is CLOSED. *)
Drop(s) ==
  /\ Live(s)
  /\ Count("drops", MaxDrops)
  /\ sockets' = [sockets EXCEPT ![s].st = "closed", ![s].subs = 0]
  /\ UNCHANGED <<worker, brokerUrl, brokerSocket, timers, pageVars, toWorker, toPage>>

(* Mutant: the close handler does not tell the pages. *)
OnCloseQuiet(s) ==
  /\ sockets[s].st = "closed"
  /\ sockets' = [sockets EXCEPT ![s].st = "gone"]
  /\ timers' = timers + (IF brokerUrl # NoUrl THEN 1 ELSE 0)
  /\ UNCHANGED <<worker, brokerUrl, brokerSocket, pageVars, toWorker, toPage, faults>>

(* Mutant: the close handler sets no timer. *)
OnCloseNoRetry(s) ==
  /\ sockets[s].st = "closed"
  /\ sockets' = [sockets EXCEPT ![s].st = "gone"]
  /\ Tell([type |-> "closed"])
  /\ UNCHANGED <<worker, brokerUrl, brokerSocket, timers, pageVars, toWorker, faults>>

(* The close event: announce it and set a timer to reconnect. *)
OnClose(s) ==
  /\ sockets[s].st = "closed"
  /\ sockets' = [sockets EXCEPT ![s].st = "gone"]
  /\ Tell([type |-> "closed"])
  /\ timers' = timers + (IF brokerUrl # NoUrl THEN 1 ELSE 0)
  /\ UNCHANGED <<worker, brokerUrl, brokerSocket, pageVars, toWorker, faults>>

(* A timer fires: connectBroker with the address of that moment. *)
OnTimer ==
  /\ timers > 0
  /\ timers' = timers - 1
  /\ ConnectBroker(brokerUrl)
  /\ UNCHANGED <<worker, pageVars, toWorker, faults>>

(* A worker that is started anew: the script's globals.  The page is the   *)
(* same and does not notice.                                               *)
FreshGlobals ==
  /\ brokerUrl' = NoUrl /\ brokerSocket' = 0 /\ sockets' = <<>> /\ timers' = 0
  /\ orphaned' = TRUE
  /\ UNCHANGED <<worker, base, controlled, awaiting, status, filled>>

(* The browser stops the idle worker.  A socket that is open or has events *)
(* to dispatch keeps it alive; a timer does not.                           *)
Evict ==
  /\ worker = "active" /\ toWorker = <<>>
  /\ \A s \in DOMAIN sockets : sockets[s].st = "gone"
  /\ Count("evictions", MaxEvictions)
  /\ FreshGlobals
  /\ UNCHANGED <<toWorker, toPage>>

(* A new version installs, skips waiting and claims the page; the old      *)
(* worker is terminated with its sockets.  The page's bridge has used up   *)
(* its one-shot controllerchange listener.                                 *)
Update ==
  /\ worker = "active"
  /\ Count("updates", MaxUpdates)
  /\ FreshGlobals
  /\ toWorker' = <<>>
  /\ UNCHANGED toPage

-----------------------------------------------------------------------------
(* The page. *)

(* Mutant: a bridge without a controller drops its connect. *)
BridgeEager(u, ctrl) ==
  /\ status' = "connecting"
  /\ awaiting' = FALSE
  /\ toWorker' = IF ctrl THEN Append(toWorker, u) ELSE toWorker

(* The bridge effect: post the connect, or wait for a controller. *)
Bridge(u, ctrl) ==
  /\ status' = "connecting"
  /\ awaiting' = ~ctrl
  /\ toWorker' = IF ctrl THEN Append(toWorker, u) ELSE toWorker

(* The page is loaded, or reloaded with the saved address. *)
Load(u) ==
  /\ base \in {NoUrl, u}
  /\ Count("loads", MaxLoads)
  /\ base' = u
  /\ filled' = NoUrl /\ orphaned' = FALSE
  /\ controlled' = (worker = "active")
  /\ Bridge(u, controlled')
  /\ toPage' = <<>>
  /\ UNCHANGED workerVars

(* saveBrokerBase: empty the inbox; the bridge effect runs again only if   *)
(* the address differs.                                                    *)
Save(u) ==
  /\ base # NoUrl
  /\ Count("saves", MaxSaves)
  /\ base' = u
  /\ filled' = NoUrl
  /\ IF u # base
     THEN Bridge(u, controlled)
     ELSE UNCHANGED <<status, awaiting, toWorker>>
  /\ UNCHANGED <<workerVars, controlled, orphaned, toPage>>

(* The bridge's listener folds one message into the page's state. *)
Receive ==
  /\ toPage # <<>> /\ base # NoUrl
  /\ LET m == Head(toPage) IN
       /\ status' = CASE m.type = "open" -> "online" [] m.type = "closed" -> "offline"
                      [] OTHER -> status
       /\ filled' = IF m.type = "snapshot" THEN m.from ELSE filled
  /\ toPage' = Tail(toPage)
  /\ UNCHANGED <<workerVars, base, controlled, awaiting, orphaned, toWorker, faults>>

-----------------------------------------------------------------------------
SwNext ==
  \/ Install \/ Activate \/ Deliver \/ OnTimer \/ Evict \/ Update \/ Receive
  \/ \E s \in DOMAIN sockets : OnOpen(s) \/ OnSnapshot(s) \/ Drop(s) \/ OnClose(s)
  \/ \E u \in Urls : Load(u) \/ Save(u)

(* The browser runs the lifecycle, delivers messages, dispatches events    *)
(* and fires timers; the broker accepts a connection and answers in the    *)
(* end.  Nothing obliges the user or a fault.                              *)
SwFairness ==
  /\ WF_swVars(Install) /\ WF_swVars(Activate) /\ WF_swVars(Deliver)
  /\ WF_swVars(OnTimer) /\ WF_swVars(Receive)
  /\ WF_swVars(\E s \in DOMAIN sockets : OnOpen(s))
  /\ WF_swVars(\E s \in DOMAIN sockets : OnSnapshot(s))
  /\ WF_swVars(\E s \in DOMAIN sockets : OnClose(s))

SwSpec == SwInit /\ [][SwNext]_swVars /\ SwFairness

-----------------------------------------------------------------------------
(* "Reuse a live or still-connecting socket rather than stacking           *)
(* connections" (sw.js:86): whatever mixture of timers, loads, saves and   *)
(* restarts, the worker never has two live sockets.                        *)
OneLiveSocket == Cardinality({s \in DOMAIN sockets : Live(s)}) <= 1

(* A worker that was told an address never stops trying: a socket is live, *)
(* or its close event is to come, or a timer is pending (sw.js:129-135).   *)
KeepsTrying ==
  brokerUrl # NoUrl =>
    timers > 0 \/ \E s \in DOMAIN sockets : sockets[s].st # "gone"

(* Nothing is under way between the broker, the worker and the page; a    *)
(* reconnect timer may be pending.                                         *)
Quiet ==
  /\ worker = "active" /\ toWorker = <<>> /\ toPage = <<>>
  /\ \A s \in DOMAIN sockets : sockets[s].st \in {"open", "gone"} /\ sockets[s].subs = 0

(* The status line tells the truth: once everything is delivered, the page *)
(* says "online" exactly when the worker's socket is open.  A page is not  *)
(* told that its worker was replaced (sw.js:74), until it is loaded again. *)
StatusSettles ==
  Quiet /\ base # NoUrl /\ ~orphaned =>
    (status = "online" <=> brokerSocket # 0 /\ sockets[brokerSocket].st = "open")

(* "Clears any stale requests so a broker switch doesn't leave the old     *)
(* broker's cards" (App.tsx:174): what the inbox shows after everything is *)
(* delivered comes from the broker the page is set to.                     *)
CardsFromBase == Quiet /\ filled # NoUrl => filled = base

(* "It reconnects ... so a session open for hours or days survives         *)
(* transient drops" (sw.js:71): when loads and faults have ended, a page   *)
(* gets and stays online, with the pending requests of its broker if none  *)
(* was saved meanwhile.  Only a worker that was stopped or replaced leaves *)
(* its page behind, and loading the page again is enough to recover.       *)
SessionSurvives ==
  <>[](base # NoUrl /\ ~orphaned =>
         status = "online" /\ (faults.saves = 0 => filled = base))
=============================================================================
