# allowlister-remote in TLA+

allowlister-remote lets a person approve or deny a gated command from a web app
(PWA) as well as from the terminal. This directory models the approval system, its
web client and the code that packages, serves and gates it in TLA+, checks the
models with TLC and proves the main properties of the approval chain with TLAPS.
Source paths are relative to `src/`; `PROJECT.json` maps every definition to the
lines it models.

## The system

| Part | State | Operations | Talks to |
| --- | --- | --- | --- |
| **plugin** (`crates/allowlister-remote-plugin`), one process per gated command | the race between terminal and daemon, one answer on stdout | triage the payload, connect to or start the daemon, send `create`, print the first decision, relay a terminal decision, defer when the daemon goes away | daemon, over a local socket |
| **daemon** (`crates/allowlister-remote-daemon`), one per host | `routes` (requests that wait), the queue to the broker, the link | accept a plugin, assign an id, forward `create`/`decision`/`withdraw`, route a web decision to its task, reconnect with backoff and re-announce | plugins; broker, over one WebSocket |
| **broker** (`crates/allowlister-remote-broker`), one | `Inner`: pending requests with their owner, senders of daemons and PWAs | `register`, `create`, `resolve`, `send_snapshot`, `disconnect`, `broadcast`, all under one mutex; one send task per connection | daemons and PWAs |
| **PWA worker** (`apps/web/public/sw.js`, `src/pwa`), one per browser | socket, address and timers in globals that die with the worker; caches; notifications on the screen | dial, subscribe, relay events to pages, send decisions, reconnect with backoff; answer navigations and assets; show and clear notifications, handle their clicks | broker; pages, by `postMessage` |
| **PWA page** (`apps/web/src`) | inbox, selection, cursor, panel, setup screen; broker address and theme in `localStorage` | fold `snapshot`/`added`/`resolved` into the inbox, normalise and show requests, decide by click or key, save an address, switch themes | worker |
| **wire protocol** (`crates/allowlister-remote-protocol`) | none | verdicts, frame kinds, builders | all |
| **npm packages** (`packages`, `scripts`) | the launcher or binaries in `bin/`; open responses | stamp and stage a release, link native binaries, serve static files | npm; browsers |
| **CI policy** (`.github`) | runs and the required context of a pull request | classify a diff, pick the matrix, gate the result; resolve a workflow graph | GitHub |
| **transport prototype** (`docs/design/prototypes`) | requests, decisions, event log | long poll, event stream with resume | - |

What is hard here is distribution: four kinds of processes, three kinds of
connections, no persistence, and a request that may stay open for days. Links
drop with frames in flight, the broker restarts empty, daemons and plugins die,
terminal and web decide at the same moment, daemons are started by several
plugins at once. The properties that make the parts correct:

- plugin: it prints allow or deny only if a person decided exactly that for this
  command, at most once, and it does not wait for something that cannot come;
- daemon: while its link is whole, each waiting request is pending at the broker
  under that link, or the frame that makes it so (or ends the wait) is under way;
- broker: every pending request has a registered owner; a web decision goes to
  that owner only and dismisses the card everywhere; a disconnect withdraws its
  own requests and no others;
- PWA: once everything queued for it is delivered, the inbox is the pending set;
  a dead card goes away, whatever connections were lost;
- PWA worker: one socket, to the broker the page is set to, for as long as a page is
  open; a notification for what is pending and for nothing else; a shell that works
  offline;
- PWA page: a key acts on what is highlighted and never below an open layer; what
  must be weighed is shown and counted, also when the payload is garbled;
- packages: what is published is whole, what is installed runs, what is served can
  be read; CI: nothing merges without the checks that its diff calls for;
- auto-start: several plugins that start at once find a daemon that listens.

`PROJECT.json` lists the hazards line by line, with the properties aimed at each.

## Modules

| Module | Models |
| --- | --- |
| `Protocol` | verdicts, frames, their builders; a frame keeps type, id and verdict |
| `Broker` | `Inner`, the send tasks and the connection counter; any client frame may arrive on any registered connection |
| `Mediation` | `Broker` with browsers: subscription, inbox, optimistic removal of a decided card, notification decisions, reloads, cuts, reconnects; daemons send anything |
| `Plugin` | the plugin processes and the local socket |
| `Daemon` | `handle_plugin` tasks, `routes`, the queue, `broker_loop`; extends `Plugin`, whose socket it shares |
| `Chain` | `Plugin`, `Daemon`, `Broker` and the network between daemon and broker, with cut links, daemon crashes and broker restarts; web decisions come from outside |
| `Approval` | the abstract promise to allowlister: people decide, each command gets at most one answer, and it is a decision made for it or one that steps aside |
| `DaemonStart` | the auto-start race on Unix and on Windows |
| `ServiceWorker` | the worker's socket, timers and life, and the bridge and boot of the page in front of it, with the messages between them |
| `Notifications` | showing, clearing and clicking notifications, with every call of the platform answered later and in no order |
| `ShellCache` | install, activate and fetch handlers over the browser's caches |
| `Page` | `App.tsx` with inbox, detail, panel, overlay and keyboard hooks; a committed frame and the frame the key handlers still see |
| `BrokerConfig`, `Theme` | the address and the theme: link, storage, defaults, form, bootstrap script, effects |
| `ApprovalView` | from payload to card, script, notification: normalisation, flagged fragments, pairing of lines, previews with caps |
| `JsonHighlight` | the scanner that colours a tool call's input |
| `NpmInstall` | from release artifacts through staging and installation to the command that runs |
| `StaticServer` | both static servers, a shared cache before them, and their shutdown |
| `ServedShell` | the worker's fetch handlers over `StaticServer`'s `resolveTarget`, across deployments (composes the two through `INSTANCE`) |
| `MacPolicy` | a pull request's events, the runs they start and cancel, classifier and gate |
| `WorkflowGraph`, `Matrix` | the depth-first resolver of jobs and reusable workflows; the expansion of a matrix |
| `Prototype` | the prototype's store, log, long polls and streams |
| `Selection` | `Array.prototype.filter` by the positions that are kept, for the modules above that filter |
| `BrokerProofs`, `MediationProofs`, `ChainProofs`, `WorkerProofs` | theorems about the module they are named after; `ChainProofs` also about `DaemonStart`, `WorkerProofs` about `ServiceWorker` |
| `BrowserProofs`, `DeliveryProofs` | theorems about the parts of `MCBrowser` and of `MCDelivery` |
| `WorkflowProofs` | theorems about `WorkflowGraph` and `Matrix` |
| `SelectionProofs` | lemmas about `Selection` |
| `MCMediation`, `MCChain`, `MCDaemonStart`, `MCServiceWorker` | small constants for TLC, each for the module it is named after |
| `MCBrowser` | `Page`, `Notifications`, `BrokerConfig`, `Theme`, `ApprovalView`, `JsonHighlight`, `ShellCache` and `ServedShell` with their bounds, in one run; extends them, but for the instances `JsonHighlight` and `ServedShell` |
| `MCDelivery` | `Prototype`, `StaticServer`, `NpmInstall`, `MacPolicy`, `WorkflowGraph` and `Matrix` likewise; `MacPolicy` has three instances besides, with other bounds |

Correspondence. An action is a whole handler: one lock section of the broker, one
arm of a `select!`, one event of the plugin's main loop. In the broker `requests`
maps an id to its owner (`NoConn` when it is not pending), `pumping` holds the
connections whose send task still has the receiver (a send to any other is
dropped, as `let _ = tx.send(..)` drops it), and `outbox` is the channel of a send
task. `Mediation` and `Chain` let the client read straight from `outbox`: queue
and socket are one FIFO, and delivering a frame early or late commutes with every
step of the broker's other connections. Connection numbers are not reused after a
restart, which only renames them, since the program never compares numbers of two
lives. A plugin and its request share one id: `new_request_id` never repeats one.
`HandleFinish` is a step of its own because the route is removed after the loop,
when other tasks may have run; the insertion into `routes` and the first send of
`create` are one step because only `broker_loop` reads either, and it reads the
queue after the table. A payload, a reason and the text of prompts are left out.

The disjuncts of `OnMessage` are the arms of `on_message`; the last is the ignored
frame. Wire verdicts are `allow`, `deny` or `other`, where `other` is whatever
`Verdict::parse` rejects, because `interpret_decision` reads `other` as an allow.

In the browser an action is one callback. What JavaScript runs to its next `await`
or event is one step, and what the platform answers later (`matchAll`,
`getNotifications`, `cache.put`, a timer, a message) is a step of its own. Messages
on one port and frames on one socket keep their order; answers of the platform do not:
`Notifications` counts, per id, the calls that wait for the windows, for icon and
badge, and for the list of what is shown, and any of them may be answered next.
`ServiceWorker` loses its globals in `Evict` and `Update` (`FreshGlobals`); a socket
is the address it was dialled with, its state and the subscriptions that still
await a snapshot. In `Page`, `page` is the committed frame and `seen` the frame whose
handlers listen: React replaces listeners in passive effects, which a click or a
key flushes within its own step and anything else leaves to `Flush`. In
`ApprovalView` and `JsonHighlight` texts are sequences of words or of one character
per class the scanner tells apart, so that containment and escapes are what they
are in the code. `WorkflowGraph` turns the recursion of `resolveRun` into an explicit
stack; a step is one job visited or left. GitHub, npm, the browser's scheduler and
HTTP caches are external and marked so in the map.

Operators whose comment begins with "Mutant:" are the faulty variants that
`PROJECT.json` names: each property is checked to fail when the definition that
follows is replaced by one of them.

## Runs

| Run | Specification, bounds | Shows |
| --- | --- | --- |
| `mediation` | `FairMediationSpec`, 2 ids, 1 browser, 3 connections | `OwnerRegistered`, `WebDecisionRouting`, `DisconnectScope` whatever daemons send; `InboxMirrors`: a subscribed browser cannot be left with a wrong picture; `DeadCardsGo` |
| `chain` | `FairChainSpec`, 1 command, 3 links, 1 crash, 1 restart | `ImplementsApproval`, `WaitEnds` |
| `chain_pair` | `ChainSpec`, 2 commands, 2 links, one decision by a person | `VerdictIntegrity`, `NeverStranded` across requests |
| `start` | `FairStartSpec`, 3 plugins, Unix and Windows | `WinnerListens`, `SpawnSucceeds` |
| `worker` | `SwSpec`, 2 brokers, 3 loads, 1 save, 2 drops, 1 eviction, 1 update | `OneLiveSocket`, `KeepsTrying`: sockets never stack, and an address once told is always being tried; `StatusSettles`, `SessionSurvives`: a page whose worker lives on gets and stays online with its broker's cards |
| `browser` | `BrowserSpec`, part by part as below | the page's and the worker's other promises |
| `delivery` | `DeliverySpec`, part by part as below | what packages, serves and gates the program |

`browser` and `delivery` each run several small machines that share no state their
modules model. The variable `part` names the one that moves; the others rest in one
initial state, so that the run covers the sum of the state spaces.

| Part of | Bounds | Properties |
| --- | --- | --- |
| `browser`: page | 2 requests, one a tool call | `CursorSettles`, `FreshDetail`, `LayersPause` |
| notes | 2 requests, 3 announcements, 1 drop, 2 looks | `ScreenSettles`: a notification outlives its request only if the resolved frame was lost, or read before the show was answered; `ClickNotDropped` |
| config | 2 addresses and a bad one, 3 openings, storage or none | `ChoiceSurvives` |
| theme | every kind of storage | `PaintedAsChosen` |
| view | scripts up to 3 lines, up to 3 fragments, garbled fields | `SuspectIsFlagged`, `ConsumedOnceInOrder`, `PreviewsAgree` |
| json | printed values with two-character strings | `TokensAreRuns`, against the runs they were printed from |
| shell | 2 pages, 1 asset, 2 deployments | `AlwaysAnswered`, `AssetsCatchUp` |
| served | 3 deployments | `HealsOnline` |
| `delivery`: prototype | 1 id, 2 polls, 1 stream, 3 events, 1 drop | `StreamIsLogPrefix`, `DecisionReachesPoll` |
| static | 2 clients, 3 paths, 2 signals | `NoUnaskedGzip` |
| npm | 3 targets, 4 hosts, directories up to depth 3 | `InstallServes` |
| mac; again; kinds; gates | a push and 2 changes of draft or closed; a push, a change and a re-run of any earlier run; 9 classes of diff and a change; both groups | `MacCoversMerge`, `ContextReported` (mac), `GateIsFair` |
| graph | every graph of 3 jobs with up to 2 needs; 2 jobs with every condition and calls | `RefusedForCause`, `OutcomeFollowsNeeds`, `ResolutionEnds` |
| matrix | 2 axes, an exclusion, 2 includes | `CombinationsKept` |

Five runs show where the code and what it says of itself part (`findings` in
`PROJECT.json` quotes the lines):

- `chain_ghost` (`NoGhost`): a request opened before the link is up reaches the
  broker twice, once re-announced and once from the queue. A web decision between
  the two leaves a card nothing waits on, until the link drops.
- `chain_overlap` (`WaitEnds`): with `Overlap` the daemon may redial before the
  broker has read the old connection to its end. A late `create` on it takes the
  request's ownership back, and the old connection's disconnect withdraws it: the
  plugin waits forever on a live link. Without overlap `chain` shows that it
  cannot happen.
- `chain_ack` (`AckMeansDismissed`): the ack says that the decision was queued,
  not that the web prompt is gone.
- `start_race` (`SoleDaemon`): on Unix a second daemon can take the socket path
  from the one that listens; both go on running.
- `worker_switch` (`CardsFromBase`): a live socket is reused whatever address it has,
  so a broker switch fills the inbox from the old broker.

Departures met while modelling. The models contain these behaviours too; the
property named with each is stated so that it allows them:

- Saving the address in use empties the inbox and subscribes to nothing; a worker
  that was evicted or replaced comes back without an address, which the open page
  does not tell it again (`SessionSurvives` speaks of cards only if no address was
  saved, and not of a page whose worker was lost).
- A request resolved while its show waits, for `matchAll` or for its icon and badge, or
  whose resolved frame was lost with the socket, leaves a notification nothing clears
  (`stranded` in `ScreenSettles`).
- When the Mac leg of a `ready_for_review` run has failed, running the draft's run of the
  same head again reports the required context green with Ubuntu only, because that
  run's payload still says draft (`macos-policy.mjs:133-146`). `MacCoversMerge` excuses
  exactly the heads last reported that way (`redrafted`), and no other re-run.
- Any edit of the changelog that leaves its title and a version heading passes for part
  of a release (`macos-policy.mjs:79-80`), and `TrustedRelease` says so.
- A navigation answered with an error page is cached over the shell
  (`AlwaysAnswered` promises an answer, not a good one), and a script asked for
  after the next deployment is answered with the page, status 200, and kept
  (`HealsOnline` speaks of a tab that is online again).
- The panel focuses its own Close button, which keeps `?` from hiding it again.
- The deep link stays in the address bar, and a reload applies it over the address
  saved since (a reload of a link counts as a choice in `ChoiceSurvives`).
- The mount effects paint the system theme before the stored one, and blocked
  storage throws in an effect (`PaintedAsChosen` starts when the preference has been
  adopted).
- The worker does not normalise, so a garbled payload has a line on the card and
  none in the notification, and a null entry is suspect to the card but not to the worker
  (`WellFormed` in `PreviewsAgree`); a line with an allowed
  and a flagged command is paired with the allowed one and stays muted.
- The plugin is copied over the launcher before the daemon is found and copied, so
  a file error leaves no working fallback until the next run (`failed` in
  `InstallServes`).

Bounds. Three connections are the least with two daemons and a PWA, or with a
browser that loses its connection twice; two ids tell a misrouted frame from a
routed one and give a disconnect two orphans to order. `KeepsReserve` and
`SpareConn` keep one number back for every cut-off client, so that the liveness
properties never fail for want of a number. `chain_pair` is cut at one decision, which
is enough for a misrouted answer. `MaxQueue` and `MaxUp` bound what is in flight.
The `chain` and `start` runs may stop: a command that has its answer is over.
In `worker` three loads and two drops let a reload meet each state of the socket
and two timers be pending at once; two addresses are the least for a switch. Two
requests let one notification disturb another, and let the cursor move from one
card to another. Two-character strings hold an escaped quote, an escaped
backslash and every class of character; three-line scripts with three fragments
hold repeated lines and a line that contains another's command. Three directories
hold a workspace above and below `node_modules`; three deployments allow a rollback.
A graph of three jobs has every cycle, diamond and missing job the resolver tells
apart, and two files calling each other are the least recursion. A push and a change of draft
give re-runs of an earlier head, of a draft's run and of one a push has overtaken. The
runs whose
cfg says `CHECK_DEADLOCK FALSE` stop when their bounded events are used up, or, for
algorithms, when the result is there.

Fairness. `MediationFairness` and `ChainFairness` say that a runnable task runs,
a socket that is not cut delivers, a dead socket is noticed in the end (TCP and
the broker's ping) and the client redials (both retry without limit). `WaitEnds`
also assumes that people decide a request that stays on the web. Nothing is
assumed of the terminal, of kills, of cuts, crashes and restarts. `FairStartSpec`
says only that a spawned daemon runs. `SwFairness` says that messages are delivered,
pending timers fire, dialled sockets open or close, and a registered worker is
installed and activated; drops, evictions, updates, loads and saves are free, and
bounded. `ShellFairness` says of each asset that the app asks for it again and that a `put` of
it ends. `Prototype` assumes that a client asks again and a deadline passes;
`MacPolicy` that GitHub runs a queued job; `ServedShell` that the tab navigates and
loads again. In `browser` and `delivery` an action that stays enabled in the
state where another part leaves it is fair only in its own part, so that no part's
liveness rests on another's. The other parts state no fairness: `ResolutionEnds` is
an action property over a rank that cannot fall for ever.

## Proofs

TLAPS checks every theorem below for every value of the constants. The
assumptions are those the modules name (`...Assumption`), and each is checked by the
run that extends the module:

| Module | Assumed of its constants |
| --- | --- |
| `Protocol`, `Broker`, `Mediation`, `Chain` | `Ids` is finite, `NoId` is none of them, bounds are natural numbers, `NoConn` is no number |
| `DaemonStart` | `Procs` is finite, `NoSock` is none of them |
| `ServiceWorker` | `NoUrl` is no address |
| `Page` | requests are finite in number, `None` is none of them, tool calls are requests |
| `BrokerConfig` | the default is an address or none; `Null` and the blank text are no addresses |
| `ShellCache` | `/offline` is precached (`APP_SHELL` of `sw.js` lists it) |
| `ApprovalView` | a payload's command, and its fragments and tool lines unless left out, are lists; the caps are natural numbers, that of a tool card positive |
| `Prototype` | ids chosen by a caller are no numbers, which the store hands out; a poll is no stream; bounds are natural numbers |
| `WorkflowGraph`, `Matrix` | there is a first workflow and a called one is there; jobs, needs and includes are lists |
| `NpmInstall`, `MacPolicy` | bounds are natural numbers; `Diffs` are sets of changes, `Groups` are `pr` and perhaps `main` |

Nothing is assumed of how many browsers, links, plugins, addresses, crashes, restarts,
loads, pushes or reconnects there are, nor of the size or shape of a graph or a matrix.

| Theorem | States | Inductive invariant |
| --- | --- | --- |
| `BrokerProofs!OwnerAlwaysRegistered`, `BrokerTypeCorrect` | `[]OwnerRegistered`, `[]BrokerTypeOK` | `BrokerInv`: types, `ConnsDistinct` (roles do not mix, numbers in use were handed out), `OwnerRegistered` |
| `BrokerProofs!WebDecisionsRouted`, `DisconnectTakesItsOwn` | the action properties `WebDecisionRouting`, `DisconnectScope` | `BrokerInv` |
| `MediationProofs!InboxAlwaysMirrors`, `MediationTypeCorrect` | `[]InboxMirrors`, `[]MediationTypeOK` | `MediationInv`: `BrokerInv`, `SocketsOwned`, `InboxMirrors` |
| `ChainProofs!VerdictsAreDecisions`, `ChainTypeCorrect` | `[]VerdictIntegrity`, `[]ChainTypeOK` | `ChainInv`: `BrokerInv`, types, `LinesInOrder`, `Provenance` |
| `ChainProofs!ChainImplementsApproval` | `ChainSpec => A!ApprovalSpec` | `ChainInv` |
| `ChainProofs!WaitersReached` | `[]NeverStranded` if `~Overlap` | `ChainInv`, `NeverStranded` and `LinkInv`: `OneLink`, `Enrolled`, `NothingEndsEarly` |
| `ChainProofs!StartHasWinner`, `SoleDaemonOnWindows` | `[]WinnerListens`, `[](~unix => SoleDaemon)` | `StartInv`: types, `SpawnedOnce`, `PathWasBound`, `FreeIsContested`, `PipeNamesListener` |
| `WorkerProofs!NeverStacksSockets`, `NeverGivesUp`, `StatusIsTrue` | `[]OneLiveSocket`, `[]KeepsTrying`, `[]StatusSettles` | `SwInv`: types, `Lifecycle`, `OnlyBrokerSocket`, `TimersHaveUrl`, `ClosesFirst`, `StatusFollows`, `KeepsTrying` |
| `BrowserProofs!CursorInRange`, `DrilledViewIsOwn`, `KeysPauseUnderLayers` | `[]CursorSettles`, `[]FreshDetail`, the action property `LayersPause` | `PageInv`: types, `CursorClamped`, `LayersInSync`, `DrilledIsShown` |
| `BrowserProofs!NotificationsSettle`, `NoClickIsDropped` | `[]ScreenSettles`, the action property `ClickNotDropped` | `NoteInv`: types, `DueLands`, `AddedThenResolved`, `EndedIsCleared` |
| `BrowserProofs!ThemeSettles` | `[]PaintedAsChosen` | `ThemeInv`: types, `StoredIsChosen`, `PreferenceIsRead`, `FollowsOs` |
| `BrowserProofs!ChoiceIsKept`, `EveryNavigationAnswered` | `[]ChoiceSurvives`, `[]AlwaysAnswered` | `ConfigInv`, `ShellInv` |
| `BrowserProofs!SuspectsFlagged`, `PreviewsMatch`, `FragmentsConsumedOnce` | `[]SuspectIsFlagged`, `[]PreviewsAgree`, `[]ConsumedOnceInOrder` | `ViewInv` (what is shown is the payload, normalised) and lemmas about normalisation, filtering, cutting and the pairing of lines |
| `DeliveryProofs!StreamReplays` | `[]StreamIsLogPrefix` | `ProtoInv`: `LogInv`, and `StreamInv` of each stream |
| `DeliveryProofs!GzipOnlyIfAsked` | `[]NoUnaskedGzip` | `StaticInv` |
| `DeliveryProofs!InstalledServes` | `[]InstallServes` | `NpmInv`: what each stop of `install.mjs` leaves |
| `DeliveryProofs!MergeIsCovered`, `GateRefusesNone` | the action property `MacCoversMerge`, `[]GateIsFair` | `MacInv`: types, `RunFollows`, `Heads` (with `OfPr`), `ReadyIsRun`, `LegsLeave`, `GreenIsCovered` |
| `WorkflowProofs!RefusalsAreFounded`, `OutcomesStand`, `ResolutionProgresses` | `[]RefusedForCause`, `[]OutcomeFollowsNeeds`, the action property `ResolutionEnds` | `GraphInv`: `StackOf` (with `FrameInv` of each frame: `ResultsStand`, `NoCycleIn`, `PathOfNeeds`), `RowsOf`, `PhaseInv` |
| `WorkflowProofs!IncludesCostNothing` | `[]CombinationsKept` | `MatrixInv`, with `RowsInv` |

Arguments.

- *Broker.* `ConnsDistinct` is what makes a new number fresh, so that registering a
  connection cannot give a pending request a PWA for an owner, and what keeps a
  decision frame out of a PWA's queue. `DisconnectScope` needs `OwnerRegistered`
  for one case only: a restart with exactly one daemon registered.
- *Mediation.* `InboxMirrors` speaks of the last word in a queue (`Tracks`), which
  is preserved by adding frames that do not mention the id (`ConcatSilent`),
  established by adding ones that say what is the case (`ConcatSays`), and
  preserved when the oldest frame is folded into the inbox (`TailTracks`). Each
  operation of the broker is then one of the first two. The hard case is a card
  that was removed before the broker knows of the decision: `AnswerSettles` shows
  that once that frame is read the queue is right without it, also when another
  decision came first. `SocketsOwned` says that a number belongs to one browser, so
  that reading from one queue disturbs no other page.
- *Chain.* `VerdictIntegrity` alone is not inductive: the verdict passes through
  the broker's queue, the daemon's channel and the local socket before it is
  printed. `Provenance` says for each of these stations that what it carries was
  decided for that request; it also says that only a plugin that is done has
  answered, which the refinement needs. `LinesInOrder` says that the daemon reads a
  create line only where it expects one, so that `HandleLocal` finds a verdict. In
  the refinement a terminal or web decision is `Decide`, a printed verdict
  `Settle`, a defer or an ask `StepAside`, a kill `Vanish`; every other step
  stutters.
- *Waiting.* `NeverStranded` speaks of requests in any phase and of frames in three
  queues. It can be lost only by a frame that ends a request early or by a
  disconnect that takes it. `NothingEndsEarly` excludes the first: a `decision` or
  `withdraw` on its way to the broker is about a task that is ending. `OneLink`
  excludes the second: without overlap the broker has at most the connection that
  the daemon dialled last. With overlap it fails, and `chain_overlap` is the
  counterexample.
- *Auto-start.* `FreeIsContested` is the heart: an address that is free after a
  spawn is about to be taken by some daemon, or everybody who had it has died. On
  Windows nothing removes a pipe, so that whoever listens is named by it; on Unix
  that step fails, as `start_race` shows.
- *Worker.* `StatusFollows` states the status of a page with its messages still to
  come (`Online`), as the last `open` with no `closed` behind it. An "online" that
  is coming is true, or a close event will correct it; `ClosesFirst`, the order in
  which one socket's events and its successor's arrive, makes the corrections
  come in order.
- *Page.* The key handlers read the frame `seen`, one behind `page`. `LayersInSync`
  says that the two may differ in cards and cursor but never in the layers on top,
  because whatever changes a layer flushes the effects in its own step.
- *Notifications.* Calls are answered in no order, so the argument counts them.
  `DueLands` says that a due notification has no lookup under way and is on the screen
  or has a show under way; `EndedIsCleared` that a request which has ended without being
  stranded has a resolved frame or a lookup to come, or has no show left and is off the
  screen.
- *View.* The number of fragments is arbitrary, so the statements go through
  `Selection`: `SelectionProofs` shows that `Pick` lists the kept elements in order
  (`PickIs`, `Listing`) and how that list follows when the sequence grows or shrinks (`PickAppend`, `PickSuffix`, `PickTail`).
- *Script.* What a line takes depends on what all the lines before it took. Every
  prefix of a script has such a pairing (`TakesExist`, by a least counterexample), so
  the recursive function is one (`ScriptLinesIs`). A line takes the first fragment
  that is left among those with the same words (`TakenIs`); what a later line takes
  was left to every earlier one, hence the order.
- *Stream.* `Carries` says that what a client has, followed by the events on its
  wire, is the log. A new event is appended to both sides. On a reconnect the
  client's last id is its length, because an event's `seq` is its position in the
  log, and `eventsSince` of that is the rest.
- *Install.* The walk up the directories is a recursive function; `WalkFinds` shows
  by well-founded minimality, not by induction over the data, that it stops at the
  nearest `node_modules` or workspace.
- *macOS.* A green head of an open pull request that is not a draft was covered by
  a Mac leg, is a release, or was last reported by a draft's run that was run again
  (`GreenIsCovered`). It survives a push because a new head has no context yet, a draft
  because going ready starts a run of its own (`ReadyIsRun`, `LegsLeave`), and a re-run
  because every run that was started is a snapshot of the pull request as it once was
  (`OfPr`): with this head's diff if it is of this head. `RunFollows` ties each stage of
  a run to what the classifier said of its payload, from which the gate's `expected`
  follows.

- *Resolver.* Two parts of `FrameInv` carry the argument. The decided jobs are closed
  under needs and no set of them has only members that others of it need
  (`NoCycleIn`): a job is decided when all its needs are, so a set with the new job in
  it has one that nothing decided needs, the new job itself. When every job is
  decided, no closed walk is left. The jobs on the path are different, undecided, and
  each is needed by the one before (`PathOfNeeds`): a need found on the path closes a
  walk, and by the pigeonhole principle neither the path nor the stack, whose workflows
  are different too, outgrows what there is, so ranks are never negative. Each
  stacked workflow is called by the one below it, so a call of one of them closes a walk
  of calls (`CallsGoRound`). A result keeps its value because `enabled` looks at needs only
  (`EnabledFrom`), which are all decided before it.
- *Matrix.* `RowsInv` says that rows and kept combinations correspond one to one by
  agreement on the axes. An include changes no axis of a row it matches
  (`GrownAgrees`), and it matches some row exactly if it agrees with some kept
  combination (`MatchesKept`), whatever earlier includes have added to the row.

Several expressions of the models are written as chains of `IF` or as formulas
where their source is an `if`/`else if` with conditions that overlap: the value of a
`CASE` whose arms overlap is unspecified, whatever arm TLC takes first.

The type invariants are part of the inductive ones and need no run. Only
model-checked:

- liveness under fairness, which is beyond the prover: `DeadCardsGo`, `WaitEnds`,
  `SpawnSucceeds`, `SessionSurvives`, `AssetsCatchUp`, `HealsOnline`,
  `DecisionReachesPoll`, `ContextReported`;
- what the scanner computes from its whole input, `TokensAreRuns`: that is an
  induction along the text, and text, contents of strings and joined punctuation are
  concatenations and folds of the library, which no theorem of it describes. The
  induction theorems take an operator as a parameter and cannot be instantiated. A
  least counterexample serves the walk of `install.mjs` and the pairing of lines,
  which are plain recursive functions; the scanner is not in that form;
- the violations, which are counterexamples.

## Not modelled, and why

- The text of a request: command, reason, fragments, labels, notification bodies,
  JSON escaping. No hop looks at it to decide what to do with the request.
- Waiting times: backoff delays, the heartbeat's period, the two seconds for an
  ack. A timer is an action that may happen at any time; what may be wrong is the
  order, not the duration.
- Logging, command-line help, TLS and the HTTP upgrade: no state of the
  protocol depends on them.
- Layout, icons, fonts and relative times of the page; the text of the setup
  screen. No state depends on them.
- In `Mediation` the service worker and its page are one process, so a message
  between them is neither lost nor late; `ServiceWorker` separates them, with one
  page and without individual requests.
- An address that makes the `WebSocket` constructor throw (`sw.js:103`), as a deep link
  may hold: the worker then has neither socket nor timer. `ServiceWorker` dials
  addresses that parse, and `KeepsTrying` speaks of those.
- A pull request whose base changes, and a force-push back to an earlier head. That
  queuing a run makes its head's context pending at once is assumed of GitHub.
- Several pages in front of one worker: messages go to every client, so a second
  page sees what the first sees from the moment it connects.
- `check-boundaries.mjs`, benchmarks, budgets, screenshots and the maintenance of
  runner pools: sequential scripts that read files and print, with no state that
  two actors share. The validation of workflow files on load and GitHub's
  expression language (a library) are taken as given in `WorkflowGraph`.
- The plugin's `static_decision`, `triage` and prompt text: pure functions of one
  payload; see the plan.

## Plan

Done: the approval chain (`Protocol` to `DaemonStart`) with its proofs; the browser
(`ServiceWorker`, `Notifications`, `ShellCache`, `Page`, `BrokerConfig`, `Theme`,
`ApprovalView`, `JsonHighlight`); packages, servers, CI policy and prototype. Next:

1. Safety lemmas on the way to `WaitEnds`; the scanner of `JsonHighlight` in a form that
   can be reasoned about.
2. The plugin's payload functions as operators over small records: early exits,
   static decisions, flagged fragments and the interpretation of a typed line.
3. `ServiceWorker` with requests, as a refinement of `Mediation`'s browser where
   nothing is dropped.
