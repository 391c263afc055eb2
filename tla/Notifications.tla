--------------------------- MODULE Notifications ----------------------------
(***************************************************************************)
(* The OS notifications the service worker raises for announced requests   *)
(* and clears for resolved ones (sw.js, second half).  Every call of the   *)
(* platform answers later, in no order: a show first waits for             *)
(* clients.matchAll and then for its icon and badge, and a lookup made     *)
(* after it may be answered before it.  A lookup and the close() of what   *)
(* it found are one step.  A notification is its tag, the request id.  The *)
(* broker and the operator are external.                                   *)
(***************************************************************************)
EXTENDS Naturals, Sequences, FiniteSets, SequencesExt

CONSTANTS
  Tags,          \* request ids
  MaxAnnounces,  \* bound: announcements by the broker
  MaxDrops,      \* bound: times the socket is lost
  MaxLooks       \* bound: times the operator shows or hides the app

VARIABLES
  pending,     \* the broker's pending requests
  open,        \* the worker's socket is open
  frames,      \* added and resolved frames on their way to the worker
  sent,        \* decisions on their way to the broker
  matches,     \* per id, the clients.matchAll calls not answered yet
  shows,       \* per id, the showNotification calls not answered yet
  clears,      \* per id, the getNotifications lookups not answered yet
  shown,       \* tags of the notifications on the screen
  permission,  \* Notification.permission
  visible,     \* a window of the app is in front
  due,         \* history: ids that were to be notified, not yet resolved or clicked
  stranded,    \* history: ids whose resolved frame was lost, or read before their show
               \* was answered
  counts       \* how often each bounded event has happened

brokerSide == <<pending, open, sent>>
history    == <<due, stranded, counts>>
under      == <<matches, shows, clears>>
noteVars   == <<brokerSide, frames, under, shown, permission, visible, history>>

NoteInit ==
  /\ pending = {} /\ open = TRUE /\ frames = <<>> /\ sent = {}
  /\ matches = [r \in Tags |-> 0] /\ shows = [r \in Tags |-> 0] /\ clears = [r \in Tags |-> 0]
  /\ shown = {}
  /\ permission = "default" /\ visible = TRUE
  /\ due = {} /\ stranded = {}
  /\ counts = [announces |-> 0, drops |-> 0, looks |-> 0]

Count(event, max) ==
  /\ counts[event] < max
  /\ counts' = [counts EXCEPT ![event] = @ + 1]

(* The broker tells the worker, if it is connected. *)
Emit(frame) == frames' = IF open THEN Append(frames, frame) ELSE frames

Announce(r) ==
  /\ r \notin pending
  /\ Count("announces", MaxAnnounces)
  /\ pending' = pending \cup {r}
  /\ Emit([type |-> "added", id |-> r])
  /\ UNCHANGED <<open, sent, under, shown, permission, visible, due, stranded>>

(* The request ends: decided here, in another tab or at the terminal. *)
Resolve(r) ==
  /\ r \in pending
  /\ pending' = pending \ {r}
  /\ sent' = sent \ {r}
  /\ Emit([type |-> "resolved", id |-> r])
  /\ stranded' = IF open THEN stranded ELSE stranded \cup {r}
  /\ UNCHANGED <<open, under, shown, permission, visible, due, counts>>

(* The socket is lost with what is in flight; a reconnect brings only a    *)
(* snapshot, which raises and clears nothing.                              *)
Drop ==
  /\ open
  /\ Count("drops", MaxDrops)
  /\ open' = FALSE
  /\ stranded' = stranded \cup {f.id : f \in {g \in ToSet(frames) : g.type = "resolved"}}
  /\ frames' = <<>> /\ sent' = {}
  /\ UNCHANGED <<pending, under, shown, permission, visible, due>>

Reconnect ==
  /\ ~open
  /\ open' = TRUE
  /\ UNCHANGED <<pending, frames, sent, under, shown, permission, visible, history>>

-----------------------------------------------------------------------------
(* An added frame: ask for the windows first. *)
ShowRequestNotification(r) ==
  /\ matches' = [matches EXCEPT ![r] = @ + 1]
  /\ UNCHANGED <<shows, clears, due, stranded>>

(* Mutant: a resolved request is looked up by nothing. *)
CloseRequestNotificationNot(r) ==
  /\ due' = due \ {r}
  /\ stranded' = IF matches[r] + shows[r] > 0 THEN stranded \cup {r} ELSE stranded \ {r}
  /\ UNCHANGED under

(* A resolved frame: look the notification up and close it.  A show that   *)
(* is still under way may land after that.                                 *)
CloseRequestNotification(r) ==
  /\ clears' = [clears EXCEPT ![r] = @ + 1]
  /\ due' = due \ {r}
  /\ stranded' = IF matches[r] + shows[r] > 0 THEN stranded \cup {r} ELSE stranded \ {r}
  /\ UNCHANGED <<matches, shows>>

OnMessage ==
  /\ frames # <<>>
  /\ frames' = Tail(frames)
  /\ LET f == Head(frames) IN
       IF f.type = "added" THEN ShowRequestNotification(f.id) ELSE CloseRequestNotification(f.id)
  /\ UNCHANGED <<brokerSide, shown, permission, visible, counts>>

(* matchAll answers: no notification if a window is in front.  What is     *)
(* shown is due, unless the lookup of an earlier announcement may close it.*)
OnMatch(r) ==
  /\ matches[r] > 0
  /\ matches' = [matches EXCEPT ![r] = @ - 1]
  /\ shows' = IF visible THEN shows ELSE [shows EXCEPT ![r] = @ + 1]
  /\ due' = IF ~visible /\ permission = "granted" /\ clears[r] = 0 THEN due \cup {r} ELSE due
  /\ UNCHANGED <<brokerSide, frames, clears, shown, permission, visible, stranded, counts>>

(* A show is answered: the tag makes it replace an earlier one; without    *)
(* permission it rejects.                                                  *)
OnShow(r) ==
  /\ shows[r] > 0
  /\ shows' = [shows EXCEPT ![r] = @ - 1]
  /\ shown' = IF permission = "granted" THEN shown \cup {r} ELSE shown
  /\ UNCHANGED <<brokerSide, frames, matches, clears, permission, visible, history>>

(* A lookup is answered, and what it found is closed. *)
OnLookup(r) ==
  /\ clears[r] > 0
  /\ clears' = [clears EXCEPT ![r] = @ - 1]
  /\ shown' = shown \ {r}
  /\ UNCHANGED <<brokerSide, frames, matches, shows, permission, visible, history>>

-----------------------------------------------------------------------------
(* sendDecision: only on an open socket. *)
SendDecision(r) == sent' = IF open THEN sent \cup {r} ELSE sent

(* focusClient: bring a window forward, or open one. *)
FocusClient == visible' = TRUE

(* Mutant: an action that cannot be sent is dropped. *)
NotificationClickDropping(r, action) ==
  /\ r \in shown
  /\ shown' = shown \ {r} /\ due' = due \ {r}
  /\ IF action # "body"
     THEN SendDecision(r) /\ UNCHANGED visible
     ELSE FocusClient /\ UNCHANGED sent
  /\ UNCHANGED <<pending, open, frames, under, permission, stranded, counts>>

(* A tap on the notification or on one of its two actions. *)
NotificationClick(r, action) ==
  /\ r \in shown
  /\ shown' = shown \ {r} /\ due' = due \ {r}
  /\ IF action # "body" /\ open
     THEN SendDecision(r) /\ UNCHANGED visible
     ELSE FocusClient /\ UNCHANGED sent
  /\ UNCHANGED <<pending, open, frames, under, permission, stranded, counts>>

(* The browser's prompt is answered, or put off. *)
RequestNotificationPermission(answer) ==
  /\ permission = "default"
  /\ permission' = answer
  /\ UNCHANGED <<brokerSide, frames, under, shown, visible, history>>

(* The operator brings the app to the front or leaves it. *)
Look ==
  /\ Count("looks", MaxLooks)
  /\ visible' = ~visible
  /\ UNCHANGED <<brokerSide, frames, under, shown, permission, due, stranded>>

NoteNext ==
  \/ OnMessage \/ Drop \/ Reconnect \/ Look
  \/ \E r \in Tags : Announce(r) \/ Resolve(r) \/ OnMatch(r) \/ OnShow(r) \/ OnLookup(r)
  \/ \E r \in Tags, action \in {"allow", "deny", "body"} : NotificationClick(r, action)
  \/ \E answer \in {"granted", "denied"} : RequestNotificationPermission(answer)

NoteSpec == NoteInit /\ [][NoteNext]_noteVars

-----------------------------------------------------------------------------
(* No frame and no call of the platform is under way. *)
Idle == frames = <<>> /\ \A r \in Tags : matches[r] = 0 /\ shows[r] = 0 /\ clears[r] = 0

(* "Surface a freshly announced request ... so it reaches the operator"    *)
(* (sw.js:119): once everything has been handled, a request that was to be *)
(* notified is on the screen until it is resolved or clicked, whatever     *)
(* other requests come and go, and what is on the screen is pending, but   *)
(* for a request whose resolved frame was lost with the socket, or was     *)
(* read while its show still waited, for the windows or for its images     *)
(* (sw.js:228-252).                                                        *)
ScreenSettles ==
  Idle => due \subseteq shown /\ shown \subseteq pending \cup stranded

(* "focuses the app instead of silently dropping the click" (sw.js:147):   *)
(* a notification of a pending request goes away with its decision on the  *)
(* way or with the app in front, or because a lookup found and closed it.  *)
ClickNotDropped ==
  [][\A r \in shown \ shown' : clears' = clears => r \in sent' \/ visible']_noteVars
=============================================================================
