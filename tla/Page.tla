-------------------------------- MODULE Page --------------------------------
(***************************************************************************)
(* The page: App.tsx with its inbox, detail, shortcut panel and keyboard   *)
(* hooks.  page is what React has committed.  Key handlers and listeners   *)
(* are replaced in passive effects, so between a commit and its effects    *)
(* the keyboard still works with the frame before, seen.  A click or a key *)
(* flushes the effects within its own step; a broker message, a media      *)
(* change or a pointer move leaves them for Flush, and any later update    *)
(* flushes them first.  Overlay and focus trap work on document focus.     *)
(***************************************************************************)
EXTENDS Integers, Sequences, SequencesExt, Selection

CONSTANTS
  Ids,    \* request ids
  Tools,  \* the ids of tool requests; the others are shell requests
  None    \* null

(* An id is a UUID: there are finitely many. *)
ASSUME PageAssumption == IsFiniteSet(Ids) /\ None \notin Ids /\ Tools \subseteq Ids

VARIABLES
  page,      \* committed state of App
  seen,      \* the frame whose effects have run
  focus,     \* document.activeElement: "body", "control" or "dialog"
  restore,   \* previouslyFocused of the open dialog
  expanded   \* id for which the detail shows a drilled-in view, or None

pageVars == <<page, seen, focus, restore, expanded>>

Frame == [requests : Seq(Ids), selectedId : Ids \cup {None}, focusedIndex : Nat,
          showShortcuts : BOOLEAN, isDesktop : BOOLEAN, reconfiguring : BOOLEAN]

PageInit ==
  /\ page = [requests |-> <<>>, selectedId |-> None, focusedIndex |-> 0,
             showShortcuts |-> FALSE, isDesktop |-> TRUE, reconfiguring |-> FALSE]
  /\ seen = page
  /\ focus = "body" /\ restore = "body" /\ expanded = None

-----------------------------------------------------------------------------
(* What a frame shows and which keys it binds. *)

Selected(p) == IF Contains(p.requests, p.selectedId) THEN p.selectedId ELSE None

Highlighted(p) ==
  IF p.focusedIndex < Len(p.requests) THEN p.requests[p.focusedIndex + 1] ELSE None

PanelUp(p) == p.isDesktop /\ p.showShortcuts

DetailUp(p) == ~p.reconfiguring /\ Selected(p) # None

InboxUp(p) == ~p.reconfiguring /\ Selected(p) = None /\ p.requests # <<>>

(* Mutant: the inbox keys ignore the panel. *)
InboxActiveUnderPanel(p) == p.isDesktop /\ InboxUp(p)

InboxActive(p) == p.isDesktop /\ ~p.showShortcuts /\ InboxUp(p)

DetailActive(p) == p.isDesktop /\ ~p.showShortcuts /\ DetailUp(p)

-----------------------------------------------------------------------------
(* The state transitions. *)

ApplyAdded(list, r) == IF Contains(list, r) THEN list ELSE Append(list, r)

ApplyResolved(list, r) == Pick(list, {i \in DOMAIN list : list[i] # r})

(* Mutant: a decision opens the next request. *)
DecideAdvancing(p, r) ==
  LET rest == ApplyResolved(p.requests, r) IN
  [p EXCEPT !.requests = rest,
            !.selectedId = IF @ = r /\ rest # <<>> THEN rest[1] ELSE None]

Decide(p, r) ==
  [p EXCEPT !.requests = ApplyResolved(@, r), !.selectedId = IF @ = r THEN None ELSE @]

(* Mutant: the cursor may stand behind the last card. *)
ClampLate(p) ==
  [p EXCEPT !.focusedIndex = IF @ > Len(p.requests) THEN Len(p.requests) ELSE @]

(* The effect that keeps the cursor in range. *)
Clamp(p) ==
  LET top == IF p.requests = <<>> THEN 0 ELSE Len(p.requests) - 1 IN
  [p EXCEPT !.focusedIndex = IF @ > top THEN top ELSE @]

(* The handlers bound by frame c, applied to the state p. *)
KeyEffect(k, p, c) ==
  CASE k = "?" /\ c.isDesktop /\ ~c.reconfiguring -> [p EXCEPT !.showShortcuts = ~@]
    [] k = "Escape" /\ PanelUp(c) -> [p EXCEPT !.showShortcuts = FALSE]
    [] k \in {"Escape", "b"} /\ DetailActive(c) -> [p EXCEPT !.selectedId = None]
    [] k \in {"a", "d"} /\ DetailActive(c) -> Decide(p, Selected(c))
    [] k \in {"a", "d"} /\ InboxActive(c) /\ Highlighted(c) # None -> Decide(p, Highlighted(c))
    [] k \in {"o", "Enter"} /\ InboxActive(c) /\ Highlighted(c) # None ->
         [p EXCEPT !.selectedId = Highlighted(c)]
    [] k = "ArrowDown" /\ InboxActive(c) ->
         [p EXCEPT !.focusedIndex = IF @ + 1 < Len(c.requests) THEN @ + 1 ELSE Len(c.requests) - 1]
    [] k = "ArrowUp" /\ InboxActive(c) -> [p EXCEPT !.focusedIndex = IF @ > 0 THEN @ - 1 ELSE 0]
    [] OTHER -> p

-----------------------------------------------------------------------------
(* Opening the overlay moves the focus into it, closing it moves it back;  *)
(* a detail that is unmounted forgets its drilled-in view.                 *)
Trap(p) ==
  /\ focus' = CASE PanelUp(p) /\ ~PanelUp(page) -> "dialog"
                [] ~PanelUp(p) /\ PanelUp(page) -> restore
                [] OTHER -> focus
  /\ restore' = IF PanelUp(p) /\ ~PanelUp(page) THEN focus ELSE restore
  /\ expanded' = IF DetailUp(p) /\ DetailUp(page) THEN expanded ELSE None

(* A click or a key: commit and effects in one step. *)
Discrete(p) ==
  /\ page' = Clamp(p) /\ seen' = page'
  /\ Trap(page')

(* Any other update: pending effects run first, those of this one later.   *)
Settled == Clamp(page)

Deferred(updated) ==
  /\ page' = updated
  /\ seen' = Settled
  /\ Trap(page')

Flush ==
  /\ seen # page
  /\ Discrete(page)

(* A keydown: on an interactive target only Escape passes. *)
Key(k) ==
  IF focus = "body" \/ k = "Escape"
  THEN Discrete(KeyEffect(k, page, seen))
  ELSE UNCHANGED <<page, seen, focus, restore, expanded>>

Snapshot(list) == Deferred([Settled EXCEPT !.requests = list])

Added(r) == Deferred([Settled EXCEPT !.requests = ApplyAdded(@, r)])

Resolved(r) == Deferred([Settled EXCEPT !.requests = ApplyResolved(@, r)])

(* useIsDesktop: the viewport or the pointer changes. *)
MediaChange == Deferred([Settled EXCEPT !.isDesktop = ~@])

(* The pointer enters a card. *)
Hover(i) ==
  /\ InboxUp(page) /\ ~PanelUp(page) /\ i < Len(page.requests)
  /\ Deferred([Settled EXCEPT !.focusedIndex = i])

(* Clicks reach what is on the screen; the overlay covers the rest. *)
Click(p) == Discrete(p)

(* Deny and Allow on a card, and in the detail's decision bar. *)
ClickCard(r) ==
  /\ ~PanelUp(page) /\ InboxUp(page) /\ Contains(page.requests, r)
  /\ Click(Decide(page, r))

ClickDecisionBar ==
  /\ ~PanelUp(page) /\ DetailUp(page)
  /\ Click(Decide(page, Selected(page)))

ClickOpen(r) ==
  /\ ~PanelUp(page) /\ InboxUp(page) /\ Contains(page.requests, r)
  /\ Click([page EXCEPT !.selectedId = r])

ClickBack ==
  /\ ~PanelUp(page) /\ DetailUp(page)
  /\ Click([page EXCEPT !.selectedId = None])

(* The Shortcuts hint, or Close in the panel. *)
ClickPanel ==
  /\ page.isDesktop /\ (page.showShortcuts \/ ~page.reconfiguring)
  /\ Click([page EXCEPT !.showShortcuts = ~@])

(* The Broker button, Cancel, and Connect, which empties the inbox. *)
ClickBroker ==
  /\ ~PanelUp(page)
  /\ Click([page EXCEPT !.reconfiguring = ~@])

ClickConnect ==
  /\ ~PanelUp(page) /\ page.reconfiguring
  /\ Click([page EXCEPT !.requests = <<>>, !.reconfiguring = FALSE])

(* The detail's own state changes; App's does not. *)
Drill(view) ==
  /\ page' = Clamp(page) /\ seen' = page'
  /\ expanded' = view
  /\ UNCHANGED <<focus, restore>>

(* A script line is opened or closed. *)
ClickLine ==
  /\ DetailUp(page) /\ ~PanelUp(page) /\ Selected(page) \notin Tools
  /\ Drill(IF expanded = None THEN Selected(page) ELSE None)

(* The JSON view (J) or the formatted view (F) of a tool call. *)
ToolView(json) ==
  /\ DetailUp(page) /\ ~PanelUp(page) /\ Selected(page) \in Tools
  /\ Drill(IF json THEN Selected(page) ELSE None)

(* Tab or a click moves the focus; the dialog holds Tab. *)
MoveFocus(f) ==
  /\ f \in {"body", IF PanelUp(page) THEN "dialog" ELSE "control"} \ {focus}
  /\ focus' = f
  /\ UNCHANGED <<page, seen, restore, expanded>>

Keys == {"?", "Escape", "b", "a", "d", "o", "Enter", "ArrowDown", "ArrowUp"}

PageNext ==
  \/ Flush \/ MediaChange \/ ClickBack \/ ClickPanel \/ ClickBroker \/ ClickConnect
  \/ ClickDecisionBar \/ ClickLine \/ \E json \in BOOLEAN : ToolView(json)
  \/ \E k \in Keys : Key(k)
  \/ \E r \in Ids : Added(r) \/ Resolved(r) \/ ClickCard(r) \/ ClickOpen(r)
  \/ \E S \in SUBSET Ids : \E list \in SetToSeqs(S) : Snapshot(list)
  \/ \E i \in 0..Len(page.requests) : Hover(i)
  \/ \E f \in {"body", "control", "dialog"} : MoveFocus(f)

PageSpec == PageInit /\ [][PageNext]_pageVars

-----------------------------------------------------------------------------
(* "Keep the inbox cursor in range as requests resolve or new ones arrive" *)
(* (App.tsx:186): in a frame whose effects have run, a card is highlighted *)
(* whenever there is one.                                                  *)
CursorSettles == seen = page /\ page.requests # <<>> => Highlighted(page) # None

(* "every other shortcut pauses" under the panel (App.tsx:219) and "the    *)
(* broker-setup screen owns the keyboard" (App.tsx:214): no key decides,   *)
(* opens, closes or moves anything behind one of them.                     *)
LayersPause ==
  [][PanelUp(page) \/ page.reconfiguring => \A k \in Keys : Key(k) =>
       /\ page'.requests = page.requests /\ page'.selectedId = page.selectedId
       /\ page'.focusedIndex \in {page.focusedIndex, Clamp(page).focusedIndex}]_pageVars

(* The detail has no key of its own, so React would keep its local state   *)
(* from one request to the next: a view that was drilled into belongs to   *)
(* the request that is shown (detail.tsx:117, 254).                        *)
FreshDetail == expanded # None => expanded = Selected(page)
=============================================================================
