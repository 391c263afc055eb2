---------------------------- MODULE BrowserProofs ----------------------------
(***************************************************************************)
(* The parts of the browser side, one section each: the page, the theme,   *)
(* the previews of a request, the notifications, the broker address and    *)
(* the offline shell.                                                      *)
(***************************************************************************)
EXTENDS Page, Theme, ApprovalView, Notifications, BrokerConfig, ShellCache,
        FiniteSetTheorems, WellFoundedInduction, SelectionProofs, TLAPS

(* The page, for any set of requests. *)
PageTypeOK == page \in Frame /\ seen \in Frame

(* A frame whose effects have run has its cursor in range. *)
CursorClamped == seen = page => Clamp(page) = page

(* What only clicks and keys change, no frame waits to see. *)
LayersInSync ==
  seen.showShortcuts = page.showShortcuts /\ seen.reconfiguring = page.reconfiguring

(* While a view is drilled into, the keys that are bound are the detail's. *)
DrilledIsShown ==
  expanded # None => DetailUp(seen) /\ DetailUp(page) /\ expanded = Selected(page)

(* The inductive invariant. *)
PageInv == PageTypeOK /\ CursorClamped /\ LayersInSync /\ DrilledIsShown

-----------------------------------------------------------------------------
(* What the operators of the page return. *)

LEMMA FrameFields ==
  ASSUME NEW p \in Frame
  PROVE  /\ p.requests \in Seq(Ids) /\ Len(p.requests) \in Nat
         /\ p.selectedId \in Ids \cup {None} /\ p.focusedIndex \in Nat
         /\ p.showShortcuts \in BOOLEAN /\ p.isDesktop \in BOOLEAN /\ p.reconfiguring \in BOOLEAN
         /\ p.requests # <<>> <=> Len(p.requests) > 0
BY DEF Frame

LEMMA SelectedIs ==
  ASSUME NEW p \in Frame
  PROVE  /\ Selected(p) \in Ids \cup {None}
         /\ Selected(p) # None => Selected(p) = p.selectedId
         /\ DetailUp(p) => Selected(p) \in Ids /\ Selected(p) = p.selectedId
         /\ InboxUp(p) => ~DetailUp(p)
BY FrameFields DEF Selected, DetailUp, InboxUp

LEMMA HighlightedIs ==
  ASSUME NEW p \in Frame
  PROVE  /\ Highlighted(p) \in Ids \cup {None}
         /\ p.focusedIndex < Len(p.requests) => Highlighted(p) \in Ids
<1>1. ASSUME p.focusedIndex < Len(p.requests) PROVE p.requests[p.focusedIndex + 1] \in Ids
  <2>1. p.focusedIndex + 1 \in 1 .. Len(p.requests)
    BY <1>1, FrameFields
  <2> QED BY <2>1, FrameFields
<1> QED BY <1>1 DEF Highlighted

(* The cursor effect brings a frame into range, and does so once. *)
LEMMA ClampIs ==
  ASSUME NEW p \in Frame
  PROVE  /\ Clamp(p) \in Frame /\ Clamp(Clamp(p)) = Clamp(p)
         /\ \E n \in Nat : Clamp(p) = [p EXCEPT !.focusedIndex = n]
         /\ p.requests # <<>> /\ Clamp(p) = p => p.focusedIndex < Len(p.requests)
<1> DEFINE top == IF p.requests = <<>> THEN 0 ELSE Len(p.requests) - 1
           n == IF p.focusedIndex > top THEN top ELSE p.focusedIndex
<1>1. top \in Nat /\ n \in Nat /\ ~(n > top) /\ (n = p.focusedIndex => ~(p.focusedIndex > top))
  BY FrameFields
<1>2. Clamp(p) = [p EXCEPT !.focusedIndex = n]
  BY DEF Clamp
<1> HIDE DEF n
<1>3. Clamp(p) \in Frame
  BY <1>1, <1>2 DEF Frame
<1>4. Clamp(p).requests = p.requests /\ Clamp(p).focusedIndex = n
  BY <1>2 DEF Frame
<1>5. Clamp(Clamp(p)) = [Clamp(p) EXCEPT !.focusedIndex = n]
  BY <1>1, <1>4 DEF Clamp
<1>6. Clamp(Clamp(p)) = Clamp(p)
  BY <1>2, <1>5 DEF Frame
<1>7. p.requests # <<>> /\ Clamp(p) = p => p.focusedIndex < Len(p.requests)
  BY <1>1, <1>4, FrameFields
<1> QED BY <1>1, <1>2, <1>3, <1>6, <1>7

LEMMA ListTypes ==
  ASSUME NEW list \in Seq(Ids), NEW r \in Ids
  PROVE  ApplyAdded(list, r) \in Seq(Ids) /\ ApplyResolved(list, r) \in Seq(Ids)
<1>1. ApplyAdded(list, r) \in Seq(Ids)
  BY DEF ApplyAdded
<1>2. {i \in DOMAIN list : list[i] # r} \in SUBSET DOMAIN list
  OBVIOUS
<1> HIDE DEF Frame
<1>3. ApplyResolved(list, r) \in Seq(Ids)
  BY <1>2, PickType DEF ApplyResolved
<1> QED BY <1>1, <1>3

LEMMA DecideIs ==
  ASSUME NEW p \in Frame, NEW r \in Ids
  PROVE  /\ Decide(p, r) \in Frame
         /\ \E q \in Seq(Ids), s \in {p.selectedId, None} :
              Decide(p, r) = [p EXCEPT !.requests = q, !.selectedId = s]
<1> DEFINE q == ApplyResolved(p.requests, r)
           s == IF p.selectedId = r THEN None ELSE p.selectedId
<1>1. q \in Seq(Ids)
  BY FrameFields, ListTypes
<1>2. Decide(p, r) = [p EXCEPT !.requests = q, !.selectedId = s]
  BY DEF Decide
<1>3. s \in {p.selectedId, None} /\ s \in Ids \cup {None}
  BY FrameFields
<1> HIDE DEF q, s
<1>4. Decide(p, r) \in Frame
  BY <1>1, <1>2, <1>3 DEF Frame
<1> QED BY <1>1, <1>2, <1>3, <1>4

(* What a key may do: in either layer above the inbox it moves nothing, and *)
(* under a detail it can only decide or close.                              *)
LEMMA KeyEffectIs ==
  ASSUME PageAssumption, NEW k \in Keys, NEW p \in Frame, NEW c \in Frame
  PROVE  /\ KeyEffect(k, p, c) \in Frame
         /\ KeyEffect(k, p, c).reconfiguring = p.reconfiguring
         /\ KeyEffect(k, p, c).isDesktop = p.isDesktop
         /\ DetailUp(c) => KeyEffect(k, p, c).selectedId \in {p.selectedId, None}
         /\ c.showShortcuts \/ c.reconfiguring =>
              /\ KeyEffect(k, p, c).requests = p.requests
              /\ KeyEffect(k, p, c).selectedId = p.selectedId
              /\ KeyEffect(k, p, c).focusedIndex = p.focusedIndex
<1> DEFINE Result(q) ==
      /\ q \in Frame /\ q.reconfiguring = p.reconfiguring /\ q.isDesktop = p.isDesktop
      /\ DetailUp(c) => q.selectedId \in {p.selectedId, None}
      /\ c.showShortcuts \/ c.reconfiguring =>
           q.requests = p.requests /\ q.selectedId = p.selectedId /\ q.focusedIndex = p.focusedIndex
<1>1. Result(p)
  BY FrameFields
<1>2. Result([p EXCEPT !.showShortcuts = ~@]) /\ Result([p EXCEPT !.showShortcuts = FALSE])
  BY FrameFields DEF Frame
<1>3. DetailActive(c) => Result([p EXCEPT !.selectedId = None])
  BY FrameFields DEF Frame, DetailActive, DetailUp
<1>4. ASSUME NEW r \in Ids, DetailActive(c) \/ InboxActive(c) PROVE Result(Decide(p, r))
  <2>1. ~(c.showShortcuts \/ c.reconfiguring)
    BY <1>4 DEF DetailActive, InboxActive, DetailUp, InboxUp
  <2>2. PICK q \in Seq(Ids), s \in {p.selectedId, None} :
          Decide(p, r) = [p EXCEPT !.requests = q, !.selectedId = s]
    BY DecideIs
  <2>3. Decide(p, r) \in Frame
    BY DecideIs
  <2>4. Decide(p, r).reconfiguring = p.reconfiguring /\ Decide(p, r).isDesktop = p.isDesktop
        /\ Decide(p, r).selectedId = s
    BY <2>2 DEF Frame
  <2> QED BY <2>1, <2>3, <2>4
<1>5. DetailActive(c) => Result(Decide(p, Selected(c)))
  <2>1. DetailActive(c) => Selected(c) \in Ids
    BY SelectedIs DEF DetailActive
  <2> HIDE DEF Result
  <2> QED BY <1>4, <2>1
<1>6. InboxActive(c) /\ Highlighted(c) # None => Result(Decide(p, Highlighted(c)))
  <2>1. Highlighted(c) # None => Highlighted(c) \in Ids
    BY HighlightedIs
  <2> HIDE DEF Result
  <2> QED BY <1>4, <2>1
<1>7. ASSUME InboxActive(c), NEW s \in Ids PROVE Result([p EXCEPT !.selectedId = s])
  <2>1. ~(c.showShortcuts \/ c.reconfiguring) /\ ~DetailUp(c)
    BY <1>7, SelectedIs DEF InboxActive, InboxUp
  <2>2. [p EXCEPT !.selectedId = s] \in Frame
    BY DEF Frame
  <2> QED BY <2>1, <2>2 DEF Frame
<1>8. InboxActive(c) /\ Highlighted(c) # None => Result([p EXCEPT !.selectedId = Highlighted(c)])
  <2>1. Highlighted(c) # None => Highlighted(c) \in Ids
    BY HighlightedIs
  <2> HIDE DEF Result
  <2> QED BY <1>7, <2>1
<1>9. ASSUME InboxActive(c), NEW n \in Nat PROVE Result([p EXCEPT !.focusedIndex = n])
  <2>1. ~(c.showShortcuts \/ c.reconfiguring) /\ ~DetailUp(c)
    BY <1>9, SelectedIs DEF InboxActive, InboxUp
  <2>2. [p EXCEPT !.focusedIndex = n] \in Frame
    BY DEF Frame
  <2> QED BY <2>1, <2>2 DEF Frame
<1>10. InboxActive(c) =>
         /\ Result([p EXCEPT !.focusedIndex =
                      IF @ + 1 < Len(c.requests) THEN @ + 1 ELSE Len(c.requests) - 1])
         /\ Result([p EXCEPT !.focusedIndex = IF @ > 0 THEN @ - 1 ELSE 0])
  <2> DEFINE down == IF p.focusedIndex + 1 < Len(c.requests)
                     THEN p.focusedIndex + 1 ELSE Len(c.requests) - 1
             back == IF p.focusedIndex > 0 THEN p.focusedIndex - 1 ELSE 0
  <2>1. InboxActive(c) => Len(c.requests) > 0
    BY FrameFields DEF InboxActive, InboxUp
  <2>2. InboxActive(c) => down \in Nat /\ back \in Nat
    BY <2>1, FrameFields
  <2> HIDE DEF Result, down, back
  <2>3. InboxActive(c) => Result([p EXCEPT !.focusedIndex = down])
                          /\ Result([p EXCEPT !.focusedIndex = back])
    BY <1>9, <2>2
  <2> QED BY <2>3 DEF down, back
<1>11. Result(KeyEffect(k, p, c))
  <2> HIDE DEF Result
  <2> QED BY <1>1, <1>2, <1>3, <1>5, <1>6, <1>8, <1>10 DEF KeyEffect
<1> QED BY <1>11

-----------------------------------------------------------------------------
(* The two ways in which a step commits. *)

(* A view that was open stays open only on the request it was opened for. *)
LEMMA DiscreteKeeps ==
  ASSUME PageInv, NEW p \in Frame, Discrete(p),
         expanded # None /\ DetailUp(p) => p.selectedId = page.selectedId
  PROVE  PageInv'
<1>1. /\ Clamp(p) \in Frame /\ Clamp(Clamp(p)) = Clamp(p)
      /\ \E n \in Nat : Clamp(p) = [p EXCEPT !.focusedIndex = n]
  BY ClampIs
<1>2. Selected(Clamp(p)) = Selected(p) /\ (DetailUp(Clamp(p)) <=> DetailUp(p))
  BY <1>1 DEF Selected, DetailUp, Frame
<1>3. page' = Clamp(p) /\ seen' = Clamp(p)
  BY DEF Discrete
<1>4. PageTypeOK' /\ CursorClamped' /\ LayersInSync'
  BY <1>1, <1>3 DEF PageTypeOK, CursorClamped, LayersInSync
<1>5. expanded' # None => DetailUp(p) /\ DetailUp(page) /\ expanded' = expanded
  BY <1>2, <1>3 DEF Discrete, Trap
<1>6. expanded' # None => Selected(p) = Selected(page)
  BY <1>5, SelectedIs DEF PageInv, PageTypeOK
<1>7. DrilledIsShown'
  BY <1>2, <1>3, <1>5, <1>6 DEF DrilledIsShown, PageInv
<1> QED BY <1>4, <1>7 DEF PageInv

LEMMA DeferredKeeps ==
  ASSUME PageInv, NEW p \in Frame, Deferred(p),
         p.showShortcuts = page.showShortcuts /\ p.reconfiguring = page.reconfiguring
           /\ p.selectedId = page.selectedId
  PROVE  PageInv'
<1>1. /\ Clamp(page) \in Frame /\ Clamp(Clamp(page)) = Clamp(page)
      /\ \E n \in Nat : Clamp(page) = [page EXCEPT !.focusedIndex = n]
  BY ClampIs DEF PageInv, PageTypeOK
<1>2. Selected(Clamp(page)) = Selected(page) /\ (DetailUp(Clamp(page)) <=> DetailUp(page))
      /\ Clamp(page).showShortcuts = page.showShortcuts
      /\ Clamp(page).reconfiguring = page.reconfiguring
  BY <1>1 DEF Selected, DetailUp, Frame, PageInv, PageTypeOK
<1>3. page' = p /\ seen' = Clamp(page)
  BY DEF Deferred, Settled
<1>4. PageTypeOK' /\ CursorClamped' /\ LayersInSync'
  BY <1>1, <1>2, <1>3 DEF PageTypeOK, CursorClamped, LayersInSync
<1>5. expanded' # None => DetailUp(p) /\ DetailUp(page) /\ expanded' = expanded
  BY <1>3 DEF Deferred, Trap
<1>6. expanded' # None => Selected(p) = Selected(page)
  BY <1>5, SelectedIs DEF PageInv, PageTypeOK
<1>7. DrilledIsShown'
  BY <1>2, <1>3, <1>5, <1>6 DEF DrilledIsShown, PageInv
<1> QED BY <1>4, <1>7 DEF PageInv

(* A view is drilled into in the detail that is shown. *)
LEMMA DrillKeeps ==
  ASSUME PageInv, DetailUp(page), NEW view \in {None, Selected(page)}, Drill(view)
  PROVE  PageInv'
<1>1. /\ Clamp(page) \in Frame /\ Clamp(Clamp(page)) = Clamp(page)
      /\ \E n \in Nat : Clamp(page) = [page EXCEPT !.focusedIndex = n]
  BY ClampIs DEF PageInv, PageTypeOK
<1>2. Selected(Clamp(page)) = Selected(page) /\ (DetailUp(Clamp(page)) <=> DetailUp(page))
  BY <1>1 DEF Selected, DetailUp, Frame, PageInv, PageTypeOK
<1>3. page' = Clamp(page) /\ seen' = Clamp(page) /\ expanded' = view
  BY DEF Drill
<1> QED BY <1>1, <1>2, <1>3
        DEF PageInv, PageTypeOK, CursorClamped, LayersInSync, DrilledIsShown

(* The steps of the page, one by one. *)
LEMMA PageInvNext ==
  ASSUME PageAssumption, PageInv, [PageNext]_pageVars
  PROVE  PageInv'
<1>1. page \in Frame /\ seen \in Frame
  BY DEF PageInv, PageTypeOK
<1>2. Selected(page) \in Ids \cup {None} /\ (DetailUp(page) => Selected(page) \in Ids)
  BY <1>1, SelectedIs
<1>3. expanded # None => DetailUp(page) /\ DetailUp(seen) /\ ~page.reconfiguring
  BY DEF PageInv, DrilledIsShown, DetailUp
<1>4. /\ Settled \in Frame /\ Settled.showShortcuts = page.showShortcuts
      /\ Settled.reconfiguring = page.reconfiguring /\ Settled.selectedId = page.selectedId
  <2>1. \E n \in Nat : Settled = [page EXCEPT !.focusedIndex = n]
    BY <1>1, ClampIs DEF Settled
  <2> QED BY <1>1, <2>1 DEF Frame
<1>5. CASE UNCHANGED pageVars
  BY <1>5 DEF pageVars, PageInv, PageTypeOK, CursorClamped, LayersInSync, DrilledIsShown
<1>6. CASE Flush
  BY <1>1, <1>6, DiscreteKeeps DEF Flush
<1>7. CASE \E k \in Keys : Key(k)
  <2>1. PICK k \in Keys : Key(k)
    BY <1>7
  <2>2. CASE UNCHANGED <<page, seen, focus, restore, expanded>>
    BY <1>5, <2>2 DEF pageVars
  <2>3. CASE Discrete(KeyEffect(k, page, seen))
    <3> DEFINE p == KeyEffect(k, page, seen)
    <3>1. p \in Frame /\ (DetailUp(seen) => p.selectedId \in {page.selectedId, None})
      BY <1>1, KeyEffectIs
    <3> HIDE DEF p
    <3>2. DetailUp(p) => p.selectedId # None
      BY <3>1, SelectedIs DEF DetailUp
    <3> QED BY <1>3, <2>3, <3>1, <3>2, DiscreteKeeps DEF p
  <2> QED BY <2>1, <2>2, <2>3 DEF Key
<1>8. ASSUME NEW q \in Seq(Ids), Deferred([Settled EXCEPT !.requests = q]) PROVE PageInv'
  <2> DEFINE p == [Settled EXCEPT !.requests = q]
  <2>1. /\ p \in Frame /\ p.showShortcuts = page.showShortcuts
        /\ p.reconfiguring = page.reconfiguring /\ p.selectedId = page.selectedId
    BY <1>4 DEF Frame
  <2> HIDE DEF p
  <2> QED BY <1>8, <2>1, DeferredKeeps DEF p
<1>9. CASE \E r \in Ids : Added(r) \/ Resolved(r)
  <2>1. PICK r \in Ids : Added(r) \/ Resolved(r)
    BY <1>9
  <2>2. ApplyAdded(Settled.requests, r) \in Seq(Ids) /\ ApplyResolved(Settled.requests, r) \in Seq(Ids)
    BY <1>4, FrameFields, ListTypes
  <2> QED BY <1>8, <2>1, <2>2 DEF Added, Resolved
<1>10. CASE \E S \in SUBSET Ids : \E list \in SetToSeqs(S) : Snapshot(list)
  <2>1. PICK S \in SUBSET Ids : \E list \in SetToSeqs(S) : Snapshot(list)
    BY <1>10
  <2>2. PICK list \in SetToSeqs(S) : Snapshot(list)
    BY <2>1
  <2>3. Cardinality(S) \in Nat
    BY FS_Subset, FS_CardinalityType DEF PageAssumption
  <2>4. list \in Seq(Ids)
    BY <2>3 DEF SetToSeqs
  <2> QED BY <1>8, <2>2, <2>4 DEF Snapshot
<1>11. CASE MediaChange
  <2> DEFINE p == [Settled EXCEPT !.isDesktop = ~@]
  <2>1. /\ p \in Frame /\ p.showShortcuts = page.showShortcuts
        /\ p.reconfiguring = page.reconfiguring /\ p.selectedId = page.selectedId
    BY <1>4, FrameFields DEF Frame
  <2> HIDE DEF p
  <2>2. Deferred(p)
    BY <1>11 DEF MediaChange, p
  <2> QED BY <2>1, <2>2, DeferredKeeps
<1>12. CASE \E i \in 0 .. Len(page.requests) : Hover(i)
  <2>1. PICK i \in 0 .. Len(page.requests) : Hover(i)
    BY <1>12
  <2> DEFINE p == [Settled EXCEPT !.focusedIndex = i]
  <2>2. /\ p \in Frame /\ p.showShortcuts = page.showShortcuts
        /\ p.reconfiguring = page.reconfiguring /\ p.selectedId = page.selectedId
    BY <1>4 DEF Frame
  <2> HIDE DEF p
  <2>3. Deferred(p)
    BY <2>1 DEF Hover, p
  <2> QED BY <2>2, <2>3, DeferredKeeps
<1>13. ASSUME NEW r \in Ids, Click(Decide(page, r)) PROVE PageInv'
  <2>1. Decide(page, r) \in Frame /\ Decide(page, r).selectedId \in {page.selectedId, None}
    <3>1. PICK q \in Seq(Ids), s \in {page.selectedId, None} :
            Decide(page, r) = [page EXCEPT !.requests = q, !.selectedId = s]
      BY <1>1, DecideIs
    <3>2. Decide(page, r) \in Frame
      BY <1>1, DecideIs
    <3>3. Decide(page, r).selectedId = s
      BY <1>1, <3>1 DEF Frame
    <3> QED BY <3>2, <3>3
  <2>2. DetailUp(Decide(page, r)) => Decide(page, r).selectedId # None
    BY <2>1, SelectedIs DEF DetailUp
  <2> QED BY <1>13, <2>1, <2>2, DiscreteKeeps DEF Click
<1>14. CASE ClickDecisionBar \/ \E r \in Ids : ClickCard(r)
  BY <1>2, <1>13, <1>14 DEF ClickDecisionBar, ClickCard
<1>15. CASE \E r \in Ids : ClickOpen(r)
  <2>1. PICK r \in Ids : ClickOpen(r)
    BY <1>15
  <2>2. [page EXCEPT !.selectedId = r] \in Frame
    BY <1>1 DEF Frame
  <2>3. expanded = None
    BY <1>1, <1>3, <2>1, SelectedIs DEF ClickOpen
  <2> QED BY <2>1, <2>2, <2>3, DiscreteKeeps DEF ClickOpen, Click
<1>16. CASE ClickBack
  <2> DEFINE p == [page EXCEPT !.selectedId = None]
  <2>1. p \in Frame /\ p.selectedId = None
    BY <1>1 DEF Frame
  <2>2. Discrete(p)
    BY <1>16 DEF ClickBack, Click
  <2> HIDE DEF p
  <2>3. ~DetailUp(p)
    BY <2>1, SelectedIs DEF DetailUp
  <2> QED BY <2>1, <2>2, <2>3, DiscreteKeeps
<1>17. CASE ClickPanel \/ ClickBroker
  <2> DEFINE p == [page EXCEPT !.showShortcuts = ~@]
             q == [page EXCEPT !.reconfiguring = ~@]
  <2>1. /\ p \in Frame /\ p.selectedId = page.selectedId
        /\ q \in Frame /\ q.selectedId = page.selectedId
    BY <1>1, FrameFields DEF Frame
  <2>2. Discrete(p) \/ Discrete(q)
    BY <1>17 DEF ClickPanel, ClickBroker, Click
  <2> HIDE DEF p, q
  <2> QED BY <2>1, <2>2, DiscreteKeeps
<1>18. CASE ClickConnect
  <2> DEFINE none == <<>>
             p == [page EXCEPT !.requests = none, !.reconfiguring = FALSE]
  <2>1. none \in Seq(Ids)
    OBVIOUS
  <2>2. Discrete(p)
    BY <1>18 DEF ClickConnect, Click
  <2> HIDE DEF none
  <2>3. p \in Frame /\ p.selectedId = page.selectedId
    BY <1>1, <2>1 DEF Frame
  <2> HIDE DEF p
  <2> QED BY <2>2, <2>3, DiscreteKeeps
<1>19. CASE ClickLine \/ \E json \in BOOLEAN : ToolView(json)
  <2>1. DetailUp(page) /\ (Drill(None) \/ Drill(Selected(page)))
    BY <1>19 DEF ClickLine, ToolView
  <2> QED BY <2>1, DrillKeeps
<1>20. CASE \E f \in {"body", "control", "dialog"} : MoveFocus(f)
  BY <1>20 DEF MoveFocus, PageInv, PageTypeOK, CursorClamped, LayersInSync, DrilledIsShown
<1> QED BY <1>5, <1>6, <1>7, <1>9, <1>10, <1>11, <1>12, <1>14, <1>15, <1>16, <1>17, <1>18,
           <1>19, <1>20 DEF PageNext

-----------------------------------------------------------------------------
(* App.tsx: in every reachable state the committed frame and the frame that *)
(* the handlers were built from agree on everything but broker data.        *)
THEOREM PageInvHolds == PageSpec => []PageInv
<1> USE PageAssumption
<1>1. PageInit => PageInv
  <2> SUFFICES ASSUME PageInit PROVE PageInv
    OBVIOUS
  <2>1. page \in Frame /\ seen = page
    BY DEF PageInit, Frame
  <2>2. Clamp(page) = [page EXCEPT !.focusedIndex = 0] /\ page.focusedIndex = 0
    BY DEF PageInit, Clamp
  <2>3. Clamp(page) = page
    BY <2>1, <2>2 DEF Frame
  <2> QED BY <2>1, <2>3
          DEF PageInit, PageInv, PageTypeOK, CursorClamped, LayersInSync, DrilledIsShown
<1>2. PageInv /\ [PageNext]_pageVars => PageInv'
  BY PageInvNext
<1> QED BY <1>1, <1>2, PTL DEF PageSpec

(* "Keep the inbox cursor in range as requests resolve or new ones arrive" *)
(* (App.tsx:186): in a frame whose effects have run a card is highlighted  *)
(* whenever there is one, however many requests come and go.               *)
THEOREM CursorInRange == PageSpec => []CursorSettles
<1> USE PageAssumption
<1>1. PageInv => CursorSettles
  BY ClampIs, HighlightedIs DEF PageInv, PageTypeOK, CursorClamped, CursorSettles, PageAssumption
<1> QED BY <1>1, PageInvHolds, PTL

(* A view that was drilled into belongs to the request that is shown       *)
(* (detail.tsx:117, 254): no order of frames, keys and clicks shows it for *)
(* another one.                                                            *)
THEOREM DrilledViewIsOwn == PageSpec => []FreshDetail
<1> USE PageAssumption
<1>1. PageInv => FreshDetail
  BY DEF PageInv, DrilledIsShown, FreshDetail
<1> QED BY <1>1, PageInvHolds, PTL

(* "Every other shortcut pauses" under the panel and the broker-setup      *)
(* screen "owns the keyboard" (App.tsx:214, 219), although the handlers    *)
(* run on the frame before the one that is on the screen.                  *)
THEOREM KeysPauseUnderLayers == PageSpec => LayersPause
<1> USE PageAssumption
<1> DEFINE Paused ==
      PanelUp(page) \/ page.reconfiguring => \A k \in Keys : Key(k) =>
        /\ page'.requests = page.requests /\ page'.selectedId = page.selectedId
        /\ page'.focusedIndex \in {page.focusedIndex, Clamp(page).focusedIndex}
<1>1. PageInv => Paused
  <2> SUFFICES ASSUME PageInv, PanelUp(page) \/ page.reconfiguring, NEW k \in Keys, Key(k)
               PROVE  /\ page'.requests = page.requests /\ page'.selectedId = page.selectedId
                      /\ page'.focusedIndex \in {page.focusedIndex, Clamp(page).focusedIndex}
    OBVIOUS
  <2>1. page \in Frame /\ seen \in Frame
    BY DEF PageInv, PageTypeOK
  <2>2. seen.showShortcuts \/ seen.reconfiguring
    BY DEF PageInv, LayersInSync, PanelUp
  <2> DEFINE p == KeyEffect(k, page, seen)
  <2>3. /\ p \in Frame /\ p.requests = page.requests /\ p.selectedId = page.selectedId
        /\ p.focusedIndex = page.focusedIndex
    BY <2>1, <2>2, KeyEffectIs
  <2> HIDE DEF p
  <2>4. CASE UNCHANGED <<page, seen, focus, restore, expanded>>
    BY <2>4
  <2>5. CASE Discrete(p)
    <3>1. Clamp(p).requests = p.requests /\ Clamp(p).selectedId = p.selectedId
      BY <2>3, ClampIs DEF Frame
    <3>2. Clamp(p).focusedIndex = Clamp(page).focusedIndex
      BY <2>1, <2>3 DEF Clamp, Frame
    <3> QED BY <2>3, <2>5, <3>1, <3>2 DEF Discrete
  <2> QED BY <2>4, <2>5 DEF Key, p
<1>2. PageInv => [Paused]_pageVars
  BY <1>1
<1> QED BY <1>2, PageInvHolds, PTL DEF LayersPause

-----------------------------------------------------------------------------
(* The theme.  Until the preference that was read is adopted, the page is  *)
(* painted as the OS wants it and listens for a change.                    *)
ThemeTypeOK ==
  /\ os \in {"light", "dark"} /\ preference \in Preferences
  /\ listening \in BOOLEAN /\ event \in BOOLEAN
  /\ stage \in {"blank", "script", "mounted", "adopted", "crashed"}

StoredIsChosen == storage = "works" => chosen = stored

PreferenceIsRead ==
  /\ stage = "mounted" => preference = ReadStoredPreference
  /\ stage = "adopted" /\ storage = "works" /\ stored \in Preferences => preference = stored

(* Whoever follows the OS listens, and is behind only by an event. *)
FollowsOs ==
  /\ stage \in {"blank", "script"} => ~listening
  /\ stage = "mounted" => listening
  /\ stage = "adopted" => listening = (preference = "system")
  /\ stage \in {"mounted", "adopted"} /\ listening /\ ~event => painted = os
  /\ stage \in {"mounted", "adopted"} => resolved = painted
  /\ stage = "adopted" /\ preference # "system" => painted = preference

(* The inductive invariant. *)
ThemeInv == ThemeTypeOK /\ StoredIsChosen /\ PreferenceIsRead /\ FollowsOs

LEMMA ThemeInvNext ==
  ASSUME ThemeInv, [ThemeNext]_themeVars
  PROVE  ThemeInv'
<1> USE DEF ThemeInv, ThemeTypeOK, StoredIsChosen, PreferenceIsRead, FollowsOs,
            ReadStoredPreference, ResolveTheme, Preferences
<1>1. CASE ThemeBootstrap
  BY <1>1 DEF ThemeBootstrap
<1>2. CASE Mount
  BY <1>2 DEF Mount
<1>3. CASE Adopt
  BY <1>3 DEF Adopt, Apply
<1>4. CASE Toggle
  <2>1. preference' \in Preferences
    BY <1>4 DEF Toggle, SetPreference, NextPreference
  <2> QED BY <1>4, <2>1 DEF Toggle, SetPreference, Apply
<1>5. CASE OsChange
  BY <1>5 DEF OsChange
<1>6. CASE OnChange
  BY <1>6 DEF OnChange, Apply
<1>7. CASE Reload
  BY <1>7 DEF Reload
<1>8. CASE UNCHANGED themeVars
  BY <1>8 DEF themeVars
<1> QED BY <1>1, <1>2, <1>3, <1>4, <1>5, <1>6, <1>7, <1>8 DEF ThemeNext

(* "system follows the OS setting ...; light/dark pin the choice"          *)
(* (theme.tsx:10, 57): with no event under way the page is painted as the  *)
(* preference says, and where storage works that is the choice made last,  *)
(* after any sequence of toggles, OS changes and reloads.                  *)
THEOREM ThemeSettles == ThemeSpec => []PaintedAsChosen
<1>1. ThemeInit => ThemeInv
  BY DEF ThemeInit, ThemeInv, ThemeTypeOK, StoredIsChosen, PreferenceIsRead, FollowsOs,
         Preferences
<1>2. ThemeInv /\ [ThemeNext]_themeVars => ThemeInv'
  BY ThemeInvNext
<1>3. ThemeInv => PaintedAsChosen
  BY DEF ThemeInv, ThemeTypeOK, StoredIsChosen, PreferenceIsRead, FollowsOs, PaintedAsChosen,
         ResolveTheme, Preferences
<1> QED BY <1>1, <1>2, <1>3, PTL DEF ThemeSpec

-----------------------------------------------------------------------------
(* The offline shell.  Nothing is taken out of the cache, and what goes in *)
(* is a response.                                                          *)
ShellInv ==
  /\ deployed \in Nat \ {0}
  /\ DOMAIN cache = Urls
  /\ phase # "none" => cache["/offline"] # Absent

LEMMA ShellInvNext ==
  ASSUME ShellAssumption, ShellInv, [ShellNext]_shellVars
  PROVE  ShellInv'
<1> USE DEF ShellInv
<1>1. "/offline" \in Urls /\ "/offline" \in Precached
  BY DEF ShellAssumption, Urls
<1>2. CASE Install
  <2>1. Response # Absent
    BY DEF Response, Absent
  <2> QED BY <1>1, <1>2, <2>1 DEF Install
<1>3. CASE Activate
  BY <1>3 DEF Activate
<1>4. CASE Deploy
  BY <1>4 DEF Deploy
<1>5. CASE NetworkChange
  BY <1>5 DEF NetworkChange
<1>6. CASE \E u \in Pages : Navigate(u)
  BY <1>6 DEF Navigate
<1>7. CASE \E u \in Assets : FetchAsset(u)
  BY <1>7 DEF FetchAsset
<1>8. CASE \E u \in Urls, response \in Responses : Put(u, response)
  <2>1. PICK u \in Urls, response \in Responses : Put(u, response)
    BY <1>8
  <2>2. response # Absent
    BY DEF Responses, Absent
  <2> QED BY <1>1, <2>1, <2>2 DEF Put
<1>9. CASE UNCHANGED shellVars
  BY <1>9 DEF shellVars
<1> QED BY <1>2, <1>3, <1>4, <1>5, <1>6, <1>7, <1>8, <1>9 DEF ShellNext

(* The worker must "fall back to it (or the offline page) when the network *)
(* is unavailable" (sw.js:33): whatever is deployed, fails or is put late,  *)
(* an active worker has an answer to every navigation.                     *)
THEOREM EveryNavigationAnswered == ShellSpec => []AlwaysAnswered
<1> USE ShellAssumption
<1>1. ShellInit => ShellInv
  BY DEF ShellInit, ShellInv, Empty
<1>2. ShellInv /\ [ShellNext]_shellVars => ShellInv'
  BY ShellInvNext
<1>3. ShellInv => AlwaysAnswered
  BY DEF ShellInv, AlwaysAnswered, OfflineAnswer, Match
<1> QED BY <1>1, <1>2, <1>3, PTL DEF ShellSpec

-----------------------------------------------------------------------------
(* The broker address.  Where storage works the entry is the choice made    *)
(* last, and a booted page has it; the form holds a text whenever it is up. *)
Chosen == {t \in Text : t.pad = FALSE} \cup {Null}

ConfigTypeOK ==
  /\ saved \in Chosen /\ picked \in Chosen /\ base \in Text \cup {Null}
  /\ query \in Texts \cup {Null}

ConfigInv ==
  /\ ConfigTypeOK
  /\ persists => saved = picked
  /\ bootState = "ready" => base # Null
  /\ reconfiguring => bootState = "ready"
  /\ FormUp(bootState, reconfiguring) => value \in Texts
  /\ bootState \in {"ready", "needs-broker"} /\ persists =>
       base = IF picked = Null THEN Plain(Default) ELSE picked

(* A text that is kept is trimmed. *)
LEMMA TrimIs ==
  ASSUME ConfigAssumption, NEW t \in Texts, Trim(t) # Blank
  PROVE  Trim(t) \in Text /\ Trim(t) \in Chosen /\ Trim(t) # Null /\ Trim(Trim(t)) = Trim(t)
BY DEF ConfigAssumption, Trim, Texts, Text, Chosen

LEMMA PlainIs ==
  ASSUME ConfigAssumption
  PROVE  Plain(Default) \in Text \cup {Null}
BY DEF ConfigAssumption, Plain, Text

LEMMA ConfigInvNext ==
  ASSUME ConfigAssumption, ConfigInv, [ConfigNext]_configVars
  PROVE  ConfigInv'
<1> USE DEF ConfigInv, ConfigTypeOK, FormUp
<1>1. ASSUME NEW q \in Texts \cup {Null}, Open(q) PROVE ConfigInv'
  BY <1>1, PlainIs DEF Open, deviceVars
<1>2. CASE ReloadPage
  BY <1>1, <1>2 DEF ReloadPage
<1>3. CASE Boot
  <2>1. CASE query # Null /\ Trim(query) # Blank
    <3>1. Trim(query) \in Text /\ Trim(query) \in Chosen /\ Trim(query) # Null
      BY <2>1, TrimIs
    <3>2. base' = Trim(query) /\ picked' = Trim(query)
          /\ saved' = IF persists THEN Trim(query) ELSE saved
      BY <1>3, <2>1 DEF Boot, ResolveBrokerBase, SetStoredBrokerBase
    <3> QED BY <1>3, <3>1, <3>2 DEF Boot
  <2>2. CASE ~(query # Null /\ Trim(query) # Blank)
    <3>1. saved' = saved /\ picked' = picked
          /\ base' = IF ReadStored # Null THEN ReadStored ELSE Plain(Default)
      BY <1>3, <2>2 DEF Boot, ResolveBrokerBase
    <3>2. base' \in Text \cup {Null}
      BY <3>1, PlainIs DEF ReadStored, Chosen
    <3>3. Blank \in Texts
      BY DEF Texts
    <3> QED BY <1>3, <3>1, <3>2, <3>3 DEF Boot, ReadStored
  <2> QED BY <2>1, <2>2
<1>4. CASE BootWithoutWorker
  BY <1>4 DEF BootWithoutWorker, deviceVars
<1>5. CASE Change
  <2>1. base \in Texts
    BY <1>5 DEF Change, Texts
  <2> QED BY <1>5, <2>1 DEF Change, deviceVars
<1>6. CASE Cancel
  BY <1>6 DEF Cancel, deviceVars
<1>7. CASE \E t \in Texts : Type(t)
  BY <1>7 DEF Type, deviceVars
<1>8. CASE Submit
  <2>1. value \in Texts /\ Trim(value) # Blank
    BY <1>8 DEF Submit, IsValidBrokerBase
  <2>2. Trim(value) \in Text /\ Trim(value) \in Chosen /\ Trim(value) # Null
        /\ Trim(Trim(value)) = Trim(value)
    BY <2>1, TrimIs
  <2>3. saved' = IF persists THEN Trim(value) ELSE saved
    BY <1>8, <2>1, <2>2 DEF Submit, SetStoredBrokerBase
  <2> QED BY <1>8, <2>2, <2>3 DEF Submit
<1>9. CASE UNCHANGED configVars
  BY <1>9 DEF configVars, deviceVars
<1> QED BY <1>1, <1>2, <1>3, <1>4, <1>5, <1>6, <1>7, <1>8, <1>9 DEF ConfigNext

(* "Also persisted so reloads (...) keep using it" (broker-config.ts:6): on a *)
(* device whose storage works every session dials the address chosen last,  *)
(* by link or by form, however often the app is opened.                     *)
THEOREM ChoiceIsKept == ConfigSpec => []ChoiceSurvives
<1> USE ConfigAssumption
<1>1. ConfigInit => ConfigInv
  BY DEF ConfigInit, ConfigInv, ConfigTypeOK, FormUp, Chosen
<1>2. ConfigInv /\ [ConfigNext]_configVars => ConfigInv'
  BY ConfigInvNext
<1>3. ConfigInv => ChoiceSurvives
  <2> SUFFICES ASSUME ConfigInv, bootState \in {"ready", "needs-broker"}, persists, picked # Null
               PROVE  base # Null /\ BrokerWsUrl(base) = Plain(picked.name)
    BY DEF ChoiceSurvives, ConfigInv
  <2>1. base = picked /\ picked \in Text /\ picked.pad = FALSE
    BY DEF ConfigInv, ConfigTypeOK, Chosen
  <2>2. picked.name \in Names \cup BadNames /\ picked.name # Null
    BY <2>1 DEF Text, ConfigAssumption
  <2> DEFINE dialled == [picked EXCEPT !.slash = FALSE]
             plain == [name |-> picked.name, pad |-> FALSE, slash |-> FALSE]
  <2>3. /\ dialled \in Text /\ plain \in Text
        /\ dialled.name = picked.name /\ dialled.pad = FALSE /\ dialled.slash = FALSE
        /\ plain.name = picked.name /\ plain.pad = FALSE /\ plain.slash = FALSE
    BY <2>1, <2>2 DEF Text
  <2> HIDE DEF dialled, plain
  <2>4. dialled = plain
    BY <2>3 DEF Text
  <2> QED BY <2>1, <2>2, <2>4 DEF BrokerWsUrl, Plain, dialled, plain
<1> QED BY <1>1, <1>2, <1>3, PTL DEF ConfigSpec

-----------------------------------------------------------------------------
(* The notifications.  A frame on its way; the calls under way. *)
NoteFrame == [type : {"added", "resolved"}, id : Tags]

NoteTypeOK ==
  /\ frames \in Seq(NoteFrame)
  /\ matches \in [Tags -> Nat] /\ shows \in [Tags -> Nat] /\ clears \in [Tags -> Nat]
  /\ shown \subseteq Tags /\ due \subseteq Tags
  /\ ~open => frames = <<>>

(* What is due is shown or will be, and nothing under way can close it; *)
DueLands ==
  \A r \in due : /\ permission = "granted"
                 /\ r \in shown \/ shows[r] > 0
                 /\ clears[r] = 0

(* the frames tell of the end of a request after they tell of the request; *)
AddedThenResolved ==
  \A i \in DOMAIN frames :
    frames[i].type = "added" /\ frames[i].id \notin pending =>
      \E j \in DOMAIN frames : j > i /\ frames[j] = [type |-> "resolved", id |-> frames[i].id]

ResolvedComes(r) == \E i \in DOMAIN frames : frames[i] = [type |-> "resolved", id |-> r]

(* no call under way shows it, and a lookup finds it if it is shown; *)
Cleared(r) == matches[r] = 0 /\ shows[r] = 0 /\ (r \in shown => clears[r] > 0)

(* and that is so of a request that has ended, once its frame was handled. *)
EndedIsCleared ==
  \A r \in Tags : r \notin pending /\ r \notin stranded => ResolvedComes(r) \/ Cleared(r)

(* The inductive invariant. *)
NoteInv == NoteTypeOK /\ DueLands /\ AddedThenResolved /\ EndedIsCleared

-----------------------------------------------------------------------------
(* A frame that is sent, and a frame that is read. *)

LEMMA FrameSent ==
  ASSUME NoteTypeOK, NEW f \in NoteFrame, Emit(f)
  PROVE  /\ frames' \in Seq(NoteFrame) /\ (~open => frames' = <<>>)
         /\ \A i \in DOMAIN frames : i \in DOMAIN frames' /\ frames'[i] = frames[i]
         /\ \A i \in DOMAIN frames' : i \in DOMAIN frames \/ frames'[i] = f
         /\ open => \E j \in DOMAIN frames' : frames'[j] = f /\ \A i \in DOMAIN frames : j > i
<1>1. frames \in Seq(NoteFrame)
  BY DEF NoteTypeOK
<1>2. CASE ~open
  BY <1>1, <1>2 DEF Emit, NoteTypeOK
<1>3. CASE open
  <2>1. frames' = Append(frames, f)
    BY <1>3 DEF Emit
  <2>2. /\ frames' \in Seq(NoteFrame) /\ Len(frames) \in Nat /\ DOMAIN frames = 1 .. Len(frames)
        /\ DOMAIN frames' = 1 .. (Len(frames) + 1) /\ frames'[Len(frames) + 1] = f
        /\ \A i \in 1 .. Len(frames) : frames'[i] = frames[i]
    BY <1>1, <2>1
  <2>3. Len(frames) + 1 \in DOMAIN frames' /\ \A i \in DOMAIN frames : Len(frames) + 1 > i
    BY <2>2
  <2> QED BY <1>3, <2>2, <2>3
<1> QED BY <1>2, <1>3

LEMMA FrameRead ==
  ASSUME NoteTypeOK, frames # <<>>, frames' = Tail(frames)
  PROVE  /\ frames' \in Seq(NoteFrame) /\ open
         /\ 1 \in DOMAIN frames /\ Head(frames) = frames[1] /\ frames[1] \in NoteFrame
         /\ \A i \in DOMAIN frames' : i + 1 \in DOMAIN frames /\ frames'[i] = frames[i + 1]
         /\ \A i \in DOMAIN frames \ {1} :
              i - 1 \in DOMAIN frames' /\ frames'[i - 1] = frames[i]
<1>1. frames \in Seq(NoteFrame) /\ DOMAIN frames = 1 .. Len(frames) /\ Len(frames) \in Nat \ {0}
  BY DEF NoteTypeOK
<1>2. frames' \in Seq(NoteFrame) /\ DOMAIN frames' = 1 .. (Len(frames) - 1)
      /\ \A i \in 1 .. (Len(frames) - 1) : frames'[i] = frames[i + 1]
  BY <1>1
<1>3. \A i \in DOMAIN frames \ {1} : i - 1 \in 1 .. (Len(frames) - 1) /\ (i - 1) + 1 = i
  BY <1>1
<1>4. 1 \in DOMAIN frames /\ Head(frames) = frames[1] /\ frames[1] \in NoteFrame
  BY <1>1
<1>5. \A i \in DOMAIN frames' : i + 1 \in DOMAIN frames
  BY <1>1, <1>2
<1> QED BY <1>1, <1>2, <1>3, <1>4, <1>5 DEF NoteTypeOK

-----------------------------------------------------------------------------
(* The broker announces and resolves. *)

LEMMA BrokerSteps ==
  ASSUME NoteInv, NEW r \in Tags, Announce(r) \/ Resolve(r)
  PROVE  NoteInv'
<1>1. NoteTypeOK /\ UNCHANGED <<open, matches, shows, clears, shown, permission, due>>
  BY DEF NoteInv, Announce, Resolve, under
<1>2. PICK f \in NoteFrame : Emit(f) /\ f.id = r /\ f.type \in {"added", "resolved"}
                            /\ (f.type = "added" => Announce(r)) /\ (f.type = "resolved" => Resolve(r))
  BY DEF Announce, Resolve, NoteFrame
<1>3. /\ frames' \in Seq(NoteFrame) /\ (~open => frames' = <<>>)
      /\ \A i \in DOMAIN frames : i \in DOMAIN frames' /\ frames'[i] = frames[i]
      /\ \A i \in DOMAIN frames' : i \in DOMAIN frames \/ frames'[i] = f
      /\ open => \E j \in DOMAIN frames' : frames'[j] = f /\ \A i \in DOMAIN frames : j > i
  BY <1>1, <1>2, FrameSent
<1>4. /\ f.type = "added" => pending' = pending \cup {r} /\ stranded' = stranded
      /\ f.type = "resolved" => /\ pending' = pending \ {r}
                               /\ stranded' = IF open THEN stranded ELSE stranded \cup {r}
  BY <1>2 DEF Announce, Resolve
<1>5. f.type = "resolved" => f = [type |-> "resolved", id |-> r]
  BY <1>2 DEF NoteFrame
<1>6. NoteTypeOK'
  BY <1>1, <1>3 DEF NoteTypeOK
<1>7. DueLands'
  BY <1>1 DEF NoteInv, DueLands
<1>8. AddedThenResolved'
  <2> SUFFICES ASSUME NEW i \in DOMAIN frames', frames'[i].type = "added",
                      frames'[i].id \notin pending'
               PROVE  \E j \in DOMAIN frames' :
                        j > i /\ frames'[j] = [type |-> "resolved", id |-> frames'[i].id]
    BY DEF AddedThenResolved
  <2>1. CASE i \notin DOMAIN frames
    BY <1>2, <1>3, <1>4, <2>1
  <2>2. CASE i \in DOMAIN frames /\ frames[i].id \notin pending
    <3>1. PICK j \in DOMAIN frames : j > i /\ frames[j] = [type |-> "resolved", id |-> frames[i].id]
      BY <1>3, <2>2 DEF NoteInv, AddedThenResolved
    <3> QED BY <1>3, <2>2, <3>1
  <2>3. CASE i \in DOMAIN frames /\ frames[i].id \in pending
    <3>1. frames[i].id = r /\ f.type = "resolved"
      BY <1>2, <1>3, <1>4, <2>3
    <3>2. open
      BY <2>3 DEF NoteInv, NoteTypeOK
    <3> QED BY <1>3, <1>5, <2>3, <3>1, <3>2
  <2> QED BY <2>1, <2>2, <2>3
<1>9. EndedIsCleared'
  <2> SUFFICES ASSUME NEW q \in Tags, q \notin pending', q \notin stranded'
               PROVE  ResolvedComes(q)' \/ Cleared(q)'
    BY DEF EndedIsCleared
  <2>1. ResolvedComes(q) => ResolvedComes(q)'
    BY <1>3 DEF ResolvedComes
  <2>2. Cleared(q) => Cleared(q)'
    BY <1>1 DEF Cleared
  <2>3. CASE q # r \/ f.type = "added"
    <3>1. q \notin pending /\ q \notin stranded
      BY <1>2, <1>4, <2>3
    <3> QED BY <2>1, <2>2, <3>1 DEF NoteInv, EndedIsCleared
  <2>4. CASE q = r /\ f.type = "resolved"
    <3>1. open
      BY <1>4, <2>4
    <3> QED BY <1>3, <1>5, <2>4, <3>1 DEF ResolvedComes
  <2> QED BY <1>2, <2>3, <2>4
<1> QED BY <1>6, <1>7, <1>8, <1>9 DEF NoteInv

(* The worker reads a frame. *)
LEMMA MessageStep ==
  ASSUME NoteInv, OnMessage
  PROVE  NoteInv'
<1> DEFINE f == frames[1]
<1>1. /\ NoteTypeOK /\ frames # <<>> /\ frames' = Tail(frames)
      /\ UNCHANGED <<pending, open, shown, permission>>
  BY DEF NoteInv, OnMessage, brokerSide
<1>2. /\ frames' \in Seq(NoteFrame) /\ open
      /\ 1 \in DOMAIN frames /\ Head(frames) = f /\ f \in NoteFrame
      /\ \A i \in DOMAIN frames' : i + 1 \in DOMAIN frames /\ frames'[i] = frames[i + 1]
      /\ \A i \in DOMAIN frames \ {1} :
           i - 1 \in DOMAIN frames' /\ frames'[i - 1] = frames[i]
  BY <1>1, FrameRead
<1>3. DOMAIN frames \subseteq Nat /\ DOMAIN frames' \subseteq Nat
  BY <1>1, <1>2 DEF NoteTypeOK
<1>4. PICK r \in Tags :
        /\ f.id = r /\ (f.type = "resolved" => f = [type |-> "resolved", id |-> r])
        /\ IF f.type = "added" THEN ShowRequestNotification(r) ELSE CloseRequestNotification(r)
  BY <1>2 DEF NoteFrame, OnMessage
<1> HIDE DEF f
<1>5. AddedThenResolved'
  <2> SUFFICES ASSUME NEW i \in DOMAIN frames', frames'[i].type = "added",
                      frames'[i].id \notin pending'
               PROVE  \E j \in DOMAIN frames' :
                        j > i /\ frames'[j] = [type |-> "resolved", id |-> frames'[i].id]
    BY DEF AddedThenResolved
  <2>1. PICK j \in DOMAIN frames :
          j > i + 1 /\ frames[j] = [type |-> "resolved", id |-> frames[i + 1].id]
    BY <1>1, <1>2 DEF NoteInv, AddedThenResolved
  <2>2. j # 1 /\ j - 1 > i
    BY <1>3, <2>1
  <2> QED BY <1>2, <2>1, <2>2
<1>6. ASSUME NEW q \in Tags, f # [type |-> "resolved", id |-> q]
      PROVE  ResolvedComes(q) => ResolvedComes(q)'
  <2>1. \A i \in DOMAIN frames : frames[i] = [type |-> "resolved", id |-> q] => i # 1
    BY <1>6 DEF f
  <2> QED BY <1>2, <2>1 DEF ResolvedComes
<1>7. CASE f.type = "added"
  <2>1. /\ UNCHANGED <<shows, clears, due, stranded>>
        /\ matches' = [matches EXCEPT ![r] = @ + 1]
    BY <1>4, <1>7 DEF ShowRequestNotification
  <2>2. NoteTypeOK' /\ DueLands'
    BY <1>1, <1>2, <1>4, <2>1 DEF NoteInv, NoteTypeOK, DueLands
  <2>3. r \notin pending => ResolvedComes(r)
    BY <1>2, <1>4, <1>7 DEF NoteInv, AddedThenResolved, ResolvedComes, f
  <2>4. \A q \in Tags : ResolvedComes(q) => ResolvedComes(q)'
    BY <1>6, <1>7
  <2>5. \A q \in Tags : Cleared(q) /\ q # r => Cleared(q)'
    BY <1>1, <2>1 DEF Cleared, NoteTypeOK
  <2>6. EndedIsCleared'
    BY <1>1, <2>1, <2>3, <2>4, <2>5 DEF NoteInv, EndedIsCleared
  <2> QED BY <1>5, <2>2, <2>6 DEF NoteInv
<1>8. CASE f.type = "resolved"
  <2>1. /\ clears' = [clears EXCEPT ![r] = @ + 1] /\ due' = due \ {r}
        /\ stranded' = IF matches[r] + shows[r] > 0 THEN stranded \cup {r} ELSE stranded \ {r}
        /\ UNCHANGED <<matches, shows>>
    BY <1>4, <1>8 DEF CloseRequestNotification
  <2>2. NoteTypeOK' /\ DueLands'
    BY <1>1, <1>2, <1>4, <2>1 DEF NoteInv, NoteTypeOK, DueLands
  <2>3. r \notin stranded' => Cleared(r)'
    <3>1. matches[r] \in Nat /\ shows[r] \in Nat /\ clears[r] \in Nat /\ clears'[r] = clears[r] + 1
      BY <1>1, <1>4, <2>1 DEF NoteTypeOK
    <3> QED BY <2>1, <3>1 DEF Cleared
  <2>4. \A q \in Tags : q # r => (ResolvedComes(q) => ResolvedComes(q)')
    BY <1>6, <1>4, <1>8
  <2>5. \A q \in Tags : Cleared(q) /\ q # r => Cleared(q)'
    BY <1>1, <2>1 DEF Cleared, NoteTypeOK
  <2>6. \A q \in Tags : q # r => (q \in stranded' <=> q \in stranded)
    BY <2>1
  <2>7. EndedIsCleared'
    BY <1>1, <2>3, <2>4, <2>5, <2>6 DEF NoteInv, EndedIsCleared
  <2> QED BY <1>5, <2>2, <2>7 DEF NoteInv
<1> QED BY <1>2, <1>7, <1>8 DEF NoteFrame

(* The platform answers: the windows, a show, a lookup. *)
LEMMA AnswerSteps ==
  ASSUME NoteInv, NEW r \in Tags, OnMatch(r) \/ OnShow(r) \/ OnLookup(r)
  PROVE  NoteInv'
<1>1. NoteTypeOK /\ UNCHANGED <<pending, open, frames, permission, stranded>>
  BY DEF NoteInv, OnMatch, OnShow, OnLookup, brokerSide, history
<1>2. AddedThenResolved' /\ \A q : ResolvedComes(q)' <=> ResolvedComes(q)
  BY <1>1 DEF NoteInv, AddedThenResolved, ResolvedComes
<1>3. matches[r] \in Nat /\ shows[r] \in Nat /\ clears[r] \in Nat
  BY <1>1 DEF NoteTypeOK
<1>4. CASE OnMatch(r)
  <2>1. /\ matches[r] > 0 /\ matches' = [matches EXCEPT ![r] = @ - 1]
        /\ shows' = IF visible THEN shows ELSE [shows EXCEPT ![r] = @ + 1]
        /\ due' = IF ~visible /\ permission = "granted" /\ clears[r] = 0 THEN due \cup {r} ELSE due
        /\ UNCHANGED <<clears, shown>>
    BY <1>4 DEF OnMatch
  <2>2. NoteTypeOK'
    BY <1>1, <1>3, <2>1 DEF NoteTypeOK
  <2>3. DueLands'
    BY <1>1, <1>3, <2>1 DEF NoteInv, NoteTypeOK, DueLands
  <2>4. \A q \in Tags : Cleared(q) => q # r /\ Cleared(q)'
    BY <1>1, <2>1 DEF Cleared, NoteTypeOK
  <2> QED BY <1>1, <1>2, <2>2, <2>3, <2>4 DEF NoteInv, EndedIsCleared
<1>5. CASE OnShow(r)
  <2>1. /\ shows[r] > 0 /\ shows' = [shows EXCEPT ![r] = @ - 1]
        /\ shown' = IF permission = "granted" THEN shown \cup {r} ELSE shown
        /\ UNCHANGED <<matches, clears, due>>
    BY <1>5 DEF OnShow, history
  <2>2. NoteTypeOK'
    BY <1>1, <1>3, <2>1 DEF NoteTypeOK
  <2>3. DueLands'
    BY <1>1, <2>1 DEF NoteInv, NoteTypeOK, DueLands
  <2>4. \A q \in Tags : Cleared(q) => q # r /\ Cleared(q)'
    BY <1>1, <2>1 DEF Cleared, NoteTypeOK
  <2> QED BY <1>1, <1>2, <2>2, <2>3, <2>4 DEF NoteInv, EndedIsCleared
<1>6. CASE OnLookup(r)
  <2>1. /\ clears[r] > 0 /\ clears' = [clears EXCEPT ![r] = @ - 1] /\ shown' = shown \ {r}
        /\ UNCHANGED <<matches, shows, due>>
    BY <1>6 DEF OnLookup, history
  <2>2. NoteTypeOK'
    BY <1>1, <1>3, <2>1 DEF NoteTypeOK
  <2>3. DueLands'
    BY <1>1, <2>1 DEF NoteInv, NoteTypeOK, DueLands
  <2>4. \A q \in Tags : Cleared(q) => Cleared(q)'
    BY <1>1, <2>1 DEF Cleared, NoteTypeOK
  <2> QED BY <1>1, <1>2, <2>2, <2>3, <2>4 DEF NoteInv, EndedIsCleared
<1> QED BY <1>4, <1>5, <1>6

(* The socket is lost, a notification is clicked, and the rest. *)
LEMMA OtherNoteSteps ==
  ASSUME NoteInv,
         \/ Drop \/ Reconnect \/ Look \/ UNCHANGED noteVars
         \/ \E r \in Tags, action \in {"allow", "deny", "body"} : NotificationClick(r, action)
         \/ \E answer \in {"granted", "denied"} : RequestNotificationPermission(answer)
  PROVE  NoteInv'
<1> USE DEF NoteInv, NoteTypeOK, under
<1>1. CASE Drop
  <2>1. /\ UNCHANGED <<pending, matches, shows, clears, shown, permission, due>>
        /\ frames' = <<>> /\ ~open'
        /\ stranded' = stranded \cup {f.id : f \in {g \in ToSet(frames) : g.type = "resolved"}}
    BY <1>1 DEF Drop
  <2>2. NoteTypeOK' /\ DueLands' /\ AddedThenResolved'
    BY <2>1 DEF DueLands, AddedThenResolved
  <2>3. ASSUME NEW r \in Tags, ResolvedComes(r) PROVE r \in stranded'
    <3>1. PICK i \in DOMAIN frames : frames[i] = [type |-> "resolved", id |-> r]
      BY <2>3 DEF ResolvedComes
    <3>2. frames[i] \in ToSet(frames) /\ frames[i].type = "resolved" /\ frames[i].id = r
      BY <3>1 DEF ToSet
    <3> QED BY <2>1, <3>2
  <2>4. \A r \in Tags : Cleared(r) => Cleared(r)'
    BY <2>1 DEF Cleared
  <2>5. EndedIsCleared'
    BY <2>1, <2>3, <2>4 DEF EndedIsCleared
  <2> QED BY <2>2, <2>5
<1>2. ASSUME UNCHANGED <<pending, frames, matches, shows, clears, due, stranded>>,
             shown' \subseteq shown, due' \subseteq shown' \cup (due \ shown),
             permission = "granted" => permission' = "granted",
             ~open' => ~open
      PROVE  NoteInv'
  BY <1>2 DEF DueLands, AddedThenResolved, EndedIsCleared, ResolvedComes, Cleared
<1>3. CASE Reconnect \/ Look \/ UNCHANGED noteVars
           \/ \E answer \in {"granted", "denied"} : RequestNotificationPermission(answer)
  BY <1>2, <1>3 DEF Reconnect, Look, noteVars, brokerSide, history, RequestNotificationPermission
<1>4. CASE \E r \in Tags, action \in {"allow", "deny", "body"} : NotificationClick(r, action)
  <2>1. PICK r \in Tags : shown' = shown \ {r} /\ due' = due \ {r}
          /\ UNCHANGED <<pending, open, frames, matches, shows, clears, permission, stranded>>
    BY <1>4 DEF NotificationClick
  <2> QED BY <2>1 DEF DueLands, AddedThenResolved, EndedIsCleared, ResolvedComes, Cleared
<1> QED BY <1>1, <1>3, <1>4

(* sw.js, second half: in whatever order the platform answers, NoteInv     *)
(* holds.                                                                  *)
THEOREM NoteInvHolds == NoteSpec => []NoteInv
<1>1. NoteInit => NoteInv
  BY DEF NoteInit, NoteInv, NoteTypeOK, DueLands, AddedThenResolved, EndedIsCleared, Cleared
<1>2. NoteInv /\ [NoteNext]_noteVars => NoteInv'
  BY BrokerSteps, MessageStep, AnswerSteps, OtherNoteSteps DEF NoteNext
<1> QED BY <1>1, <1>2, PTL DEF NoteSpec

(* "Surface a freshly announced request ... so it reaches the operator"    *)
(* (sw.js:119, 228): what was to be notified is on the screen until it is  *)
(* resolved or clicked, and what is on the screen is pending or its        *)
(* resolved frame was lost or read before its show was answered, for any   *)
(* number of requests and losses.                                          *)
THEOREM NotificationsSettle == NoteSpec => []ScreenSettles
<1>1. NoteInv => ScreenSettles
  <2> SUFFICES ASSUME NoteInv, Idle
               PROVE  due \subseteq shown /\ shown \subseteq pending \cup stranded
    BY DEF ScreenSettles
  <2>1. due \subseteq shown
    BY DEF Idle, NoteInv, NoteTypeOK, DueLands
  <2>2. \A r \in Tags : ~ResolvedComes(r) /\ (Cleared(r) => r \notin shown)
    BY DEF Idle, ResolvedComes, Cleared
  <2> QED BY <2>1, <2>2 DEF NoteInv, NoteTypeOK, EndedIsCleared
<1> QED BY <1>1, NoteInvHolds, PTL

(* "Focuses the app instead of silently dropping the click" (sw.js:147): a *)
(* notification goes away with its decision on the way, with the app in    *)
(* front, or because a lookup found and closed it.                         *)
THEOREM NoClickIsDropped == NoteSpec => ClickNotDropped
<1> DEFINE Answered == \A r \in shown \ shown' : clears' = clears => r \in sent' \/ visible'
<1>1. NoteInv /\ [NoteNext]_noteVars => [Answered]_noteVars
  <2> SUFFICES ASSUME NoteInv, NoteNext, NEW r \in shown \ shown', clears' = clears
               PROVE  r \in sent' \/ visible'
    OBVIOUS
  <2>1. \A q \in Tags : ~OnLookup(q)
    BY DEF OnLookup, NoteInv, NoteTypeOK
  <2>2. PICK q \in Tags, action \in {"allow", "deny", "body"} : NotificationClick(q, action)
    BY <2>1 DEF NoteNext, OnMessage, OnMatch, OnShow, Drop, Reconnect, Look, Announce, Resolve,
                RequestNotificationPermission
  <2>3. q = r
    BY <2>2 DEF NotificationClick
  <2> QED BY <2>2, <2>3 DEF NotificationClick, SendDecision, FocusClient
<1> QED BY <1>1, NoteInvHolds, PTL DEF NoteSpec, ClickNotDropped

-----------------------------------------------------------------------------
(* The previews.  A list, and lists made from one another. *)

LEMMA ListIs ==
  ASSUME NEW n \in Nat, NEW f, f = [i \in 1 .. n |-> f[i]]
  PROVE  IsList(f) /\ Len(f) = n
<1>1. DOMAIN f = 1 .. n
  OBVIOUS
<1>2. \A i \in 1 .. n : f[i] \in ToSet(f)
  BY <1>1 DEF ToSet
<1> DEFINE S == ToSet(f)
<1> HIDE DEF S
<1>3. f \in [1 .. n -> S]
  BY <1>2 DEF S
<1>4. f \in Seq(S) /\ Len(f) = n
  BY <1>3
<1> QED BY <1>4 DEF IsList, S

LEMMA ListFacts ==
  ASSUME NEW s, IsList(s)
  PROVE  Len(s) \in Nat /\ DOMAIN s = 1 .. Len(s) /\ s = [i \in 1 .. Len(s) |-> s[i]]
         /\ (s # <<>> <=> Len(s) > 0)
<1> DEFINE S == ToSet(s)
<1>1. s \in Seq(S)
  BY DEF IsList
<1> HIDE DEF S
<1> QED BY <1>1

LEMMA EmptyIsList == IsList(<<>>) /\ Len(<<>>) = 0
<1>1. <<>> \in Seq(ToSet(<<>>))
  OBVIOUS
<1> QED BY <1>1 DEF IsList

(* Keeping every position keeps the sequence. *)
LEMMA PickAll ==
  ASSUME NEW s, IsList(s), NEW K, K = DOMAIN s
  PROVE  Pick(s, K) = s
<1> DEFINE n == Len(s)
           g == [i \in 1 .. n |-> i]
<1>1. n \in Nat /\ K = 1 .. n /\ s = [i \in 1 .. n |-> s[i]]
  BY ListFacts
<1> HIDE DEF n
<1>2. Lists(g, n, K)
  BY <1>1 DEF Lists
<1>3. K \in SUBSET Nat
  BY <1>1
<1>4. \A k \in 1 .. n : g[k] = k
  OBVIOUS
<1> HIDE DEF g
<1>5. Pick(s, K) = Along(s, g, n)
  BY <1>1, <1>2, <1>3, PickIs
<1> QED BY <1>1, <1>4, <1>5 DEF Along

(* Of some positions, Pick has the elements in the order of Nth. *)
LEMMA PickedList ==
  ASSUME NEW s, IsList(s), NEW K \in SUBSET DOMAIN s
  PROVE  /\ IsList(Pick(s, K)) /\ Len(Pick(s, K)) = Cardinality(K) /\ Cardinality(K) \in Nat
         /\ IsFiniteSet(K) /\ K \in SUBSET Nat
         /\ DOMAIN Pick(s, K) = 1 .. Cardinality(K)
         /\ \A k \in 1 .. Cardinality(K) : Nth(K, k) \in K /\ Pick(s, K)[k] = s[Nth(K, k)]
<1>1. Len(s) \in Nat /\ DOMAIN s = 1 .. Len(s)
  BY ListFacts
<1>2. IsFiniteSet(DOMAIN s)
  BY <1>1, FS_Interval
<1>3. IsFiniteSet(K) /\ Cardinality(K) \in Nat /\ K \in SUBSET Nat
  BY <1>1, <1>2, FS_Subset, FS_CardinalityType
<1>4. \A k \in 1 .. Cardinality(K) : Nth(K, k) \in K /\ Pick(s, K)[k] = s[Nth(K, k)]
  BY <1>3, NthListed DEF Pick
<1>5. Pick(s, K) = [k \in 1 .. Cardinality(K) |-> Pick(s, K)[k]]
  BY DEF Pick
<1>6. IsList(Pick(s, K)) /\ Len(Pick(s, K)) = Cardinality(K)
  BY <1>3, <1>5, ListIs
<1> QED BY <1>3, <1>4, <1>5, <1>6

(* Of numbers that are finitely many, one is the least. *)
LEMMA LeastOfFinite ==
  ASSUME NEW K \in SUBSET Nat, IsFiniteSet(K), K # {}
  PROVE  \E i \in K : \A j \in K : i <= j
<1>1. PICK i \in K : \A x \in K : ~(<<x, i>> \in OpToRel(<, Nat))
  BY NatLessThanWellFounded, WFMin
<1>2. ASSUME NEW j \in K PROVE i <= j
  <2>1. i \in Nat /\ j \in Nat
    OBVIOUS
  <2>2. j < i => <<j, i>> \in OpToRel(<, Nat)
    BY <2>1 DEF OpToRel
  <2>3. ~(j < i)
    BY <1>1, <2>2
  <2> QED BY <2>1, <2>3
<1> QED BY <1>2

(* The first of them is the least. *)
LEMMA FirstIsLeast ==
  ASSUME NEW K \in SUBSET Nat, IsFiniteSet(K), K # {}
  PROVE  1 \in 1 .. Cardinality(K) /\ Nth(K, 1) = CHOOSE i \in K : \A j \in K : i <= j
<1>1. Cardinality(K) \in Nat /\ Cardinality(K) # 0
  BY FS_CardinalityType, FS_EmptySet
<1>2. 1 \in 1 .. Cardinality(K)
  BY <1>1
<1> DEFINE m == Nth(K, 1)
<1>3. m \in K /\ Rank(K, m) = 1
  BY <1>2, NthListed
<1> HIDE DEF m
<1>4. ASSUME NEW j \in K PROVE m <= j
  <2>1. Rank(K, j) \in 1 .. Cardinality(K) /\ (j < m => Rank(K, j) < Rank(K, m))
    BY <1>3, RankInjective
  <2>2. ~(j < m)
    BY <1>1, <1>3, <2>1
  <2>3. j \in Nat /\ m \in Nat
    BY <1>3
  <2> QED BY <2>2, <2>3
<1>5. \A i \in K : (\A j \in K : i <= j) => i = m
  <2> SUFFICES ASSUME NEW i \in K, \A j \in K : i <= j PROVE i = m
    OBVIOUS
  <2>1. i <= m /\ m <= i /\ i \in Nat /\ m \in Nat
    BY <1>3, <1>4
  <2> QED BY <2>1
<1>6. m = CHOOSE i \in K : \A j \in K : i <= j
  BY <1>3, <1>4, <1>5
<1> QED BY <1>2, <1>6 DEF m

(* "The remainder of each section folds into a +N more count". *)
LEMMA CutCounts ==
  ASSUME NEW lines, IsList(lines), NEW limit \in Nat
  PROVE  Len(Cut(lines, limit).shown) + Cut(lines, limit).hidden = Len(lines)
<1> DEFINE n == IF limit < Len(lines) THEN limit ELSE Len(lines)
           S == ToSet(lines)
<1>1. lines \in Seq(S) /\ Len(lines) \in Nat
  BY ListFacts DEF IsList
<1>2. n \in 0 .. Len(lines)
  BY <1>1
<1> HIDE DEF n, S
<1>3. Len(SubSeq(lines, 1, n)) = n
  BY <1>1, <1>2
<1>4. Cut(lines, limit) = [shown |-> SubSeq(lines, 1, n), hidden |-> Len(lines) - n]
  BY <1>3 DEF Cut, n
<1> QED BY <1>1, <1>2, <1>3, <1>4

(* Two lists of the same length with the same elements. *)
LEMMA DisplaysOfPick ==
  ASSUME NEW s, IsList(s), NEW K \in SUBSET DOMAIN s
  PROVE  Displays(Pick(s, K)) = [k \in 1 .. Cardinality(K) |-> s[Nth(K, k)].display]
<1>1. /\ DOMAIN Pick(s, K) = 1 .. Cardinality(K)
      /\ \A k \in 1 .. Cardinality(K) : Pick(s, K)[k] = s[Nth(K, k)]
  BY PickedList
<1> QED BY <1>1 DEF Displays

LEMMA DisplaysList ==
  ASSUME NEW s, IsList(s)
  PROVE  IsList(Displays(s)) /\ DOMAIN Displays(s) = DOMAIN s /\ Len(Displays(s)) = Len(s)
<1>1. Len(s) \in Nat /\ DOMAIN s = 1 .. Len(s)
  BY ListFacts
<1>2. Displays(s) = [i \in 1 .. Len(s) |-> Displays(s)[i]]
  BY <1>1 DEF Displays
<1>3. IsList(Displays(s)) /\ Len(Displays(s)) = Len(s)
  BY <1>1, <1>2, ListIs
<1>4. DOMAIN Displays(s) = DOMAIN s
  BY DEF Displays
<1> QED BY <1>3, <1>4

(* Normalising keeps the number of the fragments and which are suspect. *)
LEMMA SuspectsKept ==
  ASSUME NEW raw, IsList(raw), NEW read, read = [i \in DOMAIN raw |-> ReadFragment(raw[i])]
  PROVE  /\ IsList(read) /\ DOMAIN read = DOMAIN raw
         /\ Suspects(read) = Suspects(raw) /\ Suspects(raw) \in SUBSET DOMAIN raw
         /\ \A i \in DOMAIN raw :
              read[i].display = IF raw[i].display # Missing THEN raw[i].display ELSE raw[i].argv
<1>1. Len(raw) \in Nat /\ DOMAIN raw = 1 .. Len(raw)
  BY ListFacts
<1>2. DOMAIN read = DOMAIN raw /\ \A i \in DOMAIN raw : read[i] = ReadFragment(raw[i])
  OBVIOUS
<1>3. read = [i \in 1 .. Len(raw) |-> read[i]]
  BY <1>1
<1>4. IsList(read)
  BY <1>1, <1>3, ListIs
<1>5. \A v : AsVerdict(v) = "allow" <=> v = "allow"
  BY DEF AsVerdict
<1>6. \A i \in DOMAIN raw :
        /\ read[i].verdict = AsVerdict(raw[i].verdict)
        /\ read[i].display = IF raw[i].display # Missing THEN raw[i].display ELSE raw[i].argv
  BY <1>2 DEF ReadFragment
<1>7. Suspects(read) = Suspects(raw) /\ Suspects(raw) \in SUBSET DOMAIN raw
  BY <1>2, <1>5, <1>6 DEF Suspects
<1> QED BY <1>2, <1>4, <1>6, <1>7

(* What is shown is the payload, normalised. *)
ViewInv ==
  /\ payload \in Payloads
  /\ request = Missing \/ request = NormalizeBrokerRequest(payload)

LEMMA ViewInvHolds == ViewSpec => []ViewInv
<1>1. ViewInit => ViewInv
  BY DEF ViewInit, ViewInv
<1>2. ViewInv /\ [Show]_viewVars => ViewInv'
  BY DEF ViewInv, Show, viewVars
<1> QED BY <1>1, <1>2, PTL DEF ViewSpec

(* The lists of a payload that is shown, whatever it leaves out. *)
LEMMA ShellPayload ==
  ASSUME ViewInv, request # Missing, request.subject # "tool"
  PROVE  /\ payload.subject # "tool" /\ IsList(payload.command)
         /\ request.command = payload.command
         /\ request.fragments = ReadFragments(payload.fragments, payload.command)
         /\ IsList(request.fragments)
         /\ payload.fragments # Missing => IsList(payload.fragments)
<1>1. request = NormalizeBrokerRequest(payload) /\ payload \in Payloads
  BY DEF ViewInv
<1>2. payload.subject # "tool"
  BY <1>1 DEF NormalizeBrokerRequest
<1>3. /\ request.command = payload.command
      /\ request.fragments = ReadFragments(payload.fragments, payload.command)
  BY <1>1, <1>2 DEF NormalizeBrokerRequest
<1>4. IsList(payload.command) /\ (payload.fragments # Missing => IsList(payload.fragments))
  BY <1>1, <1>2, ViewAssumption
<1>5. IsList(request.fragments)
  <2>1. CASE payload.fragments # Missing
    <3>1. request.fragments = [i \in DOMAIN payload.fragments |-> ReadFragment(payload.fragments[i])]
      BY <1>3, <2>1 DEF ReadFragments
    <3> QED BY <1>4, <2>1, <3>1, SuspectsKept
  <2>2. CASE payload.fragments = Missing
    <3>1. ASSUME NEW x PROVE IsList(<<x>>)
      <4>1. x \in ToSet(<<x>>)
        BY DEF ToSet
      <4>2. <<x>> \in Seq(ToSet(<<x>>))
        BY <4>1
      <4> QED BY <4>2 DEF IsList
    <3> QED BY <1>3, <2>2, <3>1, EmptyIsList DEF ReadFragments
  <2> QED BY <2>1, <2>2
<1> QED BY <1>2, <1>3, <1>4, <1>5

(* Of a list, the flagged part is a list of the suspects, in order. *)
LEMMA FlaggedIs ==
  ASSUME NEW s, IsList(s)
  PROVE  /\ Suspects(s) \in SUBSET DOMAIN s
         /\ IsList(Flagged(s)) /\ Len(Flagged(s)) = Cardinality(Suspects(s))
         /\ Flagged(s) # <<>> <=> Suspects(s) # {}
         /\ Suspects(s) \in SUBSET Nat /\ IsFiniteSet(Suspects(s))
<1>1. Suspects(s) \in SUBSET DOMAIN s
  BY DEF Suspects
<1> DEFINE K == Suspects(s)
<1> HIDE DEF K
<1>2. /\ IsList(Pick(s, K)) /\ Len(Pick(s, K)) = Cardinality(K)
      /\ Cardinality(K) \in Nat /\ IsFiniteSet(K) /\ K \in SUBSET Nat
  BY <1>1, PickedList DEF K
<1>3. Pick(s, K) # <<>> <=> K # {}
  <2>1. Pick(s, K) # <<>> <=> Len(Pick(s, K)) > 0
    BY <1>2, ListFacts
  <2>2. Cardinality(K) = 0 <=> K = {}
    BY <1>2, FS_EmptySet
  <2>3. Cardinality(K) > 0 <=> Cardinality(K) # 0
    BY <1>2
  <2>4. Len(Pick(s, K)) > 0 <=> Cardinality(K) > 0
    BY <1>2
  <2> QED BY <2>1, <2>2, <2>3, <2>4
<1> QED BY <1>1, <1>2, <1>3 DEF Flagged, K

(* "Anything else (ask/deny/defer) is what the operator needs to weigh"    *)
(* (approval.ts:9): for payloads with any number of fragments, in any      *)
(* order, with any field garbled, the flagged list is exactly the suspects *)
(* and the headline is the first of them.                                  *)
THEOREM SuspectsFlagged == ViewSpec => []SuspectIsFlagged
<1>1. ViewInv => SuspectIsFlagged
  <2> DEFINE raw     == payload.fragments
             read    == request.fragments
             K       == Suspects(raw)
             suspect == Pick(raw, K)
             words   == [i \in DOMAIN suspect |->
                           IF suspect[i].display # Missing THEN suspect[i].display
                           ELSE suspect[i].argv]
  <2> SUFFICES ASSUME ViewInv, ShellShown, raw # Missing, suspect # <<>>
               PROVE  /\ Displays(FlaggedFragments(request)) = words
                      /\ RequestHeadline(request) = words[1]
    BY DEF SuspectIsFlagged
  <2>1. /\ payload.subject # "tool" /\ IsList(raw)
        /\ read = ReadFragments(raw, payload.command)
    BY ShellPayload DEF ShellShown
  <2>2. read = [i \in DOMAIN raw |-> ReadFragment(raw[i])]
    BY <2>1 DEF ReadFragments
  <2>3. /\ IsList(read) /\ DOMAIN read = DOMAIN raw
        /\ Suspects(read) = K /\ K \in SUBSET DOMAIN raw
        /\ \A i \in DOMAIN raw :
             read[i].display = IF raw[i].display # Missing THEN raw[i].display ELSE raw[i].argv
    <3> HIDE DEF raw, read
    <3> QED BY <2>1, <2>2, SuspectsKept
  <2>4. K # {} /\ K \in SUBSET Nat /\ IsFiniteSet(K)
    <3> HIDE DEF raw
    <3> QED BY <2>1, FlaggedIs DEF Flagged
  <2> HIDE DEF raw, read, K
  <2>5. /\ DOMAIN suspect = 1 .. Cardinality(K)
        /\ \A k \in 1 .. Cardinality(K) : Nth(K, k) \in K /\ suspect[k] = raw[Nth(K, k)]
    BY <2>1, <2>3, PickedList
  <2>6. Displays(Pick(read, K)) = [k \in 1 .. Cardinality(K) |-> read[Nth(K, k)].display]
    BY <2>3, DisplaysOfPick
  <2> HIDE DEF suspect
  <2>7. words = [k \in 1 .. Cardinality(K) |-> read[Nth(K, k)].display]
    <3>1. \A k \in 1 .. Cardinality(K) : words[k] = read[Nth(K, k)].display
      BY <2>3, <2>5
    <3>2. DOMAIN words = 1 .. Cardinality(K)
      BY <2>5
    <3> QED BY <2>5, <3>1, <3>2
  <2>8. FlaggedFragments(request) = Pick(read, K)
    <3>1. Flagged(read) # <<>>
      BY <2>3, <2>4, FlaggedIs
    <3> QED BY <2>3, <3>1 DEF FlaggedFragments, Flagged, read
  <2>9. Displays(FlaggedFragments(request)) = words
    BY <2>6, <2>7, <2>8
  <2>10. RequestHeadline(request) = read[CHOOSE i \in K : \A j \in K : i <= j].display
    BY <2>3, <2>4 DEF RequestHeadline, read
  <2>11. 1 \in 1 .. Cardinality(K) /\ Nth(K, 1) = CHOOSE i \in K : \A j \in K : i <= j
    BY <2>4, FirstIsLeast
  <2>12. words[1] = read[Nth(K, 1)].display
    BY <2>7, <2>11
  <2> QED BY <2>9, <2>10, <2>11, <2>12
<1> QED BY <1>1, ViewInvHolds, PTL

(* What the worker reads of a payload is a list. *)
LEMMA NotificationList ==
  ASSUME ViewInv
  PROVE  IsList(NotificationLines(payload))
<1>1. CASE payload.subject = "tool"
  <2>1. payload.tool = Missing \/ IsList(payload.tool)
    BY <1>1, ViewAssumption DEF ViewInv
  <2> QED BY <1>1, <2>1, EmptyIsList DEF NotificationLines
<1>2. CASE payload.subject # "tool"
  <2> DEFINE fragments == IF payload.fragments = Missing THEN <<>> ELSE payload.fragments
             K         == {i \in Suspects(fragments) : ~fragments[i].null}
             flagged   == Pick(fragments, K)
             kept      == IF flagged # <<>> THEN flagged ELSE fragments
             displays  == Displays(kept)
  <2>1. IsList(fragments)
    BY <1>2, ViewAssumption, EmptyIsList DEF ViewInv
  <2> HIDE DEF fragments
  <2>2. IsList(kept)
    <3>1. K \in SUBSET DOMAIN fragments
      BY DEF Suspects
    <3> HIDE DEF K
    <3>2. IsList(flagged)
      BY <2>1, <3>1, PickedList
    <3> QED BY <2>1, <3>2
  <2> HIDE DEF kept
  <2>3. IsList(displays)
    BY <2>2, DisplaysList
  <2> HIDE DEF displays
  <2>4. IsList(Present(displays))
    BY <2>3, PickedList DEF Present
  <2> QED BY <1>2, <2>4 DEF NotificationLines, fragments, K, flagged, kept, displays
<1> QED BY <1>1, <1>2

LEMMA FlaggedFragmentsList ==
  ASSUME IsList(request.fragments)
  PROVE  IsList(Displays(FlaggedFragments(request)))
<1>1. IsList(Flagged(request.fragments))
  BY FlaggedIs
<1>2. IsList(FlaggedFragments(request))
  BY <1>1 DEF FlaggedFragments
<1> QED BY <1>2, DisplaysList

(* Every section shows or counts all of its lines. *)
LEMMA SectionsCount ==
  ASSUME ViewInv, request # Missing, NEW section \in Sections
  PROVE  Len(section.cut.shown) + section.cut.hidden = Len(section.lines)
<1>1. /\ INBOX_FLAGGED_LINES \in Nat /\ INBOX_SCRIPT_LINES \in Nat
      /\ NOTIFICATION_FRAGMENT_LIMIT \in Nat /\ INBOX_TOOL_LINES - 1 \in Nat
  <2>1. INBOX_TOOL_LINES \in Nat \ {0}
    BY ViewAssumption
  <2> QED BY <2>1, ViewAssumption
<1>2. \/ /\ section.lines = NotificationLines(payload)
         /\ section.cut = Cut(NotificationLines(payload), NOTIFICATION_FRAGMENT_LIMIT)
      \/ /\ request.subject = "tool" /\ section.lines = ToolCallLines(request)
         /\ section.cut = Cut(ToolCallLines(request), INBOX_TOOL_LINES - 1)
      \/ /\ request.subject # "tool" /\ section.lines = Displays(FlaggedFragments(request))
         /\ section.cut = Cut(Displays(FlaggedFragments(request)), INBOX_FLAGGED_LINES)
      \/ /\ request.subject # "tool" /\ section.lines = ScriptText(request)
         /\ section.cut = Cut(ScriptText(request), INBOX_SCRIPT_LINES)
      \/ section.lines = <<>> /\ section.cut = Cut(<<>>, 0)
  BY DEF Sections, NotificationContent, ToolPreview, ShellPreview
<1>3. IsList(NotificationLines(payload))
  BY NotificationList
<1>4. ASSUME request.subject = "tool" PROVE IsList(ToolCallLines(request))
  <2>1. request = NormalizeBrokerRequest(payload) /\ payload \in Payloads
    BY DEF ViewInv
  <2>2. payload.subject = "tool" /\ request.args = ReadTool(payload.tool)
    BY <1>4, <2>1 DEF NormalizeBrokerRequest
  <2>3. payload.tool = Missing \/ IsList(payload.tool)
    BY <2>1, <2>2, ViewAssumption
  <2> QED BY <2>2, <2>3, EmptyIsList DEF ToolCallLines, ReadTool
<1>5. ASSUME request.subject # "tool"
      PROVE  IsList(Displays(FlaggedFragments(request))) /\ IsList(ScriptText(request))
  <2>1. IsList(request.command) /\ IsList(request.fragments)
    BY <1>5, ShellPayload
  <2>2. IsList(ScriptText(request))
    BY <2>1, PickedList DEF ScriptText
  <2> QED BY <2>1, <2>2, FlaggedFragmentsList
<1> HIDE DEF Sections
<1> QED BY <1>1, <1>2, <1>3, <1>4, <1>5, EmptyIsList, CutCounts

(* Of a payload with nothing missing the worker, which reads it by itself, *)
(* previews what the card does.                                            *)
LEMMA WorkerReadsTheSame ==
  ASSUME ViewInv, request # Missing, WellFormed(payload)
  PROVE  NotificationLines(payload) = CardLines
<1>1. request = NormalizeBrokerRequest(payload) /\ payload \in Payloads
  BY DEF ViewInv
<1>2. CASE payload.subject = "tool"
  <2>1. request.subject = "tool" /\ request.args = payload.tool
    BY <1>1, <1>2 DEF NormalizeBrokerRequest, ReadTool, WellFormed
  <2> QED BY <1>2, <2>1 DEF CardLines, ToolCallLines, NotificationLines, WellFormed
<1>3. CASE payload.subject # "tool"
  <2> DEFINE raw      == payload.fragments
             read     == request.fragments
             K        == Suspects(raw)
             kept     == IF Flagged(raw) # <<>> THEN Flagged(raw) ELSE raw
             displays == Displays(kept)
  <2>1. request.subject # "tool"
    BY <1>1, <1>3 DEF NormalizeBrokerRequest
  <2>2. raw # Missing /\ \A i \in DOMAIN raw : ~raw[i].null /\ raw[i].display # Missing
    BY <1>3 DEF WellFormed
  <2>3. IsList(raw) /\ read = [i \in DOMAIN raw |-> ReadFragment(raw[i])]
    BY <2>1, <2>2, ShellPayload DEF ReadFragments
  <2> HIDE DEF raw, read
  <2>4. /\ IsList(read) /\ DOMAIN read = DOMAIN raw
        /\ Suspects(read) = K /\ K \in SUBSET DOMAIN raw
        /\ \A i \in DOMAIN raw : read[i].display = raw[i].display
    BY <2>2, <2>3, SuspectsKept
  <2>5. IsList(kept) /\ IsList(displays) /\ DOMAIN displays = DOMAIN kept
    BY <2>3, FlaggedIs, DisplaysList
  <2>6. /\ DOMAIN Pick(raw, K) = 1 .. Cardinality(K)
        /\ \A k \in 1 .. Cardinality(K) : Nth(K, k) \in K /\ Pick(raw, K)[k] = raw[Nth(K, k)]
    <3> HIDE DEF K
    <3> QED BY <2>3, <2>4, PickedList
  <2>7. \A i \in DOMAIN kept : displays[i] # Missing
    BY <2>2, <2>4, <2>6 DEF Displays, Flagged
  <2>8. Displays(FlaggedFragments(request)) = displays
    <3>1. Flagged(read) # <<>> <=> Flagged(raw) # <<>>
      BY <2>3, <2>4, FlaggedIs
    <3>2. Displays(Pick(read, K)) = Displays(Pick(raw, K))
      <4>1. \A k \in 1 .. Cardinality(K) : Nth(K, k) \in DOMAIN raw
        BY <2>4, <2>6
      <4> HIDE DEF K
      <4>2. K \in SUBSET DOMAIN read /\ K \in SUBSET DOMAIN raw
        BY <2>4
      <4>3. Displays(Pick(read, K)) = [k \in 1 .. Cardinality(K) |-> read[Nth(K, k)].display]
        BY <2>4, <4>2, DisplaysOfPick
      <4>4. Displays(Pick(raw, K)) = [k \in 1 .. Cardinality(K) |-> raw[Nth(K, k)].display]
        BY <2>3, <4>2, DisplaysOfPick
      <4> QED BY <2>4, <4>1, <4>3, <4>4
    <3>3. Displays(read) = Displays(raw)
      BY <2>4 DEF Displays
    <3> QED BY <2>4, <3>1, <3>2, <3>3 DEF FlaggedFragments, Flagged, read
  <2>9. NotificationLines(payload) = Present(displays)
    <3>1. K = {i \in Suspects(raw) : ~raw[i].null}
      BY <2>2, <2>4
    <3>2. Flagged(raw) = Pick(raw, {i \in Suspects(raw) : ~raw[i].null})
      BY <3>1 DEF Flagged
    <3> HIDE DEF K
    <3> QED BY <1>3, <2>2, <3>2 DEF NotificationLines, raw
  <2>10. Present(displays) = displays
    <3> DEFINE whole == {i \in DOMAIN displays : displays[i] # Missing}
    <3>1. whole = DOMAIN displays
      BY <2>5, <2>7
    <3> HIDE DEF whole, displays
    <3> QED BY <2>5, <3>1, PickAll DEF Present, whole
  <2> QED BY <2>1, <2>8, <2>9, <2>10 DEF CardLines
<1> QED BY <1>2, <1>3

(* "The remainder of each section folds into a +N more count"              *)
(* (inbox.tsx:23) and the notification is "mirroring the inbox's own       *)
(* flaggedFragments" (sw.js:175): for payloads and limits of any size.     *)
THEOREM PreviewsMatch == ViewSpec => []PreviewsAgree
<1>1. ViewInv => PreviewsAgree
  BY SectionsCount, WorkerReadsTheSame DEF PreviewsAgree
<1> QED BY <1>1, ViewInvHolds, PTL

-----------------------------------------------------------------------------
(* The script.  What a line takes is left over, and the first of its words. *)
LEMMA TakenIs ==
  ASSUME NEW fragments, IsList(fragments), NEW line, NEW used,
         NEW t, t = TakeFragment(fragments, line, used), t # 0
  PROVE  /\ t \in DOMAIN fragments \ used /\ t \in Nat
         /\ \A j \in DOMAIN fragments \ used :
              fragments[j].display = fragments[t].display => t <= j
<1> DEFINE free     == DOMAIN fragments \ used
           exact    == {i \in free : fragments[i].display = line}
           contains == {i \in free : fragments[i].display # <<>>
                                     /\ Includes(line, fragments[i].display)}
           found    == IF exact # {} THEN exact ELSE contains
<1>1. found # {} /\ t = CHOOSE i \in found : \A j \in found : i <= j
  BY DEF TakeFragment
<1>2. found \in SUBSET DOMAIN fragments
  OBVIOUS
<1>3. \A i, j \in free :
        i \in found /\ fragments[j].display = fragments[i].display => j \in found
  OBVIOUS
<1>4. found \in SUBSET free
  OBVIOUS
<1> HIDE DEF found
<1>5. IsFiniteSet(found) /\ found \in SUBSET Nat
  BY <1>2, PickedList
<1>6. t \in found /\ \A j \in found : t <= j
  <2>1. \E i \in found : \A j \in found : i <= j
    BY <1>1, <1>5, LeastOfFinite
  <2> QED BY <1>1, <2>1
<1> QED BY <1>3, <1>4, <1>5, <1>6

(* What the lines up to m take. *)
TakesUpTo(g, r, m) ==
  \A n \in 1 .. m :
    g[n] = TakeFragment(r.fragments, r.command[n], {g[k] : k \in 1 .. n - 1} \ {0})

(* There is such a pairing of every prefix of the script, *)
LEMMA TakesExtend ==
  ASSUME NEW r, NEW m \in Nat, NEW g, TakesUpTo(g, r, m)
  PROVE  \E h : TakesUpTo(h, r, m + 1)
<1> DEFINE x == TakeFragment(r.fragments, r.command[m + 1], {g[k] : k \in 1 .. m} \ {0})
           h == [n \in 1 .. m + 1 |-> IF n = m + 1 THEN x ELSE g[n]]
<1>1. \A n \in 1 .. m : h[n] = g[n]
  OBVIOUS
<1>2. h[m + 1] = x
  OBVIOUS
<1>3. (m + 1) - 1 = m
  OBVIOUS
<1> HIDE DEF h
<1>4. \A n \in 1 .. m + 1 : {h[k] : k \in 1 .. n - 1} = {g[k] : k \in 1 .. n - 1}
  <2> SUFFICES ASSUME NEW n \in 1 .. m + 1
               PROVE  {h[k] : k \in 1 .. n - 1} = {g[k] : k \in 1 .. n - 1}
    OBVIOUS
  <2>1. \A k \in 1 .. n - 1 : k \in 1 .. m
    OBVIOUS
  <2>2. \A k \in 1 .. n - 1 : h[k] = g[k]
    BY <1>1, <2>1
  <2> QED BY <2>2
<1>5. ASSUME NEW n \in 1 .. m + 1
      PROVE  h[n] = TakeFragment(r.fragments, r.command[n], {h[k] : k \in 1 .. n - 1} \ {0})
  <2>1. CASE n = m + 1
    <3>1. {h[k] : k \in 1 .. n - 1} = {g[k] : k \in 1 .. m}
      BY <1>3, <1>4, <2>1
    <3> QED BY <1>2, <2>1, <3>1
  <2>2. CASE n # m + 1
    <3>1. n \in 1 .. m
      BY <2>2
    <3>2. h[n] = g[n] /\ {h[k] : k \in 1 .. n - 1} = {g[k] : k \in 1 .. n - 1}
      BY <1>1, <1>4, <3>1
    <3> QED BY <3>1, <3>2 DEF TakesUpTo
  <2> QED BY <2>1, <2>2
<1>6. TakesUpTo(h, r, m + 1)
  BY <1>5 DEF TakesUpTo
<1> QED BY <1>6

LEMMA TakesExist ==
  ASSUME NEW r, NEW m \in Nat
  PROVE  \E g : TakesUpTo(g, r, m)
<1> SUFFICES ASSUME ~\E g : TakesUpTo(g, r, m) PROVE FALSE
  OBVIOUS
<1> DEFINE Bad == {n \in Nat : ~\E g : TakesUpTo(g, r, n)}
<1>1. Bad \subseteq Nat /\ Bad # {}
  OBVIOUS
<1>2. PICK n \in Bad : \A x \in Bad : ~(<<x, n>> \in OpToRel(<, Nat))
  <2> HIDE DEF Bad
  <2> QED BY <1>1, NatLessThanWellFounded, WFMin
<1>3. n \in Nat /\ ~\E g : TakesUpTo(g, r, n)
  BY <1>2
<1>4. n # 0
  <2>1. TakesUpTo(<<>>, r, 0)
    BY DEF TakesUpTo
  <2> QED BY <1>3, <2>1
<1>5. n - 1 \in Nat /\ n - 1 < n /\ (n - 1) + 1 = n
  BY <1>3, <1>4
<1>6. n - 1 \notin Bad
  <2>1. <<n - 1, n>> \in OpToRel(<, Nat)
    BY <1>3, <1>5 DEF OpToRel
  <2> QED BY <1>2, <2>1
<1>7. PICK g : TakesUpTo(g, r, n - 1)
  BY <1>5, <1>6
<1>8. \E h : TakesUpTo(h, r, (n - 1) + 1)
  BY <1>5, <1>7, TakesExtend
<1> QED BY <1>3, <1>5, <1>8

(* so the recursion of ScriptLines has a solution, which it therefore is. *)
LEMMA ScriptLinesIs ==
  ASSUME NEW r, IsList(r.command)
  PROVE  /\ DOMAIN ScriptLines(r) = 1 .. Len(r.command) /\ Len(r.command) \in Nat
         /\ TakesUpTo(ScriptLines(r), r, Len(r.command))
<1> DEFINE m == Len(r.command)
           Solves(f) == f = [n \in DOMAIN r.command |->
             TakeFragment(r.fragments, r.command[n], {f[k] : k \in 1 .. n - 1} \ {0})]
           taken == CHOOSE f : Solves(f)
<1>1. m \in Nat /\ DOMAIN r.command = 1 .. m
  BY ListFacts
<1>2. PICK g : TakesUpTo(g, r, m)
  BY <1>1, TakesExist
<1> DEFINE h == [n \in 1 .. m |-> g[n]]
<1>3. Solves(h)
  <2>1. \A n \in 1 .. m : h[n] = g[n]
    OBVIOUS
  <2>2. ASSUME NEW n \in 1 .. m
        PROVE  h[n] = TakeFragment(r.fragments, r.command[n], {h[k] : k \in 1 .. n - 1} \ {0})
    <3>1. \A k \in 1 .. n - 1 : k \in 1 .. m
      BY <1>1
    <3>2. {h[k] : k \in 1 .. n - 1} = {g[k] : k \in 1 .. n - 1}
      <4> HIDE DEF h
      <4> QED BY <2>1, <3>1
    <3> QED BY <1>2, <2>1, <3>2 DEF TakesUpTo
  <2>3. DOMAIN h = 1 .. m /\ h = [n \in 1 .. m |-> h[n]]
    OBVIOUS
  <2> HIDE DEF h
  <2> QED BY <1>1, <2>2, <2>3
<1>4. Solves(taken)
  <2> HIDE DEF Solves
  <2> QED BY <1>3
<1>5. ScriptLines(r) = taken
  BY DEF ScriptLines
<1> HIDE DEF taken
<1>6. DOMAIN taken = 1 .. m /\ TakesUpTo(taken, r, m)
  BY <1>1, <1>4 DEF TakesUpTo
<1> QED BY <1>1, <1>5, <1>6

(* "Each fragment is consumed once, so repeated lines map to fragments in  *)
(* order" (approval.ts:73): for any script and fragments, however often    *)
(* their words recur or contain one another.                               *)
THEOREM FragmentsConsumedOnce == ViewSpec => []ConsumedOnceInOrder
<1>1. ViewInv => ConsumedOnceInOrder
  <2> DEFINE taken     == ScriptLines(request)
             fragments == request.fragments
  <2> SUFFICES ASSUME ViewInv, ShellShown,
                      NEW i \in DOMAIN taken, NEW j \in DOMAIN taken,
                      i < j, taken[i] # 0, taken[j] # 0
               PROVE  /\ taken[i] # taken[j]
                      /\ fragments[taken[i]].display = fragments[taken[j]].display
                           => taken[i] < taken[j]
    BY DEF ConsumedOnceInOrder
  <2>1. IsList(request.command) /\ IsList(fragments)
    BY ShellPayload DEF ShellShown
  <2>2. /\ DOMAIN taken = 1 .. Len(request.command) /\ Len(request.command) \in Nat
        /\ TakesUpTo(taken, request, Len(request.command))
    BY <2>1, ScriptLinesIs
  <2> HIDE DEF taken
  <2> DEFINE before(n) == {taken[k] : k \in 1 .. n - 1} \ {0}
  <2>3. ASSUME NEW n \in DOMAIN taken, taken[n] # 0
        PROVE  /\ taken[n] \in DOMAIN fragments \ before(n) /\ taken[n] \in Nat
               /\ \A p \in DOMAIN fragments \ before(n) :
                    fragments[p].display = fragments[taken[n]].display => taken[n] <= p
    <3>1. taken[n] = TakeFragment(fragments, request.command[n], before(n))
      BY <2>2 DEF TakesUpTo
    <3> HIDE DEF fragments, before
    <3> QED BY <2>1, <2>3, <3>1, TakenIs
  <2>4. i \in 1 .. j - 1 /\ \A k \in 1 .. i - 1 : k \in 1 .. j - 1
    BY <2>2
  <2>5. taken[i] \in before(j) /\ before(i) \in SUBSET before(j)
    BY <2>4
  <2> HIDE DEF before
  <2>6. /\ taken[i] \in Nat /\ taken[j] \in Nat
        /\ taken[j] \in DOMAIN fragments \ before(j)
        /\ \A p \in DOMAIN fragments \ before(i) :
             fragments[p].display = fragments[taken[i]].display => taken[i] <= p
    BY <2>3
  <2>7. taken[i] # taken[j] /\ taken[j] \in DOMAIN fragments \ before(i)
    BY <2>5, <2>6
  <2>8. fragments[taken[i]].display = fragments[taken[j]].display => taken[i] <= taken[j]
    BY <2>6, <2>7
  <2> QED BY <2>6, <2>7, <2>8
<1> QED BY <1>1, ViewInvHolds, PTL
=============================================================================
