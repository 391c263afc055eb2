---------------------------- MODULE ApprovalView ----------------------------
(***************************************************************************)
(* From a broker payload to what an operator sees: normalisation, the      *)
(* flagged fragments, the lines of the script, the previews of card and    *)
(* notification (approval-normalize.ts, approval.ts, inbox.tsx, shared.tsx *)
(* and the content functions of sw.js).  A text is the sequence of the     *)
(* words in it: trimming drops nothing, and includes is being a subword.   *)
(* A command is the sequence of its lines.                                 *)
(***************************************************************************)
EXTENDS Naturals, Sequences, SequencesExt, FiniteSets, Selection

CONSTANTS
  Payloads,   \* the broker payloads that arrive
  Missing,     \* a field that is missing or of a wrong type
  INBOX_FLAGGED_LINES, INBOX_SCRIPT_LINES, INBOX_TOOL_LINES, NOTIFICATION_FRAGMENT_LIMIT

VARIABLES
  payload,   \* what the broker delivered
  request    \* the normalised request, Missing until it is normalised

viewVars == <<payload, request>>

IsList(s) == s \in Seq(ToSet(s))

(* A payload is of one of two kinds; which fields are garbled is open. *)
ASSUME ViewAssumption ==
  /\ \A p \in Payloads :
       IF p.subject = "tool" THEN p.tool = Missing \/ IsList(p.tool)
       ELSE IsList(p.command) /\ (p.fragments = Missing \/ IsList(p.fragments))
  /\ {INBOX_FLAGGED_LINES, INBOX_SCRIPT_LINES, NOTIFICATION_FRAGMENT_LIMIT} \subseteq Nat
  /\ INBOX_TOOL_LINES \in Nat \ {0}

-----------------------------------------------------------------------------
(* Mutant: a verdict that is not known counts as allowed. *)
AsVerdictAllow(v) == IF v \in {"allow", "deny", "ask", "defer"} THEN v ELSE "allow"

AsVerdict(v) == IF v \in {"allow", "deny", "ask", "defer"} THEN v ELSE "defer"

JoinLines(command) == FlattenSeq(command)

WholeCommandFragment(command) ==
  [display |-> JoinLines(command), verdict |-> "ask"]

(* asRecord reads a null entry as an empty record, and a missing argv is    *)
(* an empty one.                                                            *)
ReadFragment(entry) ==
  [display |-> IF entry.display # Missing THEN entry.display ELSE entry.argv,
   verdict |-> AsVerdict(entry.verdict)]

ReadFragments(raw, command) ==
  IF raw = Missing
  THEN IF JoinLines(command) = <<>> THEN <<>> ELSE <<WholeCommandFragment(command)>>
  ELSE [i \in DOMAIN raw |-> ReadFragment(raw[i])]

ReadTool(raw) == IF raw = Missing THEN <<>> ELSE raw

NormalizeBrokerRequest(p) ==
  IF p.subject = "tool"
  THEN [subject |-> "tool", args |-> ReadTool(p.tool)]
  ELSE [subject |-> "shell", command |-> p.command,
        fragments |-> ReadFragments(p.fragments, p.command)]

-----------------------------------------------------------------------------
Suspects(fragments) == {i \in DOMAIN fragments : fragments[i].verdict # "allow"}

Flagged(fragments) == Pick(fragments, Suspects(fragments))

FlaggedFragments(r) ==
  IF Flagged(r.fragments) # <<>> THEN Flagged(r.fragments) ELSE r.fragments

(* find, and not the filter of FlaggedFragments. *)
RequestHeadline(r) ==
  LET hits == Suspects(r.fragments) IN
  CASE hits # {} -> r.fragments[CHOOSE i \in hits : \A j \in hits : i <= j].display
    [] hits = {} /\ r.fragments # <<>> -> r.fragments[1].display
    [] OTHER -> JoinLines(r.command)

Includes(text, word) ==
  \E i \in 1..(Len(text) - Len(word) + 1) : SubSeq(text, i, i + Len(word) - 1) = word

(* Mutant: a fragment may be paired with several lines. *)
TakeFragmentAgain(fragments, line, used) ==
  LET exact    == {i \in DOMAIN fragments : fragments[i].display = line}
      contains == {i \in DOMAIN fragments :
                     fragments[i].display # <<>> /\ Includes(line, fragments[i].display)}
      found    == IF exact # {} THEN exact ELSE contains
  IN  IF line = <<>> \/ found = {} THEN 0 ELSE CHOOSE i \in found : \A j \in found : i <= j

(* The index of the fragment a line is paired with, 0 for none: the first  *)
(* one left that equals the line, else the first that the line contains.   *)
TakeFragment(fragments, line, used) ==
  LET free     == DOMAIN fragments \ used
      exact    == {i \in free : fragments[i].display = line}
      contains == {i \in free : fragments[i].display # <<>> /\ Includes(line, fragments[i].display)}
      found    == IF exact # {} THEN exact ELSE contains
  IN  IF line = <<>> \/ found = {} THEN 0 ELSE CHOOSE i \in found : \A j \in found : i <= j

(* For each line of the script, the index of its fragment: the lines come  *)
(* in order, and a fragment that a line has taken is not left to the next. *)
ScriptLines(r) ==
  LET taken[n \in DOMAIN r.command] ==
        TakeFragment(r.fragments, r.command[n], {taken[k] : k \in 1 .. n - 1} \ {0})
  IN  taken

-----------------------------------------------------------------------------
(* The first lines and how many the "+N more" tail stands for. *)
Cut(lines, limit) ==
  LET shown == SubSeq(lines, 1, IF limit < Len(lines) THEN limit ELSE Len(lines)) IN
  [shown |-> shown, hidden |-> Len(lines) - Len(shown)]

Displays(fragments) == [i \in DOMAIN fragments |-> fragments[i].display]

ScriptText(r) == Pick(r.command, {i \in DOMAIN r.command : r.command[i] # <<>>})

ShellPreview(r) ==
  [flagged |-> Cut(Displays(FlaggedFragments(r)), INBOX_FLAGGED_LINES),
   script  |-> IF Len(ScriptText(r)) > 1
               THEN Cut(ScriptText(r), INBOX_SCRIPT_LINES) ELSE Cut(<<>>, 0)]

ToolCallLines(r) == r.args

ToolPreview(r) == Cut(ToolCallLines(r), INBOX_TOOL_LINES - 1)

Present(displays) == Pick(displays, {i \in DOMAIN displays : displays[i] # Missing})

(* Mutant: the notification previews what asks, not what is flagged. *)
NotificationLinesAsk(p) ==
  IF p.subject = "tool" THEN (IF p.tool = Missing THEN <<>> ELSE p.tool)
  ELSE LET fragments == IF p.fragments = Missing THEN <<>> ELSE p.fragments
           asked     == Pick(fragments, {i \in DOMAIN fragments : fragments[i].verdict = "ask"})
           picked    == IF asked # <<>> THEN asked ELSE fragments
       IN  Present(Displays(picked))

(* The worker reads the payload itself, without normalising it: to it a     *)
(* null entry is not suspect.                                               *)
NotificationLines(p) ==
  IF p.subject = "tool" THEN (IF p.tool = Missing THEN <<>> ELSE p.tool)
  ELSE LET fragments == IF p.fragments = Missing THEN <<>> ELSE p.fragments
           flagged   == Pick(fragments, {i \in Suspects(fragments) : ~fragments[i].null})
           picked    == IF flagged # <<>> THEN flagged ELSE fragments
       IN  Present(Displays(picked))

NotificationContent(p) == Cut(NotificationLines(p), NOTIFICATION_FRAGMENT_LIMIT)

-----------------------------------------------------------------------------
ViewInit == payload \in Payloads /\ request = Missing

(* The bridge hands the payload over and the inbox shows it. *)
Show ==
  /\ request = Missing
  /\ request' = NormalizeBrokerRequest(payload)
  /\ UNCHANGED payload

ViewSpec == ViewInit /\ [][Show]_viewVars

ShellShown == request # Missing /\ request.subject = "shell"

(* What the payload's card previews. *)
CardLines ==
  IF request.subject = "tool" THEN ToolCallLines(request)
  ELSE Displays(FlaggedFragments(request))

(* The sections that card and notification show, with all their lines. *)
Sections ==
  {[lines |-> NotificationLines(payload), cut |-> NotificationContent(payload)]} \cup
  IF request.subject = "tool"
  THEN {[lines |-> ToolCallLines(request), cut |-> ToolPreview(request)]}
  ELSE {[lines |-> Displays(FlaggedFragments(request)), cut |-> ShellPreview(request).flagged],
        [lines |-> IF Len(ScriptText(request)) > 1 THEN ScriptText(request) ELSE <<>>,
         cut   |-> ShellPreview(request).script]}

WellFormed(p) ==
  IF p.subject = "tool" THEN p.tool # Missing
  ELSE /\ p.fragments # Missing
       /\ \A i \in DOMAIN p.fragments : ~p.fragments[i].null /\ p.fragments[i].display # Missing

-----------------------------------------------------------------------------
(* "anything else (ask/deny/defer) is what the operator needs to weigh"    *)
(* (approval.ts:9): whatever the payload leaves out or garbles, a fragment *)
(* that does not say "allow" is shown as flagged, with its own words, and  *)
(* nothing else is unless nothing is flagged; and the headline, which      *)
(* "finds it directly" (approval.ts:29), is the first of them.             *)
SuspectIsFlagged ==
  ShellShown /\ payload.fragments # Missing =>
    LET suspect == Pick(payload.fragments, Suspects(payload.fragments))
        words   == [i \in DOMAIN suspect |->
                      IF suspect[i].display # Missing THEN suspect[i].display ELSE suspect[i].argv]
    IN  suspect # <<>> => /\ Displays(FlaggedFragments(request)) = words
                          /\ RequestHeadline(request) = words[1]

(* "Each fragment is consumed once, so repeated lines map to fragments in  *)
(* order" (approval.ts:73): no two lines carry one fragment, and fragments *)
(* with the same words are carried in their own order, by lines that are   *)
(* equal or that only contain those words.                                 *)
ConsumedOnceInOrder ==
  ShellShown =>
    LET taken == ScriptLines(request) IN
    \A i, j \in DOMAIN taken :
      i < j /\ taken[i] # 0 /\ taken[j] # 0 =>
        /\ taken[i] # taken[j]
        /\ request.fragments[taken[i]].display = request.fragments[taken[j]].display
             => taken[i] < taken[j]

(* "The remainder of each section folds into a +N more count"              *)
(* (inbox.tsx:23), and the notification is "mirroring the inbox's own      *)
(* flaggedFragments ... mirroring toolCallLines" (sw.js:175): every        *)
(* section shows or counts all of its lines, and of a payload with nothing *)
(* missing the worker, which reads it by itself, previews what the card    *)
(* does.                                                                   *)
PreviewsAgree ==
  request # Missing =>
    /\ \A section \in Sections : Len(section.cut.shown) + section.cut.hidden = Len(section.lines)
    /\ WellFormed(payload) => NotificationLines(payload) = CardLines
=============================================================================
