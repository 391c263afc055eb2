------------------------------ MODULE MCBrowser ------------------------------
(***************************************************************************)
(* The browser side, part by part.  The parts share no state that their    *)
(* modules model, so one behaviour moves one of them, the one part names,  *)
(* and the others stay in a fixed initial state: the run covers the sum of *)
(* their state spaces, not the product.  The scanner and the served shell  *)
(* are instances, the other modules are extended.                          *)
(***************************************************************************)
EXTENDS Page, Theme, ApprovalView, Notifications, BrokerConfig, ShellCache

VARIABLES
  part,                                        \* the part that moves
  printed, scanned, tokens,                    \* JsonHighlight
  served, up, tab, running, shell, scripts     \* ServedShell

Json == INSTANCE JsonHighlight WITH
  MaxString <- 2, value <- printed, i <- scanned

Served == INSTANCE ServedShell WITH
  Deployments <- <<"app1", "app2", "app3">>, deployed <- served, page <- tab

-----------------------------------------------------------------------------
(* Payloads: scripts of up to three lines over two commands, with up to    *)
(* three fragments, well formed or with garbled fields, and tool calls.    *)
Lists(S, n) == UNION {[1..k -> S] : k \in 0..n}

(* Pick is the filter it stands for, up to four elements. *)
ASSUME PickIsFilter ==
  \A s \in Lists(1..3, 4), kept \in SUBSET (1..3) :
    Pick(s, {i \in DOMAIN s : s[i] \in kept}) = SelectSeq(s, LAMBDA x : x \in kept)

Entries(displays, verdicts) ==
  [null : {FALSE}, display : displays, argv : {<<"x">>}, verdict : verdicts]

(* An entry that is null, and a record with neither display nor argv.      *)
BareEntries == [null : BOOLEAN, display : {Missing}, argv : {<<>>}, verdict : {Missing}]

ShellPayloads(entries, n) ==
  [subject : {"shell"}, command : Lists({<<>>, <<"x">>, <<"x", "y">>}, 3),
   fragments : Lists(entries, n) \cup {Missing}]

AllPayloads ==
  [subject : {"tool"}, tool : Lists({"k"}, 4) \cup {Missing}]
    \cup ShellPayloads(BareEntries
            \cup Entries({<<"x">>, <<"y">>, Missing}, {"allow", "deny", "garbled"}), 2)
    \cup ShellPayloads(Entries({<<"x">>}, {"allow", "ask"}), 3)

-----------------------------------------------------------------------------
jsonVars   == <<printed, scanned, tokens>>
servedVars == <<served, up, tab, running, shell, scripts>>

BrowserInit ==
  /\ part \in {"page", "notes", "config", "theme", "view", "json", "shell", "served"}
  /\ PageInit /\ NoteInit
  /\ ConfigInit /\ (part # "config" => persists)
  /\ ThemeInit
  /\ part # "theme" => os = "light" /\ storage = "works" /\ stored = "absent"
  /\ ShellInit /\ (part # "shell" => oldCache = cache)
  /\ Served!Init /\ (part # "served" => served = 1)
  /\ IF part = "view" THEN ViewInit
     ELSE payload = [subject |-> "tool", tool |-> Missing] /\ request = Missing
  /\ IF part = "json" THEN Json!Init
     ELSE printed = <<>> /\ scanned = 0 /\ tokens = <<>>

PageStep   == /\ part = "page" /\ PageNext
              /\ UNCHANGED <<part, noteVars, configVars, themeVars, viewVars, jsonVars, shellVars, servedVars>>
NoteStep   == /\ part = "notes" /\ NoteNext
              /\ UNCHANGED <<part, pageVars, configVars, themeVars, viewVars, jsonVars, shellVars, servedVars>>
ConfigStep == /\ part = "config" /\ ConfigNext
              /\ UNCHANGED <<part, pageVars, noteVars, themeVars, viewVars, jsonVars, shellVars, servedVars>>
ThemeStep  == /\ part = "theme" /\ ThemeNext
              /\ UNCHANGED <<part, pageVars, noteVars, configVars, viewVars, jsonVars, shellVars, servedVars>>
ViewStep   == /\ part = "view" /\ Show
              /\ UNCHANGED <<part, pageVars, noteVars, configVars, themeVars, jsonVars, shellVars, servedVars>>
JsonStep   == /\ part = "json" /\ Json!Token
              /\ UNCHANGED <<part, pageVars, noteVars, configVars, themeVars, viewVars, shellVars, servedVars>>

BesideShell  == <<part, pageVars, noteVars, configVars, themeVars, viewVars, jsonVars, servedVars>>
BesideServed == <<part, pageVars, noteVars, configVars, themeVars, viewVars, jsonVars, shellVars>>

ShellStep  == part = "shell" /\ ShellNext /\ UNCHANGED BesideShell
ServedStep == part = "served" /\ Served!Next /\ UNCHANGED BesideServed

BrowserNext == \/ PageStep \/ NoteStep \/ ConfigStep \/ ThemeStep
               \/ ViewStep \/ JsonStep \/ ShellStep \/ ServedStep

(* ShellFairness, whose actions are enabled only in the part that moves    *)
(* them, and the fairness of ServedShell's Spec.                           *)
BrowserFairness ==
  /\ ShellFairness
  /\ WF_servedVars(part = "served" /\ Served!Navigate /\ UNCHANGED BesideServed)
  /\ WF_servedVars(part = "served" /\ Served!Load /\ UNCHANGED BesideServed)

BrowserSpec ==
  /\ BrowserInit
  /\ [][BrowserNext]_<<BesideShell, shellVars>>
  /\ BrowserFairness

-----------------------------------------------------------------------------
(* The properties of the instances, which their modules explain.           *)

(* Keys, strings and numbers are coloured as such (json-highlight.ts:13).  *)
TokensAreRuns == Json!TokensAreRuns

(* Worker and server together: once deployments stop, the tab has the new  *)
(* page and its script (sw.js:28, serve.mjs:102).                          *)
HealsOnline == part = "served" => Served!HealsOnline
=============================================================================
