---------------------------- MODULE BrokerConfig ----------------------------
(***************************************************************************)
(* Where the page's broker address comes from: the ?broker= deep link, the *)
(* setting in localStorage, the build-time default or the setup form       *)
(* (broker-config.ts, broker-setup.tsx and the boot effect of App.tsx).    *)
(* A text is the address it names with or without surrounding blanks and   *)
(* trailing slashes; Blank stands for texts that are empty when trimmed.   *)
(***************************************************************************)
EXTENDS Naturals

CONSTANTS
  Names,      \* well-formed ws addresses
  BadNames,   \* other texts: an http address, a typo
  Default,    \* the build-time default, or Null
  Blank,      \* a text of blanks, or nothing
  Null,       \* null
  MaxOpens    \* bound: times the app is opened or reloaded

VARIABLES
  saved,          \* the localStorage entry, or Null
  persists,       \* localStorage works (it throws in private mode)
  query,          \* the text of ?broker= in the address bar, or Null
  base,           \* App's brokerBase
  bootState,      \* "closed" (no page), "painted", "no-sw", "needs-broker" or "ready"
  reconfiguring,  \* App's reconfiguring
  value,          \* the text in the form, or Null when the form is not shown
  picked,         \* history: the address last chosen by link or form, else Null
  opens           \* how often the app was opened

deviceVars == <<saved, persists>>
configVars == <<deviceVars, query, base, bootState, reconfiguring, value, picked, opens>>

Text  == [name : Names \cup BadNames, pad : BOOLEAN, slash : BOOLEAN]
Texts == Text \cup {Blank}

ASSUME ConfigAssumption ==
  /\ Blank \notin Text /\ Null \notin Texts /\ Null \notin Names \cup BadNames
  /\ Default \in Names \cup BadNames \cup {Null}

Trim(t) == IF t = Blank THEN Blank ELSE [t EXCEPT !.pad = FALSE]

IsValidBrokerBase(t) == t # Blank /\ t.name \in Names

Plain(n) == IF n = Null THEN Null ELSE [name |-> n, pad |-> FALSE, slash |-> FALSE]

(* The endpoint the bridge asks for: slashes at the end are dropped. *)
BrokerWsUrl(t) == [t EXCEPT !.slash = FALSE]

ReadStored == IF persists THEN saved ELSE Null

(* Mutant: the deep link is used but not kept. *)
SetStoredNot(t) == saved' = saved

SetStoredBrokerBase(t) ==
  saved' = IF ~persists THEN saved ELSE IF Trim(t) = Blank THEN Null ELSE Trim(t)

(* The form is shown for a missing address and for changing one. *)
FormUp(boot, changing) == boot = "needs-broker" \/ changing

ConfigInit ==
  /\ saved = Null /\ persists \in BOOLEAN /\ query = Null
  /\ base = Null /\ bootState = "closed" /\ reconfiguring = FALSE /\ value = Null
  /\ picked = Null /\ opens = 0

(* The app is opened by its own address or by a deep link; the first paint *)
(* knows the build-time default only.                                      *)
Open(q) ==
  /\ opens < MaxOpens /\ opens' = opens + 1
  /\ query' = q
  /\ base' = Plain(Default)
  /\ bootState' = "painted"
  /\ reconfiguring' = FALSE /\ value' = Null
  /\ UNCHANGED <<deviceVars, picked>>

(* The page is reloaded; the address bar still has the query. *)
ReloadPage ==
  /\ bootState # "closed"
  /\ Open(query)

(* The boot effect, with resolveBrokerBase. *)
ResolveBrokerBase ==
  IF query # Null /\ Trim(query) # Blank
  THEN base' = Trim(query) /\ SetStoredBrokerBase(query) /\ picked' = Trim(query)
  ELSE /\ base' = IF ReadStored # Null THEN ReadStored ELSE Plain(Default)
       /\ UNCHANGED <<saved, picked>>

Boot ==
  /\ bootState = "painted"
  /\ ResolveBrokerBase
  /\ bootState' = IF base' # Null THEN "ready" ELSE "needs-broker"
  /\ value' = IF base' # Null THEN Null ELSE Blank
  /\ UNCHANGED <<persists, query, reconfiguring, opens>>

(* A browser without service workers. *)
BootWithoutWorker ==
  /\ bootState = "painted"
  /\ bootState' = "no-sw"
  /\ UNCHANGED <<deviceVars, query, base, reconfiguring, value, picked, opens>>

Change ==
  /\ bootState = "ready" /\ ~reconfiguring
  /\ reconfiguring' = TRUE /\ value' = base
  /\ UNCHANGED <<deviceVars, query, base, bootState, picked, opens>>

Cancel ==
  /\ reconfiguring
  /\ reconfiguring' = FALSE /\ value' = Null
  /\ UNCHANGED <<deviceVars, query, base, bootState, picked, opens>>

Type(t) ==
  /\ FormUp(bootState, reconfiguring)
  /\ value' = t
  /\ UNCHANGED <<deviceVars, query, base, bootState, reconfiguring, picked, opens>>

(* saveBrokerBase, behind the form's validity check. *)
Submit ==
  /\ FormUp(bootState, reconfiguring)
  /\ IsValidBrokerBase(Trim(value))
  /\ SetStoredBrokerBase(Trim(value))
  /\ base' = Trim(value)
  /\ bootState' = "ready" /\ reconfiguring' = FALSE /\ value' = Null
  /\ picked' = Trim(value)
  /\ UNCHANGED <<persists, query, opens>>

ConfigNext ==
  \/ \E q \in Texts \cup {Null} : Open(q)
  \/ ReloadPage \/ Boot \/ BootWithoutWorker \/ Change \/ Cancel \/ Submit
  \/ \E t \in Texts : Type(t)

ConfigSpec == ConfigInit /\ [][ConfigNext]_configVars

-----------------------------------------------------------------------------
(* "also persisted so reloads ... keep using it" (broker-config.ts:6): on  *)
(* a device whose storage works, every session dials the one endpoint of   *)
(* the address that was chosen last, by link or by form and however it was *)
(* spelled, and has the default before that.                               *)
ChoiceSurvives ==
  bootState \in {"ready", "needs-broker"} /\ persists =>
    IF picked = Null THEN base = Plain(Default)
    ELSE base # Null /\ BrokerWsUrl(base) = Plain(picked.name)
=============================================================================
