------------------------------- MODULE Theme --------------------------------
(***************************************************************************)
(* Light or dark: the bootstrap script of app/layout.tsx, the provider in  *)
(* theme.tsx and the toggle.  The script paints before React runs; the     *)
(* mount effects run in one step, the re-render they cause in another, and *)
(* the browser may paint in between.  A change of the OS setting reaches   *)
(* the page as an event.                                                   *)
(***************************************************************************)
Preferences == {"system", "light", "dark"}

VARIABLES
  os,          \* the OS setting, "light" or "dark"
  storage,     \* localStorage: "works", "readonly" (setItem throws) or "blocked"
  stored,      \* the entry: a preference, "junk" or "absent"
  stage,       \* "blank", "script", "mounted", "adopted" or "crashed"
  painted,     \* what the class on <html> says
  preference,  \* the provider's preference
  resolved,    \* the provider's resolved
  listening,   \* the provider listens to OS changes
  event,       \* an OS change has not been dispatched yet
  chosen       \* history: the preference last set with the toggle, or "absent"

themeVars == <<os, storage, stored, stage, painted, preference, resolved, listening, event, chosen>>

ThemeInit ==
  /\ os \in {"light", "dark"}
  /\ storage \in {"works", "readonly", "blocked"}
  /\ stored \in Preferences \cup {"junk", "absent"}
  /\ stage = "blank" /\ painted = "light"
  /\ preference = "system" /\ resolved = "dark" /\ listening = FALSE /\ event = FALSE
  /\ chosen = stored

(* resolveTheme, given the OS setting. *)
ResolveTheme(pref, setting) == IF pref = "system" THEN setting ELSE pref

ReadStoredPreference == IF stored \in Preferences THEN stored ELSE "system"

(* The script reads the entry as it is: what it does not know is light. *)
ThemeBootstrap ==
  /\ stage = "blank"
  /\ stage' = "script"
  /\ painted' = IF storage = "blocked" THEN "light"
                ELSE IF stored = "dark" THEN "dark"
                ELSE IF stored \in {"system", "absent"} THEN os ELSE "light"
  /\ UNCHANGED <<os, storage, stored, preference, resolved, listening, event, chosen>>

(* The mount effects: read the entry, then apply the initial preference.   *)
(* Reading throws where localStorage does, and an effect that throws takes *)
(* the page down to its error screen.                                      *)
Mount ==
  /\ stage = "script"
  /\ IF storage = "blocked"
     THEN stage' = "crashed" /\ UNCHANGED <<painted, preference, resolved, listening>>
     ELSE /\ stage' = "mounted"
          /\ preference' = ReadStoredPreference
          /\ painted' = ResolveTheme("system", os)
          /\ resolved' = painted'
          /\ listening' = TRUE
  /\ UNCHANGED <<os, storage, stored, event, chosen>>

(* Mutant: the listener is not attached again. *)
ApplyDeaf(pref) ==
  /\ painted' = ResolveTheme(pref, os) /\ resolved' = painted'
  /\ listening' = (listening /\ pref = "system")

(* The effect for a changed preference. *)
Apply(pref) ==
  /\ painted' = ResolveTheme(pref, os) /\ resolved' = painted'
  /\ listening' = (pref = "system")

(* The re-render with the preference that was read. *)
Adopt ==
  /\ stage = "mounted"
  /\ stage' = "adopted"
  /\ IF preference # "system" THEN Apply(preference) ELSE UNCHANGED <<painted, resolved, listening>>
  /\ UNCHANGED <<os, storage, stored, preference, event, chosen>>

(* ORDER, as a cycle. *)
NextPreference == [system |-> "light", light |-> "dark", dark |-> "system"]

(* State first, then storage, which may throw. *)
SetPreference(pref) ==
  /\ preference' = pref
  /\ Apply(pref)
  /\ stored' = IF storage = "works" THEN pref ELSE stored

Toggle ==
  /\ stage = "adopted"
  /\ SetPreference(NextPreference[preference])
  /\ chosen' = preference'
  /\ UNCHANGED <<os, storage, stage, event>>

OsChange ==
  /\ os' = IF os = "dark" THEN "light" ELSE "dark"
  /\ event' = listening
  /\ UNCHANGED <<storage, stored, stage, painted, preference, resolved, listening, chosen>>

(* The media query's change event, if the listener is still there. *)
OnChange ==
  /\ event
  /\ event' = FALSE
  /\ IF listening THEN Apply("system") ELSE UNCHANGED <<painted, resolved, listening>>
  /\ UNCHANGED <<os, storage, stored, stage, preference, chosen>>

Reload ==
  /\ stage # "blank"
  /\ stage' = "blank" /\ painted' = "light" /\ event' = FALSE
  /\ preference' = "system" /\ resolved' = "dark" /\ listening' = FALSE
  /\ UNCHANGED <<os, storage, stored, chosen>>

ThemeNext ==
  ThemeBootstrap \/ Mount \/ Adopt \/ Toggle \/ OsChange \/ OnChange \/ Reload

ThemeSpec == ThemeInit /\ [][ThemeNext]_themeVars

-----------------------------------------------------------------------------
(* "system follows the OS setting and re-evaluates as it changes;          *)
(* light/dark pin the choice" (theme.tsx:10), and a load "adopts whatever  *)
(* the visitor last chose" (theme.tsx:57): once booted and with no event   *)
(* under way, the page is painted as the preference says, and where        *)
(* storage works that is the choice made last, reloads ago or not.         *)
PaintedAsChosen ==
  stage = "adopted" /\ ~event =>
    /\ painted = ResolveTheme(preference, os) /\ resolved = painted
    /\ storage = "works" /\ chosen \in Preferences => preference = chosen
=============================================================================
