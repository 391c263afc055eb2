----------------------------- MODULE ServedShell -----------------------------
(***************************************************************************)
(* The service worker's fetch handlers over the static server, across      *)
(* deployments.  Each deployment has a page and a script with a name of    *)
(* its own; the server answers a script it does not have with its page,    *)
(* status 200, and the worker keeps what is ok.                            *)
(***************************************************************************)
EXTENDS Naturals

CONSTANT Deployments      \* the stem of each deployment's script

VARIABLES
    deployed,     \* the deployment the server serves
    up,           \* the network
    page,         \* the deployment of the page in the tab, 0 for none
    running,      \* what the tab's script turned out to be
    shell,        \* the deployment of the page kept for "/"
    scripts       \* what is kept for each deployment's script

servedVars == <<deployed, up, page, running, shell, scripts>>

All == DOMAIN Deployments
Script(d) == [stem |-> Deployments[d], ext |-> ".js"]
FilesOf(d) == {[stem |-> "", ext |-> "/index.html"], Script(d)}

Server == INSTANCE StaticServer WITH
    Clients <- {}, Requested <- {}, MaxSignals <- 0, kind <- "published",
    files <- FilesOf(deployed), proc <- "serving", sending <- << >>, proxy <- {},
    signals <- 0, alarm <- FALSE

(* The type of what the server sends for a deployment's script.             *)
Answer(d) == {Server!mimeFor(file) : file \in Server!resolveTarget(FilesOf(deployed), Script(d))}

Init ==
    /\ deployed \in All /\ up = TRUE /\ page = 0 /\ running = "none"
    /\ shell = deployed
    /\ scripts = [d \in All |-> "absent"]

(* Network first; the page that came is kept.                               *)
Navigate ==
    /\ page' = IF up THEN deployed ELSE shell
    /\ shell' = page'
    /\ running' = "none"
    /\ UNCHANGED <<deployed, up, scripts>>

(* Mutant: a kept script is not fetched again.                              *)
LoadKept ==
    /\ page # 0 /\ (up \/ scripts[page] # "absent")
    /\ running' = IF scripts[page] # "absent" THEN scripts[page]
                  ELSE CHOOSE t \in Answer(page) : TRUE
    /\ scripts' = [scripts EXCEPT ![page] = running']
    /\ UNCHANGED <<deployed, up, page, shell>>

(* The kept script at once, refreshed behind it when the network is up.     *)
Load ==
    /\ page # 0 /\ (up \/ scripts[page] # "absent")
    /\ running' = IF scripts[page] # "absent" THEN scripts[page]
                  ELSE CHOOSE t \in Answer(page) : TRUE
    /\ scripts' = IF up THEN [scripts EXCEPT ![page] = CHOOSE t \in Answer(page) : TRUE]
                  ELSE scripts
    /\ UNCHANGED <<deployed, up, page, shell>>

Deploy ==
    /\ deployed' \in All \ {deployed}
    /\ UNCHANGED <<up, page, running, shell, scripts>>

Network ==
    /\ up' = ~up
    /\ UNCHANGED <<deployed, page, running, shell, scripts>>

Next == Navigate \/ Load \/ Deploy \/ Network

(* The app is opened again and again, and a page loads its script.          *)
Spec == Init /\ [][Next]_servedVars /\ WF_servedVars(Navigate) /\ WF_servedVars(Load)

-----------------------------------------------------------------------------
(* Whatever was kept while deployments came and went, rollbacks included,   *)
(* once the network and the deployment stay the tab has the new script.     *)
HealsOnline ==
    \A d \in All : <>[](up /\ deployed = d) =>
        <>[](shell = d) /\ <>[](scripts[d] = "text/javascript")
=============================================================================
