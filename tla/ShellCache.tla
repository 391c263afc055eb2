----------------------------- MODULE ShellCache -----------------------------
(***************************************************************************)
(* The offline shell: the service worker's install, activate and fetch     *)
(* handlers (sw.js, first part) over the browser's Cache storage.  A       *)
(* response is the deployment it came from and whether its status is ok.   *)
(* cache.put is not awaited, so it is a step of its own.                   *)
(***************************************************************************)
EXTENDS Naturals

CONSTANTS
  Pages,       \* addresses a navigation asks for; nothing links to "/offline"
  Assets,      \* addresses of static files
  Precached,   \* APP_SHELL
  MaxDeploys   \* bound: deployments of the site

(* APP_SHELL has the page that OfflineAnswer falls back to. *)
ASSUME ShellAssumption == "/offline" \in Precached

VARIABLES
  deployed,   \* the deployment the server serves
  network,    \* "up", "failing" (the server answers with errors) or "down"
  phase,      \* "none", "installed" or "active"
  cache,      \* what CACHE holds for each address
  oldCache,   \* a cache that an earlier sw.js left under another name
  puts        \* <<address, response>> pairs that cache.put has not stored yet

shellVars == <<deployed, network, phase, cache, oldCache, puts>>

Absent    == [v |-> 0, ok |-> FALSE]
Urls      == Pages \cup Assets \cup Precached
Responses == [v : 1..MaxDeploys, ok : BOOLEAN]
Empty     == [u \in Urls |-> Absent]

(* What fetch yields now. *)
Response == [v |-> deployed, ok |-> network = "up"]

ShellInit ==
  /\ deployed = 1 /\ network = "up" /\ phase = "none" /\ puts = {}
  /\ cache = Empty
  /\ oldCache \in {Empty, [u \in Urls |-> IF u \in Precached THEN [v |-> 1, ok |-> TRUE] ELSE Absent]}

(* cache.addAll stores all or nothing: it rejects unless every status is ok. *)
Install ==
  /\ network = "up" /\ phase = "none"
  /\ cache' = [u \in Urls |-> IF u \in Precached THEN Response ELSE cache[u]]
  /\ phase' = "installed"
  /\ UNCHANGED <<deployed, network, oldCache, puts>>

(* Mutant: every cache is deleted, the current one too. *)
ActivateWiping ==
  /\ phase = "installed"
  /\ oldCache' = Empty /\ cache' = Empty
  /\ phase' = "active"
  /\ UNCHANGED <<deployed, network, puts>>

(* Caches under other names are deleted; then the worker takes the pages.  *)
Activate ==
  /\ phase = "installed"
  /\ oldCache' = Empty
  /\ phase' = "active"
  /\ UNCHANGED <<deployed, network, cache, puts>>

(* caches.match looks through all caches. *)
Match(u) == IF cache[u] # Absent THEN cache[u] ELSE oldCache[u]

(* What a navigation gets when fetch rejects. *)
OfflineAnswer(u) == IF Match(u) # Absent THEN Match(u) ELSE Match("/offline")

(* A navigation is answered from the network, and whatever came is kept. *)
Navigate(u) ==
  /\ phase = "active"
  /\ puts' = IF network = "down" THEN puts ELSE puts \cup {<<u, Response>>}
  /\ UNCHANGED <<deployed, network, phase, cache, oldCache>>

(* Mutant: what is in the cache is not fetched again. *)
FetchAssetCacheFirst(u) ==
  /\ phase = "active"
  /\ puts' = IF network = "up" /\ cache[u] = Absent THEN puts \cup {<<u, Response>>} ELSE puts
  /\ UNCHANGED <<deployed, network, phase, cache, oldCache>>

(* A static file is answered from the cache if it is there; in any case it *)
(* is fetched, and kept if the status is ok.                               *)
FetchAsset(u) ==
  /\ phase = "active"
  /\ puts' = IF network = "up" THEN puts \cup {<<u, Response>>} ELSE puts
  /\ UNCHANGED <<deployed, network, phase, cache, oldCache>>

Put(u, response) ==
  /\ <<u, response>> \in puts
  /\ puts' = puts \ {<<u, response>>}
  /\ cache' = [cache EXCEPT ![u] = response]
  /\ UNCHANGED <<deployed, network, phase, oldCache>>

Deploy ==
  /\ deployed < MaxDeploys
  /\ deployed' = deployed + 1
  /\ UNCHANGED <<network, phase, cache, oldCache, puts>>

NetworkChange ==
  /\ network' \in {"up", "failing", "down"} \ {network}
  /\ UNCHANGED <<deployed, phase, cache, oldCache, puts>>

ShellNext ==
  \/ Install \/ Activate \/ Deploy \/ NetworkChange
  \/ \E u \in Pages : Navigate(u)
  \/ \E u \in Assets : FetchAsset(u)
  \/ \E u \in Urls, response \in Responses : Put(u, response)

(* The browser stores what was put; the app is loaded again and again. *)
ShellFairness ==
  \A u \in Assets : /\ WF_shellVars(FetchAsset(u))
                    /\ WF_shellVars(\E response \in Responses : Put(u, response))

ShellSpec == ShellInit /\ [][ShellNext]_shellVars /\ ShellFairness

-----------------------------------------------------------------------------
(* "fall back to it (or the offline page) when the network is unavailable" *)
(* (sw.js:33): an active worker has an answer to every navigation.         *)
AlwaysAnswered == phase = "active" => \A u \in Pages : OfflineAnswer(u) # Absent

(* "refresh it in the background so an updated shell asset ... replaces    *)
(* itself on the next load" (sw.js:48): if the network stays up and the    *)
(* app is loaded again and again, the newest file is what is served, and   *)
(* no error that was put late stays in its place.                          *)
AssetsCatchUp ==
  <>[](phase = "active" /\ network = "up")
    => \A u \in Assets : <>[](cache[u] = [v |-> deployed, ok |-> TRUE])
=============================================================================
