--------------------------- MODULE DeliveryProofs ---------------------------
(***************************************************************************)
(* What surrounds the running system: the event stream of the transport    *)
(* prototype, the static server and its shared cache, the npm packages and *)
(* the macOS policy, each with the inductive invariant its property needs. *)
(***************************************************************************)
EXTENDS Prototype, StaticServer, NpmInstall, MacPolicy, SelectionProofs,
        WellFoundedInduction, TLAPS

-----------------------------------------------------------------------------
(* The static server.  A compressed body says that it varies, and the      *)
(* cache knows what was asked for it.                                      *)
StaticInv ==
  /\ DOMAIN sending = Clients
  /\ \A c \in Clients : /\ sending[c].asked \in BOOLEAN /\ sending[c].body.gzip \in BOOLEAN
                        /\ sending[c].phase # "idle" /\ sending[c].body.gzip => sending[c].asked
  /\ \A entry \in proxy : /\ entry.gzip \in BOOLEAN /\ entry.body.gzip \in BOOLEAN
                          /\ entry.body.gzip => entry.body.vary /\ entry.gzip

LEMMA SentAsAsked ==
  ASSUME NEW file, NEW gzip \in BOOLEAN
  PROVE  /\ sendFile(file, gzip).gzip \in BOOLEAN
         /\ sendFile(file, gzip).gzip => sendFile(file, gzip).vary /\ gzip
BY DEF sendFile

LEMMA NoConnFacts == NoConn.phase = "idle" /\ NoConn.asked \in BOOLEAN /\ NoConn.body.gzip \in BOOLEAN
<1>1. NoConn.phase = "idle" /\ NoConn.asked = FALSE /\ NoConn.body = sendFile(Index, FALSE)
  BY DEF NoConn
<1>2. sendFile(Index, FALSE).gzip \in BOOLEAN
  BY SentAsAsked
<1> QED BY <1>1, <1>2

(* Only the connection of one client changes. *)
LEMMA OneSending ==
  ASSUME StaticInv, NEW c \in Clients, NEW rec, sending' = [sending EXCEPT ![c] = rec],
         rec.asked \in BOOLEAN, rec.body.gzip \in BOOLEAN,
         rec.phase # "idle" /\ rec.body.gzip => rec.asked
  PROVE  /\ DOMAIN sending' = Clients
         /\ \A d \in Clients :
              /\ sending'[d].asked \in BOOLEAN /\ sending'[d].body.gzip \in BOOLEAN
              /\ sending'[d].phase # "idle" /\ sending'[d].body.gzip => sending'[d].asked
<1>1. DOMAIN sending = Clients
  BY DEF StaticInv
<1>2. \A d \in Clients : sending'[d] = IF d = c THEN rec ELSE sending[d]
  BY <1>1
<1>3. DOMAIN sending' = Clients
  BY <1>1
<1> QED BY <1>2, <1>3 DEF StaticInv

LEMMA StaticInvHolds == StaticSpec => []StaticInv
<1>1. StaticInit => StaticInv
  BY NoConnFacts DEF StaticInit, StaticInv
<1>2. ASSUME StaticInv, [StaticNext]_staticVars PROVE StaticInv'
  <2>1. CASE UNCHANGED <<sending, proxy>>
    BY <1>2, <2>1 DEF StaticInv
  <2>2. ASSUME NEW c \in Clients, NEW path, NEW gzip \in BOOLEAN, Serve(c, path, gzip)
        PROVE  StaticInv'
    <3>1. PICK file \in resolveTarget(files, path) :
            /\ sending' = [sending EXCEPT ![c] =
                 [phase |-> "active", asked |-> gzip, body |-> sendFile(file, gzip)]]
            /\ proxy' = proxy \cup {[path |-> path, gzip |-> gzip, body |-> sendFile(file, gzip)]}
      BY <2>2 DEF Serve
    <3> DEFINE body == sendFile(file, gzip)
    <3>2. body.gzip \in BOOLEAN /\ (body.gzip => body.vary /\ gzip)
      BY SentAsAsked
    <3> HIDE DEF body
    <3> DEFINE rec == [phase |-> "active", asked |-> gzip, body |-> body]
    <3>3. sending' = [sending EXCEPT ![c] = rec]
      BY <3>1 DEF body
    <3>4. rec.asked = gzip /\ rec.body = body
      OBVIOUS
    <3> HIDE DEF rec
    <3>5. /\ DOMAIN sending' = Clients
          /\ \A d \in Clients :
               /\ sending'[d].asked \in BOOLEAN /\ sending'[d].body.gzip \in BOOLEAN
               /\ sending'[d].phase # "idle" /\ sending'[d].body.gzip => sending'[d].asked
      BY <1>2, <3>2, <3>3, <3>4, OneSending
    <3>6. \A entry \in proxy' : entry \in proxy \/ (entry.gzip = gzip /\ entry.body = body)
      BY <3>1 DEF body
    <3> QED BY <1>2, <3>2, <3>5, <3>6 DEF StaticInv
  <2>3. ASSUME NEW c \in Clients, NEW path, NEW gzip \in BOOLEAN, Hit(c, path, gzip)
        PROVE  StaticInv'
    <3>1. PICK entry \in proxy :
            /\ entry.body.vary => entry.gzip = gzip
            /\ sending' = [sending EXCEPT ![c] =
                 [phase |-> "cached", asked |-> gzip, body |-> entry.body]]
      BY <2>3 DEF Hit, Reusable
    <3>2. entry.body.gzip \in BOOLEAN /\ (entry.body.gzip => gzip)
      BY <1>2, <3>1 DEF StaticInv
    <3> DEFINE rec == [phase |-> "cached", asked |-> gzip, body |-> entry.body]
    <3>3. sending' = [sending EXCEPT ![c] = rec]
      BY <3>1
    <3>4. rec.asked = gzip /\ rec.body = entry.body
      OBVIOUS
    <3> HIDE DEF rec
    <3>5. /\ DOMAIN sending' = Clients
          /\ \A d \in Clients :
               /\ sending'[d].asked \in BOOLEAN /\ sending'[d].body.gzip \in BOOLEAN
               /\ sending'[d].phase # "idle" /\ sending'[d].body.gzip => sending'[d].asked
      BY <1>2, <3>2, <3>3, <3>4, OneSending
    <3>6. proxy' = proxy
      BY <2>3 DEF Hit
    <3> QED BY <1>2, <3>5, <3>6 DEF StaticInv
  <2>4. ASSUME NEW c \in Clients, Finish(c) PROVE StaticInv'
    <3>1. sending' = [sending EXCEPT ![c] = NoConn] /\ proxy' = proxy
      BY <2>4 DEF Finish
    <3>2. /\ DOMAIN sending' = Clients
          /\ \A d \in Clients :
               /\ sending'[d].asked \in BOOLEAN /\ sending'[d].body.gzip \in BOOLEAN
               /\ sending'[d].phase # "idle" /\ sending'[d].body.gzip => sending'[d].asked
      BY <1>2, <3>1, NoConnFacts, OneSending
    <3> QED BY <1>2, <3>1, <3>2 DEF StaticInv
  <2>5. CASE Shutdown
    <3>1. proxy' = proxy
      BY <2>5 DEF Shutdown
    <3>2. DOMAIN sending' = Clients /\ \A c \in Clients : sending'[c] \in {sending[c], NoConn}
      BY <1>2, <2>5 DEF Shutdown, StaticInv
    <3> QED BY <1>2, <3>1, <3>2, NoConnFacts DEF StaticInv
  <2>6. CASE Start \/ Exit
    BY <2>1, <2>6 DEF Start, Exit
  <2> QED BY <1>2, <2>1, <2>2, <2>3, <2>4, <2>5, <2>6 DEF StaticNext, staticVars
<1> QED BY <1>1, <1>2, PTL DEF StaticSpec

(* "`Vary` keeps any shared cache from serving a gzipped body to a client  *)
(* that did not ask for one" (serve.mjs:117): for any clients, paths and   *)
(* number of responses the cache holds.                                    *)
THEOREM GzipOnlyIfAsked == StaticSpec => []NoUnaskedGzip
<1>1. StaticInv => NoUnaskedGzip
  BY DEF StaticInv, NoUnaskedGzip
<1> QED BY <1>1, StaticInvHolds, PTL

-----------------------------------------------------------------------------
(* The npm packages.  What install.mjs finds when it walks up is what      *)
(* stands nearest: the walk as it is defined satisfies its own equation    *)
(* (the function below does), and what it says at a directory follows from *)
(* what it says at the next.                                               *)
CheckoutFrom(dirs, k) ==
  \E i \in k .. Len(dirs) :
    dirs[i] = "workspaces" /\ \A j \in k .. i : dirs[j] # "node_modules"

LEMMA WalkFinds ==
  ASSUME NEW S, NEW dirs \in Seq(S)
  PROVE  inWorkspaceCheckout(dirs) <=> CheckoutFrom(dirs, 1)
<1> DEFINE n == Len(dirs)
           Walks(w) == w = [i \in 1 .. n + 1 |->
                              /\ i <= n /\ dirs[i] # "node_modules"
                              /\ dirs[i] = "workspaces" \/ w[i + 1]]
           v == [i \in 1 .. n + 1 |-> CheckoutFrom(dirs, i)]
           walk == CHOOSE w : Walks(w)
<1>1. n \in Nat
  OBVIOUS
<1>2. ASSUME NEW k \in 1 .. n + 1
      PROVE  CheckoutFrom(dirs, k) <=> /\ k <= n /\ dirs[k] # "node_modules"
                                       /\ dirs[k] = "workspaces" \/ CheckoutFrom(dirs, k + 1)
  <2>1. ASSUME CheckoutFrom(dirs, k)
        PROVE  /\ k <= n /\ dirs[k] # "node_modules"
               /\ dirs[k] = "workspaces" \/ CheckoutFrom(dirs, k + 1)
    <3>1. PICK i \in k .. n : dirs[i] = "workspaces" /\ \A j \in k .. i : dirs[j] # "node_modules"
      BY <2>1 DEF CheckoutFrom
    <3>2. k \in k .. i /\ k <= n
      BY <1>1
    <3>3. i # k => i \in k + 1 .. n /\ \A j \in k + 1 .. i : j \in k .. i
      BY <1>1
    <3> QED BY <3>1, <3>2, <3>3 DEF CheckoutFrom
  <2>2. ASSUME k <= n, dirs[k] # "node_modules", dirs[k] = "workspaces"
        PROVE  CheckoutFrom(dirs, k)
    <3>1. k \in k .. n /\ \A j \in k .. k : j = k
      BY <1>1, <2>2
    <3> QED BY <2>2, <3>1 DEF CheckoutFrom
  <2>3. ASSUME k <= n, dirs[k] # "node_modules", CheckoutFrom(dirs, k + 1)
        PROVE  CheckoutFrom(dirs, k)
    <3>1. PICK i \in k + 1 .. n :
            dirs[i] = "workspaces" /\ \A j \in k + 1 .. i : dirs[j] # "node_modules"
      BY <2>3 DEF CheckoutFrom
    <3>2. i \in k .. n /\ \A j \in k .. i : j = k \/ j \in k + 1 .. i
      BY <1>1
    <3> QED BY <2>3, <3>1, <3>2 DEF CheckoutFrom
  <2> QED BY <2>1, <2>2, <2>3
<1>3. Walks(v)
  <2>1. \A k \in 1 .. n + 1 : v[k] = CheckoutFrom(dirs, k)
    OBVIOUS
  <2>2. ASSUME NEW k \in 1 .. n + 1
        PROVE  CheckoutFrom(dirs, k) = (/\ k <= n /\ dirs[k] # "node_modules"
                                        /\ dirs[k] = "workspaces" \/ v[k + 1])
    <3>1. CASE k <= n
      <4>1. k + 1 \in 1 .. n + 1
        BY <1>1, <3>1
      <4>2. v[k + 1] = CheckoutFrom(dirs, k + 1)
        BY <4>1
      <4>3. CheckoutFrom(dirs, k) \in BOOLEAN
        BY DEF CheckoutFrom
      <4> QED BY <1>2, <4>2, <4>3
    <3>2. CASE ~(k <= n)
      <4>1. CheckoutFrom(dirs, k) \in BOOLEAN
        BY DEF CheckoutFrom
      <4> QED BY <1>2, <3>2, <4>1
    <3> QED BY <3>1, <3>2
  <2> QED BY <2>2
<1>4. inWorkspaceCheckout(dirs) = walk[1]
  BY DEF inWorkspaceCheckout
<1>5. Walks(walk)
  BY <1>3
<1>6. \A k \in 1 .. n + 1 :
        walk[k] = (/\ k <= n /\ dirs[k] # "node_modules"
                   /\ dirs[k] = "workspaces" \/ walk[k + 1])
  BY <1>5
<1> HIDE DEF walk
<1>7. \A k \in 1 .. n + 1 : walk[k] <=> CheckoutFrom(dirs, k)
  <2> SUFFICES ASSUME NEW k \in 1 .. n + 1, ~(walk[k] <=> CheckoutFrom(dirs, k)) PROVE FALSE
    OBVIOUS
  <2> DEFINE Bad == {d \in Nat : \E j \in 1 .. n + 1 :
                       d = n + 1 - j /\ ~(walk[j] <=> CheckoutFrom(dirs, j))}
  <2>1. n + 1 - k \in Bad
    BY <1>1
  <2>2. PICK d \in Bad : \A x \in Bad : ~(<<x, d>> \in OpToRel(<, Nat))
    <3>1. Bad \subseteq Nat /\ Bad # {}
      BY <2>1
    <3> HIDE DEF Bad
    <3> QED BY <3>1, NatLessThanWellFounded, WFMin
  <2>3. PICK j \in 1 .. n + 1 : d = n + 1 - j /\ ~(walk[j] <=> CheckoutFrom(dirs, j))
    BY <2>2
  <2>4. j <= n => n + 1 - (j + 1) \notin Bad
    <3> SUFFICES ASSUME j <= n PROVE n + 1 - (j + 1) \notin Bad
      OBVIOUS
    <3>1. n + 1 - (j + 1) \in Nat /\ d \in Nat /\ n + 1 - (j + 1) < d
      BY <1>1, <2>3
    <3>2. <<n + 1 - (j + 1), d>> \in OpToRel(<, Nat)
      BY <3>1 DEF OpToRel
    <3> HIDE DEF Bad
    <3> QED BY <2>2, <3>2
  <2>5. j <= n => (walk[j + 1] <=> CheckoutFrom(dirs, j + 1))
    <3>1. j <= n => j + 1 \in 1 .. n + 1 /\ n + 1 - (j + 1) \in Nat
      BY <1>1
    <3> QED BY <2>4, <3>1
  <2>6. walk[j] <=> CheckoutFrom(dirs, j)
    BY <1>2, <1>6, <2>5
  <2> QED BY <2>3, <2>6
<1>8. 1 \in 1 .. n + 1
  BY <1>1
<1> QED BY <1>4, <1>7, <1>8

LEMMA CheckoutIs == Checkout <=> CheckoutFrom(host.dirs, 1)
BY DEF Checkout, CheckoutFrom

(* Nothing stands nearer than two different things.                        *)
LEMMA CheckoutOrUser ==
  ASSUME Len(host.dirs) \in Nat, Checkout, UserInstall
  PROVE  FALSE
<1>1. PICK i \in 1 .. Len(host.dirs) :
        host.dirs[i] = "workspaces" /\ \A j \in 1 .. i - 1 : host.dirs[j] # "node_modules"
  BY DEF Checkout
<1>2. PICK k \in 1 .. Len(host.dirs) :
        host.dirs[k] = "node_modules" /\ \A j \in 1 .. k - 1 : host.dirs[j] # "workspaces"
  BY DEF UserInstall
<1>3. i # k
  BY <1>1, <1>2
<1>4. i \in 1 .. k - 1 \/ k \in 1 .. i - 1
  BY <1>3
<1> QED BY <1>1, <1>2, <1>4

(* A release is published whole or not at all, and what npm installs of it *)
(* is whole or nothing.  The launcher is replaced only where a binary for  *)
(* this host was found, outside a checkout and not on Windows; whatever    *)
(* made the last run end early, other than a file error, left the launcher *)
(* in place and the carrier beside it.                                     *)
Unpacked == {"install", "copyPlugin", "resolveDaemon", "copyDaemon", "kept", "fallback", "linked"}

Linking == {"copyPlugin", "resolveDaemon", "copyDaemon", "linked"}

NpmInv ==
  /\ at \in {"stamp", "stage", "aborted", "publish", "npm"} \cup Unpacked
  /\ \E n \in Nat : host.dirs \in [1 .. n -> Levels]
  /\ artifacts = [t \in Targets |-> artifacts[t]]
  /\ at \in {"publish", "npm"} \cup Unpacked => staged = [t \in Targets |-> Binaries]
  /\ at \in Unpacked =>
       /\ carrier \in {{}, Binaries} /\ (carrier # {} => host.platform \in Targets)
       /\ Checkout \/ Windows(host.platform) => command = "launcher"
  /\ at \in Linking =>
       /\ carrier = Binaries /\ host.platform \in Targets
       /\ ~Checkout /\ ~Windows(host.platform)
  /\ at \in {"resolveDaemon", "copyDaemon", "linked"} => command = "native"
  /\ at = "linked" => sibling = "native"
  /\ at = "kept" => Checkout \/ Windows(host.platform)
  /\ at = "fallback" => failed \/ carrier = {}

(* What install.mjs does, step by step. *)
LEMMA InstallSteps ==
  ASSUME NpmInv, Install \/ CopyPlugin \/ ResolveDaemon \/ CopyDaemon \/ Rebuild
  PROVE  NpmInv'
<1>1. PICK n \in Nat : host.dirs \in [1 .. n -> Levels]
  BY DEF NpmInv
<1>2. UNCHANGED <<artifacts, stamped, staged, published, host, carrier>>
  BY DEF Install, CopyPlugin, ResolveDaemon, CopyDaemon, Rebuild, Step, release
<1>3. (Checkout <=> Checkout') /\ \E k \in Nat : host'.dirs \in [1 .. k -> Levels]
  BY <1>1, <1>2 DEF Checkout
<1>4. at \in Unpacked /\ staged = [t \in Targets |-> Binaries]
      /\ carrier \in {{}, Binaries} /\ (carrier # {} => host.platform \in Targets)
      /\ (Checkout \/ Windows(host.platform) => command = "launcher")
  BY DEF NpmInv, Unpacked, Install, CopyPlugin, ResolveDaemon, CopyDaemon, Rebuild
<1>5. CASE Install
  <2>1. host.dirs \in Seq(Levels)
    BY <1>1
  <2>2. inWorkspaceCheckout(host.dirs) <=> Checkout
    BY <2>1, WalkFinds, CheckoutIs
  <2>3. UNCHANGED <<command, sibling, failed>>
    BY <1>5 DEF Install
  <2>4. carrier # {} => resolves("plugin")
    BY <1>4 DEF resolves, Binaries
  <2>5. resolves("plugin") => carrier = Binaries /\ host.platform \in Targets
    BY <1>4 DEF resolves
  <2>6. \/ at' = "kept" /\ (Checkout \/ Windows(host.platform))
        \/ at' = "fallback" /\ carrier = {}
        \/ /\ at' = "copyPlugin" /\ ~Checkout /\ ~Windows(host.platform)
           /\ carrier = Binaries /\ host.platform \in Targets
    BY <1>4, <1>5, <2>2, <2>4, <2>5 DEF Install, Step
  <2> QED BY <1>2, <1>3, <1>4, <2>3, <2>6 DEF NpmInv, Unpacked, Linking
<1>6. CASE CopyPlugin
  <2>1. ~Checkout /\ ~Windows(host.platform) /\ carrier = Binaries /\ host.platform \in Targets
    BY <1>6 DEF NpmInv, CopyPlugin, Linking
  <2>2. \/ at' = "resolveDaemon" /\ command' = "native"
        \/ at' = "fallback" /\ failed'
    BY <1>6 DEF CopyPlugin, Step
  <2> QED BY <1>2, <1>3, <1>4, <2>1, <2>2 DEF NpmInv, Unpacked, Linking
<1>7. CASE ResolveDaemon
  <2>1. ~Checkout /\ ~Windows(host.platform) /\ carrier = Binaries /\ host.platform \in Targets
        /\ command = "native"
    BY <1>7 DEF NpmInv, ResolveDaemon, Linking
  <2>2. at' = "copyDaemon" /\ UNCHANGED <<command, sibling, failed>>
    BY <1>7, <2>1 DEF ResolveDaemon, Step, resolves, Binaries
  <2> QED BY <1>2, <1>3, <1>4, <2>1, <2>2 DEF NpmInv, Unpacked, Linking
<1>8. CASE CopyDaemon
  <2>1. ~Checkout /\ ~Windows(host.platform) /\ carrier = Binaries /\ host.platform \in Targets
        /\ command = "native"
    BY <1>8 DEF NpmInv, CopyDaemon, Linking
  <2>2. /\ command' = command
        /\ \/ at' = "linked" /\ sibling' = "native"
           \/ at' = "fallback" /\ failed'
    BY <1>8 DEF CopyDaemon, Step
  <2> QED BY <1>2, <1>3, <1>4, <2>1, <2>2 DEF NpmInv, Unpacked, Linking
<1>9. CASE Rebuild
  <2>1. at' = "install" /\ UNCHANGED <<command, sibling>>
    BY <1>9 DEF Rebuild, Step
  <2> QED BY <1>2, <1>3, <1>4, <2>1 DEF NpmInv, Unpacked, Linking
<1> QED BY <1>5, <1>6, <1>7, <1>8, <1>9

(* What the release and npm do. *)
LEMMA ReleaseSteps ==
  ASSUME NpmInv, Stamp \/ Stage \/ Publish \/ Unpack
  PROVE  NpmInv'
<1>1. CASE Stamp
  <2>1. at' \in {"stage", "stamp"} /\ host' = host /\ artifacts' = artifacts
    BY <1>1 DEF Stamp
  <2> QED BY <2>1 DEF NpmInv, Unpacked, Linking
<1>2. CASE Stage
  <2>1. /\ host' = host /\ artifacts' = artifacts
        /\ \/ at' = "aborted"
           \/ /\ at' = "publish" /\ staged' = artifacts
              /\ \A t \in Targets : artifacts[t] = Binaries
    BY <1>2 DEF Stage
  <2>2. artifacts = [t \in Targets |-> artifacts[t]]
    BY DEF NpmInv
  <2>3. at' = "publish" => staged' = [t \in Targets |-> Binaries]
    <3>1. (\A t \in Targets : artifacts[t] = Binaries) /\ staged' = artifacts
          => artifacts = [t \in Targets |-> Binaries]
      BY <1>2, <2>2 DEF NpmInv
    <3> QED BY <2>1, <3>1
  <2> QED BY <2>1, <2>3 DEF NpmInv, Unpacked, Linking
<1>3. CASE Publish
  <2>1. /\ at = "publish" /\ at' = "npm" /\ host' = host /\ staged' = staged
        /\ artifacts' = artifacts
    BY <1>3 DEF Publish
  <2> QED BY <2>1 DEF NpmInv, Unpacked, Linking
<1>4. CASE Unpack
  <2>1. PICK p \in Hosts : \E dirs \in Chains : host' = [platform |-> p, dirs |-> dirs]
    BY <1>4 DEF Unpack
  <2>2. PICK dirs \in Chains : host' = [platform |-> p, dirs |-> dirs]
    BY <2>1
  <2>3. \E n \in Nat : dirs \in [1 .. n -> Levels]
    BY NpmAssumption DEF Chains
  <2>4. staged = [t \in Targets |-> Binaries] /\ staged' = staged /\ artifacts' = artifacts
    BY <1>4 DEF NpmInv, Unpack, release
  <2>5. carrier' \in {{}, Binaries} /\ (carrier' # {} => host'.platform \in Targets)
    BY <1>4, <2>4 DEF Unpack
  <2>6. at' = "install" /\ command' = "launcher"
    BY <1>4 DEF Unpack
  <2> QED BY <2>2, <2>3, <2>4, <2>5, <2>6 DEF NpmInv, Unpacked, Linking
<1> QED BY <1>1, <1>2, <1>3, <1>4

LEMMA NpmInvHolds == NpmSpec => []NpmInv
<1>1. NpmInit => NpmInv
  <2> SUFFICES ASSUME NpmInit PROVE NpmInv
    OBVIOUS
  <2>1. host.dirs \in [1 .. 1 -> Levels]
    BY DEF NpmInit, Levels
  <2>2. artifacts = [t \in Targets |-> artifacts[t]]
    BY DEF NpmInit
  <2>3. at = "stamp"
    BY DEF NpmInit
  <2> QED BY <2>1, <2>2, <2>3 DEF NpmInv, Unpacked, Linking
<1>2. ASSUME NpmInv, UNCHANGED npmVars PROVE NpmInv'
  <2>1. UNCHANGED <<at, artifacts, staged, host, carrier, command, sibling, failed>>
    BY <1>2 DEF npmVars, release
  <2> QED BY <1>2, <2>1 DEF NpmInv, Checkout
<1>3. NpmInv /\ [NpmNext]_npmVars => NpmInv'
  BY <1>2, InstallSteps, ReleaseSteps DEF NpmNext
<1> QED BY <1>1, <1>3, PTL DEF NpmSpec

(* Once install.mjs has run without a file error the command serves, and   *)
(* it never overwrites the launcher a source checkout has committed        *)
(* (install.mjs:31): for any set of platforms, wherever the package is put *)
(* and however often it is rebuilt.                                        *)
THEOREM InstalledServes == NpmSpec => []InstallServes
<1>1. NpmInv => InstallServes
  <2> SUFFICES ASSUME NpmInv, Installed
               PROVE  /\ ~failed /\ carrier # {} =>
                           Serves /\ (~Windows(host.platform) /\ UserInstall => command = "native")
                      /\ Checkout => command = "launcher"
    BY DEF InstallServes
  <2>1. at \in Unpacked
    BY DEF Installed, Unpacked
  <2>2. Len(host.dirs) \in Nat
    BY DEF NpmInv
  <2>3. Checkout \/ Windows(host.platform) => command = "launcher"
    BY <2>1 DEF NpmInv
  <2>4. ASSUME ~failed, carrier # {}
        PROVE  Serves /\ (~Windows(host.platform) /\ UserInstall => command = "native")
    <3>1. carrier = Binaries
      BY <2>1, <2>4 DEF NpmInv
    <3>2. at \in {"kept", "linked"}
      BY <2>4 DEF NpmInv, Installed
    <3>3. CASE at = "kept"
      <4>1. Checkout \/ Windows(host.platform)
        BY <3>3 DEF NpmInv
      <4>2. Serves
        BY <2>3, <3>1, <4>1 DEF Serves
      <4> QED BY <2>2, <4>1, <4>2, CheckoutOrUser
    <3>4. CASE at = "linked"
      BY <3>4 DEF NpmInv, Serves
    <3> QED BY <3>2, <3>3, <3>4
  <2> QED BY <2>3, <2>4
<1> QED BY <1>1, NpmInvHolds, PTL

-----------------------------------------------------------------------------
(* The macOS policy.  What a classification says, and what it leaves out.  *)

ReleaseChanges ==
  [path : Paths \ {"source"}, status : {"M"}, edit : {"versions"}]
    \cup [path : {"changelog"}, status : {"M"}, edit : Edits \ {"invalid"}]

LEMMA ReleaseOnly ==
  ASSUME NEW diff \in SUBSET Changes, versionDiffOnly(diff) = "yes"
  PROVE  diff # {} /\ diff \subseteq ReleaseChanges
<1> DEFINE verdicts == {fileVersionOnly(file) : file \in diff}
<1>1. diff # {} /\ "no" \notin verdicts /\ "throws" \notin verdicts
  BY DEF versionDiffOnly
<1>2. ASSUME NEW file \in diff
      PROVE  file \in ReleaseChanges
  <2>1. file \in Changes /\ fileVersionOnly(file) \notin {"no", "throws"}
    BY <1>1
  <2>2. /\ file.status = "M" /\ file.path # "source"
        /\ IF file.path = "changelog" THEN file.edit # "invalid" ELSE file.edit = "versions"
    BY <2>1 DEF fileVersionOnly, jsonVersionsOnly
  <2> QED BY <2>1, <2>2 DEF Changes, ReleaseChanges
<1> QED BY <1>1, <1>2

LEMMA GateExpects ==
  ASSUME NEW event, NEW required \in BOOLEAN, NEW diagnostic \in BOOLEAN
  PROVE  pick(event, required, diagnostic) = expected(event, required, diagnostic)
BY DEF pick, expected

(* A pull request's run that buys no Mac leg.  *)
LEMMA NoMacForRelease ==
  ASSUME NEW payload, payload.draft = "false", payload.diff \in SUBSET Changes,
         payload.sameRepo \in BOOLEAN, payload.releaseBranch \in BOOLEAN,
         ~classify("pull_request", payload)
  PROVE  /\ payload.sameRepo /\ payload.releaseBranch /\ payload.diff # {}
         /\ payload.diff \subseteq ReleaseChanges
<1>1. /\ payload.sameRepo /\ payload.releaseBranch
      /\ versionDiffOnly(payload.diff) = "yes"
  BY DEF classify, nonPrEvents
<1> QED BY <1>1, ReleaseOnly

(* A run's payload snapshots a pull request. *)
Payload == [readable : BOOLEAN, draft : {"true", "false"}, sameRepo : BOOLEAN, refs : BOOLEAN,
            releaseBranch : BOOLEAN, diff : SUBSET Changes, diagnostic : BOOLEAN]

Systems == {"ubuntu", "macos", "windows"}

Run == [phase : {"idle", "setup", "legs", "gate"}, event : {"pull_request"} \cup nonPrEvents,
        payload : Payload, head : Nat, again : BOOLEAN, required : BOOLEAN,
        os : SUBSET Systems, setup : BOOLEAN, failed : SUBSET Systems]

PullRequest == [state : {"none", "open", "closed", "merged"}, draft : BOOLEAN,
                head : 0 .. MaxPush + 1, diff : SUBSET Changes,
                sameRepo : BOOLEAN, releaseBranch : BOOLEAN]

MacTypeOK ==
  /\ pr \in PullRequest
  /\ run \in [Groups -> Run] /\ started \subseteq Run
  /\ context \in [0 .. MaxPush + 1 -> {"pending", "success", "failure"}]
  /\ pushes \in 0 .. MaxPush

(* What a run did so far is what its classification said. *)
RunFollows(r) ==
  /\ r.phase \in {"legs", "gate"} /\ r.setup =>
       /\ r.required = classify(r.event, r.payload)
       /\ r.os = pick(r.event, r.required, r.payload.diagnostic)
  /\ r.phase = "legs" => r.setup
  /\ r.phase = "setup" => ~r.setup /\ r.failed = {}

(* A run of the pull request is of a head it had; if it is of its present  *)
(* head, it carries that head's diff.                                      *)
OfPr(r) ==
  /\ r.event = "pull_request" /\ r.head \in 1 .. pr.head
  /\ r.head = pr.head => /\ r.payload.diff = pr.diff /\ r.payload.sameRepo = pr.sameRepo
                         /\ r.payload.releaseBranch = pr.releaseBranch

(* The heads are numbered from 1, and 0 is none.                           *)
Heads ==
  /\ pr.state = "none" => pr.head = 0 /\ pushes = 0 /\ started = {}
  /\ pr.state # "none" => pr.head \in 1 .. pushes + 1
  /\ run["pr"].phase # "idle" => OfPr(run["pr"])
  /\ \A r \in started : OfPr(r) /\ r.phase = "setup" /\ RunFollows(r)
  /\ "main" \in Groups => run["main"].head = 0 /\ run["main"].event \in nonPrEvents

(* A run in progress of a ready pull request's head that takes it for a    *)
(* draft is one that was run again: ready_for_review cancelled the others. *)
ReadyIsRun ==
  pr.state = "open" /\ ~pr.draft /\ run["pr"].phase # "idle" /\ run["pr"].head = pr.head
    => run["pr"].payload.draft = "false" \/ run["pr"].again

(* What a leg that passed leaves behind, and what a green head says. *)
LegsLeave ==
  run["pr"].phase = "gate" /\ run["pr"].setup /\ "macos" \in run["pr"].os \ run["pr"].failed
    => run["pr"].head \in macPassed

GreenIsCovered ==
  pr.state = "open" /\ ~pr.draft /\ context[pr.head] = "success"
    => TrustedRelease \/ pr.head \in macPassed \cup redrafted

MacInv ==
  /\ MacTypeOK /\ \A g \in Groups : RunFollows(run[g])
  /\ Heads /\ ReadyIsRun /\ LegsLeave /\ GreenIsCovered

LEMMA IdleIsRun ==
  /\ Idle \in Run /\ RunFollows(Idle) /\ Idle.phase = "idle" /\ Idle.head = 0
  /\ Idle.event = "push" /\ Idle.setup = FALSE /\ Idle.failed = {} /\ Idle.payload = NoPayload
  /\ Idle.again = FALSE /\ NoPayload \in Payload
<1>1. NoPayload \in Payload
  BY DEF NoPayload, Payload
<1>2. /\ Idle.phase = "idle" /\ Idle.head = 0 /\ Idle.event = "push" /\ Idle.setup = FALSE
      /\ Idle.failed = {} /\ Idle.payload = NoPayload /\ Idle.again = FALSE
  BY DEF Idle
<1>3. Idle \in Run
  BY <1>1 DEF Idle, Run, nonPrEvents
<1> QED BY <1>1, <1>2, <1>3 DEF RunFollows

(* A run that starts, with a payload that can be read or not.  *)
LEMMA Started ==
  ASSUME MacTypeOK, NEW r \in Run, r.phase = "setup", RunFollows(r),
         r.head \in 0 .. MaxPush + 1, StartRun(r)
  PROVE  /\ run' \in [Groups -> Run] /\ \A g \in Groups \ {"pr"} : run'[g] = run[g]
         /\ run'["pr"].phase = "setup" /\ RunFollows(run'["pr"])
         /\ run'["pr"].event = r.event /\ run'["pr"].head = r.head /\ run'["pr"].again = r.again
         /\ run'["pr"].payload.draft = r.payload.draft
         /\ run'["pr"].payload.diff = r.payload.diff
         /\ run'["pr"].payload.sameRepo = r.payload.sameRepo
         /\ run'["pr"].payload.releaseBranch = r.payload.releaseBranch
         /\ context' \in [0 .. MaxPush + 1 -> {"pending", "success", "failure"}]
         /\ context'[r.head] = "pending"
         /\ \A h \in 0 .. MaxPush + 1 : context'[h] = "success" => context[h] = "success"
<1>1. PICK refs \in BOOLEAN, readable \in BOOLEAN :
        run' = [run EXCEPT !["pr"] = [r EXCEPT !.payload.refs = refs, !.payload.readable = readable]]
  BY DEF StartRun
<1>2. context' = [h \in DOMAIN context |->
            IF h = r.head THEN "pending"
            ELSE IF run["pr"].phase # "idle" /\ h = run["pr"].head THEN "failure"
            ELSE context[h]]
  BY DEF StartRun
<1> DEFINE payload == [r.payload EXCEPT !.refs = refs, !.readable = readable]
           q == [r EXCEPT !.payload.refs = refs, !.payload.readable = readable]
<1>3. r.payload \in Payload
  BY DEF Run
<1>4. /\ payload \in Payload /\ payload.draft = r.payload.draft /\ payload.diff = r.payload.diff
      /\ payload.sameRepo = r.payload.sameRepo
      /\ payload.releaseBranch = r.payload.releaseBranch
  BY <1>3 DEF Payload
<1>5. q = [r EXCEPT !.payload = payload]
  BY <1>3 DEF Run, Payload
<1>6. run' = [run EXCEPT !["pr"] = q]
  BY <1>1
<1> HIDE DEF payload, q
<1>7. /\ q \in Run /\ q.phase = "setup" /\ q.event = r.event /\ q.head = r.head
      /\ q.again = r.again /\ q.setup = r.setup /\ q.failed = r.failed /\ q.payload = payload
  BY <1>4, <1>5 DEF Run
<1>8. RunFollows(q)
  BY <1>7 DEF RunFollows
<1>9. "pr" \in Groups /\ run \in [Groups -> Run]
  BY MacAssumption DEF MacTypeOK
<1>10. run'["pr"] = q /\ run' \in [Groups -> Run] /\ \A g \in Groups \ {"pr"} : run'[g] = run[g]
  BY <1>6, <1>7, <1>9
<1>11. /\ context' \in [0 .. MaxPush + 1 -> {"pending", "success", "failure"}]
       /\ context'[r.head] = "pending"
       /\ \A h \in 0 .. MaxPush + 1 : context'[h] = "success" => context[h] = "success"
  BY <1>2 DEF MacTypeOK
<1> QED BY <1>4, <1>7, <1>8, <1>10, <1>11

(* The run an event starts, of the pull request as it stands.              *)
LEMMA Snapshots ==
  ASSUME NEW p \in PullRequest
  PROVE  /\ Snapshot(p) \in Run /\ RunFollows(Snapshot(p))
         /\ Snapshot(p).phase = "setup" /\ Snapshot(p).event = "pull_request"
         /\ Snapshot(p).head = p.head /\ Snapshot(p).again = FALSE
         /\ Snapshot(p).payload.draft = (IF p.draft THEN "true" ELSE "false")
         /\ Snapshot(p).payload.diff = p.diff
         /\ Snapshot(p).payload.sameRepo = p.sameRepo
         /\ Snapshot(p).payload.releaseBranch = p.releaseBranch
<1> DEFINE payload == [readable |-> TRUE, refs |-> TRUE, diff |-> p.diff,
                       draft |-> IF p.draft THEN "true" ELSE "false",
                       sameRepo |-> p.sameRepo, releaseBranch |-> p.releaseBranch,
                       diagnostic |-> FALSE]
           r == [Idle EXCEPT !.phase = "setup", !.event = "pull_request", !.head = p.head,
                             !.payload = payload]
<1>1. /\ payload \in Payload /\ payload.diff = p.diff
      /\ payload.draft = (IF p.draft THEN "true" ELSE "false")
      /\ payload.sameRepo = p.sameRepo /\ payload.releaseBranch = p.releaseBranch
  BY DEF Payload, PullRequest
<1>2. Snapshot(p) = r
  BY DEF Snapshot
<1> HIDE DEF payload
<1>3. p.head \in Nat
  BY MacAssumption DEF PullRequest
<1>4. r.setup = FALSE /\ r.failed = {} /\ r.again = FALSE
  BY IdleIsRun DEF Idle
<1>5. /\ r \in Run /\ r.phase = "setup" /\ r.event = "pull_request" /\ r.head = p.head
      /\ r.payload = payload
  BY <1>1, <1>3, IdleIsRun DEF Run
<1> HIDE DEF r
<1>6. RunFollows(r)
  BY <1>4, <1>5 DEF RunFollows
<1> QED BY <1>1, <1>2, <1>4, <1>5, <1>6

(* The runs started before are still of the pull request after the step.   *)
KeepsRuns == \A r \in Run : OfPr(r) => OfPr(r)'

(* A step that leaves the pull request ready or not, with a run of it as   *)
(* it now stands.                                                          *)
LEMMA TriggeredStep ==
  ASSUME MacInv, NEW action, triggered(action), Trigger(action, pr'),
         pr' \in PullRequest, pushes' \in 0 .. MaxPush, UNCHANGED <<macPassed, redrafted>>,
         pr'.state = "open", pr'.head \in 1 .. pushes' + 1, KeepsRuns
  PROVE  MacInv'
<1>1. MacTypeOK /\ (\A g \in Groups : RunFollows(run[g])) /\ Heads
  BY DEF MacInv
<1> DEFINE r == Snapshot(pr')
<1>2. /\ r \in Run /\ r.phase = "setup" /\ RunFollows(r)
      /\ r.event = "pull_request" /\ r.head = pr'.head /\ r.again = FALSE
      /\ r.payload.draft = (IF pr'.draft THEN "true" ELSE "false")
      /\ r.payload.diff = pr'.diff /\ r.payload.sameRepo = pr'.sameRepo
      /\ r.payload.releaseBranch = pr'.releaseBranch
  BY Snapshots
<1>3. StartRun(r) /\ started' = started \cup {r}
  BY DEF Trigger
<1> HIDE DEF r
<1>4. r.head \in 0 .. MaxPush + 1 /\ pr'.head \in 1 .. pr'.head
  BY <1>2, MacAssumption DEF PullRequest
<1> DEFINE q == run'["pr"]
<1>5. /\ run' \in [Groups -> Run] /\ \A g \in Groups \ {"pr"} : run'[g] = run[g]
      /\ q.phase = "setup" /\ RunFollows(q)
      /\ q.event = "pull_request" /\ q.head = pr'.head /\ q.again = FALSE
      /\ q.payload.draft = (IF pr'.draft THEN "true" ELSE "false")
      /\ q.payload.diff = pr'.diff /\ q.payload.sameRepo = pr'.sameRepo
      /\ q.payload.releaseBranch = pr'.releaseBranch
      /\ context' \in [0 .. MaxPush + 1 -> {"pending", "success", "failure"}]
      /\ context'[pr'.head] = "pending"
  BY <1>1, <1>2, <1>3, <1>4, Started
<1>6. MacTypeOK'
  BY <1>1, <1>2, <1>3, <1>5 DEF MacTypeOK
<1>7. (\A g \in Groups : RunFollows(run[g]))'
  <2>1. \A g \in Groups : RunFollows(run'[g])
    BY <1>1, <1>5
  <2> QED BY <2>1
<1>8. Heads'
  <2>1. "main" \in Groups => run'["main"] = run["main"]
    BY <1>5
  <2>2. OfPr(run["pr"])'
    BY <1>4, <1>5 DEF OfPr
  <2>3. \A x \in {r} : OfPr(x)'
    BY <1>2, <1>4 DEF OfPr
  <2>4. ASSUME NEW x \in started' PROVE OfPr(x)' /\ x.phase = "setup" /\ RunFollows(x)
    <3>1. CASE x = r
      BY <1>2, <2>3, <3>1
    <3>2. CASE x \in started
      <4>1. x \in Run /\ OfPr(x) /\ x.phase = "setup" /\ RunFollows(x)
        BY <1>1, <3>2 DEF Heads, MacTypeOK
      <4> QED BY <4>1 DEF KeepsRuns
    <3> QED BY <1>3, <3>1, <3>2
  <2> QED BY <1>1, <2>1, <2>2, <2>4 DEF Heads
<1>9. ReadyIsRun' /\ LegsLeave' /\ GreenIsCovered'
  BY <1>5 DEF ReadyIsRun, LegsLeave, GreenIsCovered
<1> QED BY <1>6, <1>7, <1>8, <1>9 DEF MacInv

(* A step of the pull request that starts no run: it is not ready after.   *)
LEMMA QuietStep ==
  ASSUME MacInv, pr' \in PullRequest, pushes' \in 0 .. MaxPush, pr'.head \in 1 .. pushes' + 1,
         UNCHANGED <<run, started, context, macPassed, redrafted>>, KeepsRuns,
         pr'.state = "closed" \/ (pr'.state = "open" /\ pr'.draft)
  PROVE  MacInv'
<1>1. /\ MacTypeOK /\ (\A g \in Groups : RunFollows(run[g])) /\ Heads /\ LegsLeave
      /\ run' = run /\ started' = started /\ context' = context /\ macPassed' = macPassed
      /\ "pr" \in Groups
  BY MacAssumption DEF MacInv
<1>2. MacTypeOK'
  BY <1>1 DEF MacTypeOK
<1>3. (\A g \in Groups : RunFollows(run[g]))'
  BY <1>1
<1>4. Heads'
  <2>1. run["pr"] \in Run /\ started \subseteq Run
    BY <1>1 DEF MacTypeOK
  <2>2. run'["pr"].phase # "idle" => OfPr(run["pr"])'
    <3>1. ASSUME NEW r, r = run["pr"], r.phase # "idle" PROVE OfPr(r)'
      BY <1>1, <2>1, <3>1 DEF Heads, KeepsRuns
    <3> QED BY <1>1, <3>1 DEF OfPr
  <2>3. \A r \in started : OfPr(r)' /\ r.phase = "setup" /\ RunFollows(r)
    BY <1>1, <2>1 DEF Heads, KeepsRuns
  <2> QED BY <1>1, <2>2, <2>3 DEF Heads
<1>5. ReadyIsRun' /\ LegsLeave' /\ GreenIsCovered'
  BY <1>1 DEF ReadyIsRun, LegsLeave, GreenIsCovered
<1> QED BY <1>2, <1>3, <1>4, <1>5 DEF MacInv

LEMMA PrSteps ==
  ASSUME MacInv,
         Open \/ Push \/ ReadyForReview \/ ConvertToDraft \/ ClosePr \/ Reopen
  PROVE  MacInv'
<1>1. /\ pr \in PullRequest /\ pushes \in 0 .. MaxPush /\ MaxPush \in Nat
      /\ pr.state = "none" => pr.head = 0 /\ pushes = 0
      /\ pr.state # "none" => pr.head \in 1 .. pushes + 1
  BY MacAssumption DEF MacInv, MacTypeOK, Heads
<1>2. ASSUME pr'.head = pr.head, pr'.diff = pr.diff, pr'.sameRepo = pr.sameRepo,
             pr'.releaseBranch = pr.releaseBranch
      PROVE  KeepsRuns
  BY <1>2 DEF KeepsRuns, OfPr
<1>3. ASSUME pr'.head = pr.head + 1
      PROVE  KeepsRuns
  <2>1. pr.head \in Nat
    BY <1>1 DEF PullRequest
  <2>2. \A h \in 1 .. pr.head : h \in 1 .. pr'.head /\ h # pr'.head
    BY <1>3, <2>1
  <2> QED BY <2>2 DEF KeepsRuns, OfPr
<1>4. CASE Open
  <2>1. PICK draft \in BOOLEAN, sameRepo \in BOOLEAN, releaseBranch \in BOOLEAN, diff \in Diffs :
          pr' = [state |-> "open", draft |-> draft, head |-> 1, diff |-> diff,
                 sameRepo |-> sameRepo, releaseBranch |-> releaseBranch]
    BY <1>4 DEF Open
  <2>2. diff \in SUBSET Changes /\ 1 \in 0 .. MaxPush + 1
    BY <1>1, MacAssumption
  <2>3. pr' \in PullRequest /\ pr'.state = "open" /\ pr'.head = 1
    BY <2>1, <2>2 DEF PullRequest
  <2>4. /\ Trigger("opened", pr') /\ UNCHANGED <<macPassed, redrafted>> /\ pushes' = 0
        /\ pr.head = 0
    BY <1>1, <1>4 DEF Open, counts
  <2>5. triggered("opened")
    BY DEF triggered, checkTypes
  <2>6. pr'.head \in 1 .. pushes' + 1 /\ pushes' \in 0 .. MaxPush
    BY <1>1, <2>3, <2>4
  <2>7. KeepsRuns
    BY <1>3, <2>3, <2>4
  <2> QED BY <2>3, <2>4, <2>5, <2>6, <2>7, TriggeredStep
<1>5. CASE Push
  <2>1. PICK diff \in Diffs : pr' = [pr EXCEPT !.head = @ + 1, !.diff = diff]
    BY <1>5 DEF Push
  <2>2. /\ pr.state \in {"open", "closed"} /\ pushes < MaxPush /\ pushes' = pushes + 1
        /\ UNCHANGED <<macPassed, redrafted>>
    BY <1>5 DEF Push
  <2>3. diff \in SUBSET Changes
    BY MacAssumption
  <2>4. /\ pr.head + 1 \in 0 .. MaxPush + 1 /\ pr.head + 1 \in 1 .. pushes' + 1
        /\ pushes' \in 0 .. MaxPush
    BY <1>1, <2>2
  <2>5. pr' \in PullRequest /\ pr'.state = pr.state /\ pr'.head = pr.head + 1
    BY <1>1, <2>1, <2>3, <2>4 DEF PullRequest
  <2>6. KeepsRuns
    BY <1>3, <2>5
  <2>7. CASE pr.state = "open"
    <3>1. Trigger("synchronize", pr') /\ triggered("synchronize")
      BY <1>5, <2>7 DEF Push, triggered, checkTypes
    <3> QED BY <2>2, <2>4, <2>5, <2>7, <2>6, <3>1, TriggeredStep
  <2>8. CASE pr.state = "closed"
    <3>1. UNCHANGED <<run, started, context>>
      BY <1>5, <2>8 DEF Push
    <3> QED BY <2>2, <2>4, <2>5, <2>8, <2>6, <3>1, QuietStep
  <2> QED BY <2>2, <2>7, <2>8
<1>6. CASE ReadyForReview
  <2>1. /\ pr.state = "open" /\ pr' = [pr EXCEPT !.draft = FALSE]
        /\ Trigger("ready_for_review", [pr EXCEPT !.draft = FALSE])
        /\ UNCHANGED <<macPassed, redrafted>> /\ pushes' = pushes
    BY <1>6 DEF ReadyForReview, Flip
  <2>2. pr' \in PullRequest /\ pr'.state = "open" /\ pr'.head = pr.head /\ KeepsRuns
    BY <1>1, <1>2, <2>1 DEF PullRequest
  <2>3. triggered("ready_for_review") /\ Trigger("ready_for_review", pr')
    BY <2>1 DEF triggered, checkTypes
  <2> QED BY <1>1, <2>1, <2>2, <2>3, TriggeredStep
<1>7. CASE Reopen
  <2>1. /\ pr.state = "closed" /\ pr' = [pr EXCEPT !.state = "open"]
        /\ Trigger("reopened", [pr EXCEPT !.state = "open"])
        /\ UNCHANGED <<macPassed, redrafted>> /\ pushes' = pushes
    BY <1>7 DEF Reopen, Flip
  <2>2. pr' \in PullRequest /\ pr'.state = "open" /\ pr'.head = pr.head /\ KeepsRuns
    BY <1>1, <1>2, <2>1 DEF PullRequest
  <2>3. triggered("reopened") /\ Trigger("reopened", pr')
    BY <2>1 DEF triggered, checkTypes
  <2> QED BY <1>1, <2>1, <2>2, <2>3, TriggeredStep
<1>8. CASE ConvertToDraft
  <2>1. /\ pr.state = "open" /\ pr' = [pr EXCEPT !.draft = TRUE]
        /\ Trigger("converted_to_draft", [pr EXCEPT !.draft = TRUE])
        /\ UNCHANGED <<macPassed, redrafted>> /\ pushes' = pushes
    BY <1>8 DEF ConvertToDraft, Flip
  <2>2. pr' \in PullRequest /\ pr'.state = "open" /\ pr'.draft /\ pr'.head = pr.head /\ KeepsRuns
    BY <1>1, <1>2, <2>1 DEF PullRequest
  <2>3. UNCHANGED <<run, started, context>>
    BY <2>1 DEF Trigger, triggered, checkTypes
  <2> QED BY <1>1, <2>1, <2>2, <2>3, QuietStep
<1>9. CASE ClosePr
  <2>1. /\ pr.state = "open" /\ pr' = [pr EXCEPT !.state = "closed"]
        /\ Trigger("closed", [pr EXCEPT !.state = "closed"])
        /\ UNCHANGED <<macPassed, redrafted>> /\ pushes' = pushes
    BY <1>9 DEF ClosePr, Flip
  <2>2. pr' \in PullRequest /\ pr'.state = "closed" /\ pr'.head = pr.head /\ KeepsRuns
    BY <1>1, <1>2, <2>1 DEF PullRequest
  <2>3. UNCHANGED <<run, started, context>>
    BY <2>1 DEF Trigger, triggered, checkTypes
  <2> QED BY <1>1, <2>1, <2>2, <2>3, QuietStep
<1> QED BY <1>4, <1>5, <1>6, <1>7, <1>8, <1>9

LEMMA MergeStep ==
  ASSUME MacInv, Merge
  PROVE  MacInv'
<1>1. /\ pr.state = "open" /\ pr' = [pr EXCEPT !.state = "merged"]
      /\ UNCHANGED <<run, started, context, macPassed, redrafted, counts>>
  BY DEF Merge
<1>2. pr \in PullRequest
  BY DEF MacInv, MacTypeOK
<1>3. /\ pr' \in PullRequest /\ pr'.state = "merged" /\ pr'.head = pr.head /\ pr'.diff = pr.diff
      /\ pr'.sameRepo = pr.sameRepo /\ pr'.releaseBranch = pr.releaseBranch
  BY <1>1, <1>2 DEF PullRequest
<1>4. MacTypeOK'
  BY <1>1, <1>3 DEF MacInv, MacTypeOK, counts
<1>5. Heads'
  <2>1. \A r : OfPr(r)' <=> OfPr(r)
    BY <1>3 DEF OfPr
  <2>2. OfPr(run["pr"])' <=> OfPr(run["pr"])
    BY <1>1, <1>3 DEF OfPr
  <2> QED BY <1>1, <1>3, <2>1, <2>2 DEF MacInv, Heads, counts
<1>6. (\A g \in Groups : RunFollows(run[g]))' /\ ReadyIsRun' /\ LegsLeave' /\ GreenIsCovered'
  BY <1>1, <1>3 DEF MacInv, ReadyIsRun, LegsLeave, GreenIsCovered
<1> QED BY <1>4, <1>5, <1>6 DEF MacInv

(* A step of one run: it is of the same pull request. *)
LEMMA RunStep ==
  ASSUME MacInv, NEW g \in Groups, UNCHANGED <<pr, pushes, started>>,
         run' \in [Groups -> Run], \A k \in Groups \ {g} : run'[k] = run[k],
         RunFollows(run'[g]),
         g = "pr" => (run'[g].phase # "idle" => OfPr(run'[g])),
         g = "main" => run'[g].event \in nonPrEvents /\ run'[g].head = 0,
         ReadyIsRun', LegsLeave',
         context' \in [0 .. MaxPush + 1 -> {"pending", "success", "failure"}], GreenIsCovered'
  PROVE  MacInv'
<1>1. /\ MacTypeOK /\ (\A k \in Groups : RunFollows(run[k])) /\ Heads
      /\ pr' = pr /\ pushes' = pushes /\ started' = started
      /\ "pr" \in Groups /\ Groups \subseteq {"pr", "main"}
  BY MacAssumption DEF MacInv
<1>2. MacTypeOK'
  BY <1>1 DEF MacTypeOK
<1>3. (\A k \in Groups : RunFollows(run[k]))'
  <2>1. \A k \in Groups : RunFollows(run'[k])
    BY <1>1
  <2> QED BY <2>1
<1>4. Heads'
  <2>1. \A r : OfPr(r)' <=> OfPr(r)
    BY <1>1 DEF OfPr
  <2>2. run'["pr"].phase # "idle" => OfPr(run'["pr"])
    BY <1>1 DEF Heads
  <2>3. OfPr(run["pr"])' <=> OfPr(run'["pr"])
    BY <1>1 DEF OfPr
  <2>4. "main" \in Groups => run'["main"].head = 0 /\ run'["main"].event \in nonPrEvents
    BY <1>1 DEF Heads
  <2> QED BY <1>1, <2>1, <2>2, <2>3, <2>4 DEF Heads
<1> QED BY <1>2, <1>3, <1>4 DEF MacInv

(* A head that is not made green is as covered as it was. *)
LEMMA StillCovered ==
  ASSUME MacInv, pr' = pr, macPassed \subseteq macPassed',
         pr.head \in redrafted => pr.head \in redrafted',
         context'[pr.head] = "success" => context[pr.head] = "success"
  PROVE  GreenIsCovered'
<1>1. TrustedRelease' <=> TrustedRelease
  BY DEF TrustedRelease
<1>2. GreenIsCovered
  BY DEF MacInv
<1> QED BY <1>1, <1>2 DEF GreenIsCovered

LEMMA RerunStep ==
  ASSUME MacInv, Rerun
  PROVE  MacInv'
<1>1. PICK r \in started : StartRun([r EXCEPT !.again = TRUE])
  BY DEF Rerun
<1>2. /\ MacTypeOK /\ Heads /\ "pr" \in Groups
      /\ UNCHANGED <<pr, started, macPassed, redrafted, pushes>>
  BY MacAssumption DEF Rerun, MacInv
<1>3. r \in Run /\ OfPr(r) /\ r.phase = "setup" /\ RunFollows(r)
  BY <1>2 DEF MacTypeOK, Heads
<1> DEFINE a == [r EXCEPT !.again = TRUE]
<1>4. /\ a \in Run /\ a.phase = "setup" /\ a.again = TRUE /\ a.event = r.event
      /\ a.head = r.head /\ a.payload = r.payload /\ a.setup = r.setup /\ a.failed = r.failed
  BY <1>3 DEF Run
<1>5. StartRun(a)
  BY <1>1
<1> HIDE DEF a
<1>6. RunFollows(a)
  BY <1>3, <1>4 DEF RunFollows
<1>7. pr.head \in 0 .. MaxPush + 1 /\ a.head \in 0 .. MaxPush + 1
  BY <1>2, <1>3, <1>4, MacAssumption DEF MacTypeOK, PullRequest, OfPr
<1>8. /\ run' \in [Groups -> Run] /\ \A g \in Groups \ {"pr"} : run'[g] = run[g]
      /\ run'["pr"].phase = "setup" /\ RunFollows(run'["pr"])
      /\ run'["pr"].event = a.event /\ run'["pr"].head = a.head /\ run'["pr"].again = TRUE
      /\ run'["pr"].payload.diff = a.payload.diff
      /\ run'["pr"].payload.sameRepo = a.payload.sameRepo
      /\ run'["pr"].payload.releaseBranch = a.payload.releaseBranch
      /\ context' \in [0 .. MaxPush + 1 -> {"pending", "success", "failure"}]
      /\ \A h \in 0 .. MaxPush + 1 : context'[h] = "success" => context[h] = "success"
  BY <1>2, <1>4, <1>5, <1>6, <1>7, Started
<1>9. OfPr(run'["pr"])
  BY <1>3, <1>4, <1>8 DEF OfPr
<1>10. ReadyIsRun' /\ LegsLeave'
  BY <1>8 DEF ReadyIsRun, LegsLeave
<1>11. GreenIsCovered'
  BY <1>2, <1>7, <1>8, StillCovered
<1> QED BY <1>2, <1>8, <1>9, <1>10, <1>11, RunStep

LEMMA MainRunStep ==
  ASSUME MacInv, MainRun
  PROVE  MacInv'
<1>1. PICK event \in {"push", "workflow_dispatch"}, diagnostic \in BOOLEAN :
        run' = [run EXCEPT !["main"] = [Idle EXCEPT !.phase = "setup", !.event = event,
                                               !.payload.diagnostic = diagnostic]]
  BY DEF MainRun
<1>2. /\ "main" \in Groups /\ UNCHANGED <<pr, started, context, macPassed, redrafted, pushes>>
      /\ run \in [Groups -> Run] /\ "pr" \in Groups
      /\ context \in [0 .. MaxPush + 1 -> {"pending", "success", "failure"}]
  BY MacAssumption DEF MainRun, counts, MacInv, MacTypeOK
<1> DEFINE payload == [NoPayload EXCEPT !.diagnostic = diagnostic]
           r == [Idle EXCEPT !.phase = "setup", !.event = event, !.payload.diagnostic = diagnostic]
<1>3. payload \in Payload
  BY IdleIsRun DEF Payload
<1>4. r.payload = payload
  BY IdleIsRun DEF Idle
<1>5. r = [Idle EXCEPT !.phase = "setup", !.event = event, !.payload = payload]
  BY IdleIsRun DEF Idle
<1> HIDE DEF payload
<1>6. /\ r \in Run /\ r.phase = "setup" /\ r.event = event /\ r.head = 0
      /\ r.setup = FALSE /\ r.failed = {}
  <2> HIDE DEF r
  <2> QED BY <1>3, <1>5, IdleIsRun DEF Run, nonPrEvents
<1>7. run' = [run EXCEPT !["main"] = r]
  BY <1>1
<1> HIDE DEF r
<1>8. /\ run' \in [Groups -> Run] /\ \A k \in Groups \ {"main"} : run'[k] = run[k]
      /\ run'["main"] = r
  BY <1>2, <1>6, <1>7
<1>9. RunFollows(run'["main"]) /\ run'["main"].event \in nonPrEvents
  BY <1>6, <1>8 DEF RunFollows, nonPrEvents
<1>10. run'["main"].head = 0
  BY <1>6, <1>8
<1>11. run'["pr"] = run["pr"]
  BY <1>2, <1>8
<1>12. LegsLeave' /\ ReadyIsRun'
  BY <1>2, <1>11 DEF MacInv, LegsLeave, ReadyIsRun
<1>13. GreenIsCovered'
  BY <1>2, StillCovered
<1> QED BY <1>2, <1>8, <1>9, <1>10, <1>12, <1>13, RunStep

LEMMA Classified ==
  ASSUME NEW r \in Run
  PROVE  /\ classify(r.event, r.payload) \in BOOLEAN
         /\ r.event # "pull_request" => ~classify(r.event, r.payload)
         /\ \A required \in BOOLEAN :
              pick(r.event, required, r.payload.diagnostic) \in SUBSET Systems
<1>1. r.event \in {"pull_request"} \cup nonPrEvents
  BY DEF Run
<1>2. classify(r.event, r.payload) \in BOOLEAN
  BY DEF classify
<1>3. r.event \in nonPrEvents => ~classify(r.event, r.payload)
  BY DEF classify
<1>4. ASSUME NEW required \in BOOLEAN
      PROVE  pick(r.event, required, r.payload.diagnostic) \in SUBSET Systems
  BY DEF pick, Systems
<1> QED BY <1>1, <1>2, <1>3, <1>4

(* A step that changes what one run has done, and not whose it is. *)
LEMMA Advance ==
  ASSUME MacInv, NEW g \in Groups, NEW r \in Run, run' = [run EXCEPT ![g] = r],
         run[g].phase # "idle", RunFollows(r),
         r.head = run[g].head, r.event = run[g].event, r.payload = run[g].payload,
         r.again = run[g].again, UNCHANGED <<pr, started, pushes>>,
         macPassed \subseteq macPassed',
         g = "pr" /\ r.phase = "gate" /\ r.setup /\ "macos" \in r.os \ r.failed
           => r.head \in macPassed',
         context' \in [0 .. MaxPush + 1 -> {"pending", "success", "failure"}], GreenIsCovered'
  PROVE  MacInv'
<1>1. /\ run \in [Groups -> Run] /\ "pr" \in Groups /\ Groups \subseteq {"pr", "main"}
      /\ Heads /\ ReadyIsRun
  BY MacAssumption DEF MacInv, MacTypeOK
<1>2. /\ run' \in [Groups -> Run] /\ \A k \in Groups \ {g} : run'[k] = run[k]
      /\ run'[g] = r
  BY <1>1
<1>3. ReadyIsRun'
  <2>1. CASE g = "pr"
    BY <1>1, <1>2, <2>1 DEF ReadyIsRun
  <2>2. CASE g # "pr"
    <3>1. run'["pr"] = run["pr"]
      BY <1>1, <1>2, <2>2
    <3> QED BY <1>1, <3>1 DEF ReadyIsRun
  <2> QED BY <2>1, <2>2
<1>4. LegsLeave'
  <2>1. CASE g = "pr"
    BY <1>2, <2>1 DEF LegsLeave
  <2>2. CASE g # "pr"
    <3>1. run'["pr"] = run["pr"]
      BY <1>1, <1>2, <2>2
    <3> QED BY <3>1 DEF MacInv, LegsLeave
  <2> QED BY <2>1, <2>2
<1>5. g = "main" => run'[g].event \in nonPrEvents /\ run'[g].head = 0
  BY <1>1, <1>2 DEF Heads
<1>6. g = "pr" => OfPr(run'[g])
  BY <1>1, <1>2 DEF Heads, OfPr
<1> QED BY <1>2, <1>3, <1>4, <1>5, <1>6, RunStep

LEMMA SetupStep ==
  ASSUME MacInv, NEW g \in Groups, Setup(g)
  PROVE  MacInv'
<1> DEFINE q == run[g]
           required == classify(q.event, q.payload)
           os == pick(q.event, required, q.payload.diagnostic)
<1>1. /\ q \in Run /\ q.phase = "setup" /\ RunFollows(q) /\ run \in [Groups -> Run]
      /\ UNCHANGED <<pr, started, context, macPassed, redrafted, pushes>>
      /\ context \in [0 .. MaxPush + 1 -> {"pending", "success", "failure"}]
  BY DEF MacInv, MacTypeOK, Setup, counts
<1>2. \/ run' = [run EXCEPT ![g].phase = "legs", ![g].setup = TRUE,
                           ![g].required = required, ![g].os = os]
      \/ run' = [run EXCEPT ![g].phase = "gate"]
  BY DEF Setup
<1>3. required \in BOOLEAN /\ os \in SUBSET Systems
  <2> HIDE DEF q
  <2> QED BY <1>1, Classified
<1>4. GreenIsCovered'
  BY <1>1, StillCovered
<1>5. CASE run' = [run EXCEPT ![g].phase = "legs", ![g].setup = TRUE,
                             ![g].required = required, ![g].os = os]
  <2> DEFINE r == [q EXCEPT !.phase = "legs", !.setup = TRUE, !.required = required, !.os = os]
  <2>1. run' = [run EXCEPT ![g] = r]
    BY <1>1, <1>5
  <2> HIDE DEF q
  <2>2. /\ r.head = q.head /\ r.event = q.event /\ r.payload = q.payload /\ r.phase = "legs"
        /\ r.setup = TRUE /\ r.required = required /\ r.os = os /\ r.again = q.again
    BY <1>1 DEF Run
  <2> HIDE DEF required, os
  <2>3. r \in Run
    BY <1>1, <1>3 DEF Run
  <2> HIDE DEF r
  <2>4. RunFollows(r)
    BY <2>2 DEF RunFollows, required, os
  <2> QED BY <1>1, <1>4, <2>1, <2>2, <2>3, <2>4, Advance DEF q
<1>6. CASE run' = [run EXCEPT ![g].phase = "gate"]
  <2> DEFINE r == [q EXCEPT !.phase = "gate"]
  <2>1. run' = [run EXCEPT ![g] = r]
    BY <1>1, <1>6
  <2> HIDE DEF q
  <2>2. /\ r.head = q.head /\ r.event = q.event /\ r.payload = q.payload /\ r.phase = "gate"
        /\ r.setup = q.setup /\ r.again = q.again /\ r \in Run
    BY <1>1 DEF Run
  <2> HIDE DEF r
  <2>3. RunFollows(r) /\ ~r.setup
    BY <1>1, <2>2 DEF RunFollows
  <2> QED BY <1>1, <1>4, <2>1, <2>2, <2>3, Advance DEF q
<1> QED BY <1>2, <1>5, <1>6

LEMMA LegsStep ==
  ASSUME MacInv, NEW g \in Groups, Legs(g)
  PROVE  MacInv'
<1> DEFINE q == run[g]
<1>1. /\ q \in Run /\ q.phase = "legs" /\ RunFollows(q) /\ run \in [Groups -> Run]
      /\ UNCHANGED <<pr, started, context, redrafted, pushes>>
      /\ context \in [0 .. MaxPush + 1 -> {"pending", "success", "failure"}]
  BY DEF MacInv, MacTypeOK, Legs, counts
<1>2. PICK broken \in SUBSET q.os :
          /\ run' = [run EXCEPT ![g].phase = "gate", ![g].failed = broken]
          /\ macPassed' = IF g = "pr" /\ "macos" \in q.os \ broken
                          THEN macPassed \cup {q.head} ELSE macPassed
  BY DEF Legs
<1> DEFINE r == [q EXCEPT !.phase = "gate", !.failed = broken]
<1>3. run' = [run EXCEPT ![g] = r]
  BY <1>1, <1>2
<1> HIDE DEF q
<1>4. broken \in SUBSET Systems
  BY <1>1, <1>2 DEF Run
<1>5. /\ r \in Run /\ r.head = q.head /\ r.event = q.event /\ r.payload = q.payload
      /\ r.phase = "gate" /\ r.setup = q.setup /\ r.os = q.os /\ r.required = q.required
      /\ r.failed = broken /\ r.again = q.again
  BY <1>1, <1>4 DEF Run
<1> HIDE DEF r
<1>6. RunFollows(r)
  BY <1>1, <1>5 DEF RunFollows
<1>7. macPassed \subseteq macPassed'
  BY <1>2
<1>8. g = "pr" /\ "macos" \in r.os \ r.failed => r.head \in macPassed'
  BY <1>2, <1>5
<1>9. GreenIsCovered'
  BY <1>1, <1>7, StillCovered
<1> QED BY <1>1, <1>3, <1>5, <1>6, <1>7, <1>8, <1>9, Advance DEF q

(* At the gate of a ready pull request, success means a Mac leg, a release *)
(* or a run of a draft that was run again.                                 *)
LEMMA GateCovers ==
  ASSUME MacInv, run["pr"].phase = "gate", checkResults(run["pr"]), pr.state = "open", ~pr.draft,
         run["pr"].head = pr.head
  PROVE  \/ TrustedRelease \/ pr.head \in macPassed
         \/ run["pr"].again /\ run["pr"].payload.draft = "true"
<1> DEFINE r == run["pr"]
<1>1. /\ r \in Run /\ pr \in PullRequest /\ RunFollows(r) /\ OfPr(r) /\ ReadyIsRun /\ LegsLeave
  BY MacAssumption DEF MacInv, MacTypeOK, Heads
<1>2. /\ r.phase = "gate" /\ r.setup /\ r.failed = {}
      /\ r.os = expected(r.event, r.required, r.payload.diagnostic)
  BY DEF checkResults
<1>3. /\ r.head = pr.head /\ r.event = "pull_request" /\ r.payload.diff = pr.diff
      /\ r.payload.sameRepo = pr.sameRepo /\ r.payload.releaseBranch = pr.releaseBranch
  BY <1>1 DEF OfPr
<1>4. r.payload.draft = "false" \/ (r.again /\ r.payload.draft = "true")
  BY <1>1, <1>2, <1>3 DEF ReadyIsRun, Run, Payload
<1>5. CASE r.required
  <2>1. "macos" \in r.os \ r.failed
    BY <1>2, <1>3, <1>5 DEF expected
  <2> QED BY <1>1, <1>2, <1>3, <2>1 DEF LegsLeave
<1>6. CASE ~r.required /\ r.payload.draft = "false"
  <2>1. ~classify("pull_request", r.payload)
    BY <1>1, <1>2, <1>3, <1>6 DEF RunFollows
  <2>2. /\ r.payload.diff \in SUBSET Changes /\ r.payload.sameRepo \in BOOLEAN
        /\ r.payload.releaseBranch \in BOOLEAN
    BY <1>1, <1>3 DEF PullRequest
  <2> DEFINE payload == r.payload
  <2>3. payload.draft = "false"
    BY <1>6
  <2> HIDE DEF payload
  <2>4. /\ payload.sameRepo /\ payload.releaseBranch /\ payload.diff # {}
        /\ payload.diff \subseteq ReleaseChanges
    BY <2>1, <2>2, <2>3, NoMacForRelease DEF payload
  <2> QED BY <1>3, <2>4 DEF TrustedRelease, ReleaseChanges, payload
<1> QED BY <1>4, <1>5, <1>6

LEMMA GateStep ==
  ASSUME MacInv, NEW g \in Groups, Gate(g)
  PROVE  MacInv'
<1> DEFINE q == run[g]
           r == [q EXCEPT !.phase = "idle"]
<1>1. /\ q \in Run /\ q.phase = "gate" /\ RunFollows(q) /\ run \in [Groups -> Run]
      /\ UNCHANGED <<pr, started, macPassed, pushes>>
      /\ run' = [run EXCEPT ![g].phase = "idle"]
      /\ context' = [context EXCEPT ![q.head] = IF checkResults(q) THEN "success" ELSE "failure"]
      /\ context \in [0 .. MaxPush + 1 -> {"pending", "success", "failure"}]
      /\ redrafted' = IF g = "main" THEN redrafted
                      ELSE IF q.again /\ q.payload.draft = "true"
                      THEN redrafted \cup {q.head} ELSE redrafted \ {q.head}
  BY DEF MacInv, MacTypeOK, Gate, counts
<1>2. run' = [run EXCEPT ![g] = r]
  BY <1>1
<1> HIDE DEF q
<1>3. /\ r \in Run /\ r.head = q.head /\ r.event = q.event /\ r.payload = q.payload
      /\ r.phase = "idle" /\ r.again = q.again
  BY <1>1 DEF Run
<1> HIDE DEF r
<1>4. RunFollows(r)
  BY <1>3 DEF RunFollows
<1>5. context' \in [0 .. MaxPush + 1 -> {"pending", "success", "failure"}]
  BY <1>1
<1>6. GreenIsCovered'
  <2>1. /\ Groups \subseteq {"pr", "main"} /\ Heads /\ pr.head \in 0 .. MaxPush + 1
        /\ pr.state = "open" => pr.head # 0
    <3>1. pr.state # "none" => pr.head \in 1 .. pushes + 1 /\ pushes \in Nat
      BY MacAssumption DEF MacInv, MacTypeOK, Heads
    <3> QED BY <3>1, MacAssumption DEF MacInv, MacTypeOK, PullRequest
  <2>2. CASE q.head # pr.head
    <3>1. context'[pr.head] = context[pr.head] /\ (pr.head \in redrafted => pr.head \in redrafted')
      BY <1>1, <2>1, <2>2
    <3> QED BY <1>1, <3>1, StillCovered
  <2>3. CASE pr.state # "open" \/ pr.draft
    BY <1>1, <2>3 DEF GreenIsCovered
  <2>4. CASE q.head = pr.head /\ pr.state = "open" /\ ~pr.draft
    <3>1. g = "pr"
      BY <2>1, <2>4 DEF q, Heads
    <3>2. context'[pr.head] = "success" => checkResults(q)
      BY <1>1, <2>1, <2>4
    <3>3. checkResults(q) => \/ TrustedRelease \/ pr.head \in macPassed
                             \/ q.again /\ q.payload.draft = "true"
      BY <1>1, <2>4, <3>1, GateCovers DEF q
    <3>4. TrustedRelease' <=> TrustedRelease
      BY <1>1 DEF TrustedRelease
    <3> QED BY <1>1, <2>4, <3>1, <3>2, <3>3, <3>4 DEF GreenIsCovered
  <2> QED BY <2>2, <2>3, <2>4
<1> QED BY <1>1, <1>2, <1>3, <1>4, <1>5, <1>6, Advance DEF q

LEMMA MacInvHolds == MacSpec => []MacInv
<1>1. MacInit => MacInv
  <2> SUFFICES ASSUME MacInit PROVE MacInv
    OBVIOUS
  <2>1. /\ pr = NoPr /\ run = [g \in Groups |-> Idle] /\ pushes = 0 /\ started = {}
        /\ context = [h \in 0 .. MaxPush + 1 |-> "pending"]
    BY DEF MacInit
  <2>2. pr \in PullRequest /\ pr.state = "none" /\ pr.head = 0
    BY <2>1, MacAssumption DEF NoPr, PullRequest
  <2>3. /\ run \in [Groups -> Run] /\ \A g \in Groups : run[g] = Idle
        /\ "pr" \in Groups
    BY <2>1, IdleIsRun, MacAssumption
  <2>4. MacTypeOK
    BY <2>1, <2>2, <2>3, MacAssumption DEF MacTypeOK
  <2>5. \A g \in Groups : RunFollows(run[g])
    BY <2>3, IdleIsRun
  <2>6. Heads
    BY <2>1, <2>2, <2>3, IdleIsRun DEF Heads, nonPrEvents
  <2>7. ReadyIsRun /\ LegsLeave /\ GreenIsCovered
    BY <2>2, <2>3, IdleIsRun DEF ReadyIsRun, LegsLeave, GreenIsCovered
  <2> QED BY <2>4, <2>5, <2>6, <2>7 DEF MacInv
<1>2. ASSUME MacInv, UNCHANGED macVars PROVE MacInv'
  <2>1. UNCHANGED <<pr, run, started, context, macPassed, redrafted, pushes>>
    BY <1>2 DEF macVars
  <2>2. MacTypeOK' /\ Heads' /\ ReadyIsRun' /\ LegsLeave'
    BY <1>2, <2>1 DEF MacInv, MacTypeOK, Heads, OfPr, ReadyIsRun, LegsLeave
  <2>3. GreenIsCovered'
    BY <1>2, <2>1 DEF MacInv, GreenIsCovered, TrustedRelease
  <2>4. (\A g \in Groups : RunFollows(run[g]))'
    BY <1>2, <2>1 DEF MacInv
  <2> QED BY <2>2, <2>3, <2>4 DEF MacInv
<1>3. MacInv /\ [MacNext]_macVars => MacInv'
  BY <1>2, PrSteps, MergeStep, RerunStep, MainRunStep, SetupStep, LegsStep, GateStep DEF MacNext
<1> QED BY <1>1, <1>3, PTL DEF MacSpec

(* "Ordinary PRs buy one Mac lane" (check.yml:25) before they merge:       *)
(* through any number of pushes, conversions, closings and re-runs of any  *)
(* earlier run, what is merged is a release, had a Mac run of exactly its  *)
(* head, or has its report from a draft's run of that head, run again.     *)
THEOREM MergeIsCovered == MacSpec => MacCoversMerge
<1> DEFINE Covered == pr.state # "merged" /\ pr'.state = "merged" =>
                        TrustedRelease \/ pr.head \in macPassed \cup redrafted
<1>1. MacInv /\ [MacNext]_macVars => [Covered]_macVars
  <2> SUFFICES ASSUME MacInv, MacNext, pr.state # "merged", pr'.state = "merged"
               PROVE  TrustedRelease \/ pr.head \in macPassed \cup redrafted
    OBVIOUS
  <2>1. pr \in PullRequest
    BY DEF MacInv, MacTypeOK
  <2>2. ~(Open \/ Push \/ ReadyForReview \/ ConvertToDraft \/ ClosePr \/ Reopen)
    <3>1. \A draft : [pr EXCEPT !.draft = draft].state = pr.state
      BY <2>1 DEF PullRequest
    <3>2. \A state : [pr EXCEPT !.state = state].state = state
      BY <2>1 DEF PullRequest
    <3>3. \A diff : [pr EXCEPT !.head = @ + 1, !.diff = diff].state = pr.state
      BY <2>1 DEF PullRequest
    <3>4. ~Open
      BY DEF Open
    <3>5. ~Push
      BY <3>3 DEF Push
    <3>6. ~(ReadyForReview \/ ConvertToDraft)
      BY <3>1 DEF Flip, ReadyForReview, ConvertToDraft
    <3>7. ~(ClosePr \/ Reopen)
      BY <3>2 DEF Flip, ClosePr, Reopen
    <3> QED BY <3>4, <3>5, <3>6, <3>7
  <2>3. ~(Rerun \/ MainRun) /\ \A g \in Groups : ~(Setup(g) \/ Legs(g) \/ Gate(g))
    BY DEF Rerun, MainRun, Setup, Legs, Gate
  <2>4. Merge
    BY <2>2, <2>3 DEF MacNext
  <2> QED BY <2>4 DEF Merge, MacInv, GreenIsCovered
<1> QED BY <1>1, MacInvHolds, PTL DEF MacSpec, MacCoversMerge

(* The gate of check-results.mjs refuses no honest run, whatever event     *)
(* started it.                                                             *)
THEOREM GateRefusesNone == MacSpec => []GateIsFair
<1>1. MacInv => GateIsFair
  <2> SUFFICES ASSUME MacInv, NEW g \in Groups, run[g].phase = "gate"
               PROVE  checkResults(run[g]) <=> (run[g].setup /\ run[g].failed = {})
    BY DEF GateIsFair, MacInv, MacTypeOK
  <2> DEFINE r == run[g]
  <2>1. r \in Run /\ RunFollows(r)
    BY DEF MacInv, MacTypeOK
  <2> HIDE DEF r
  <2>2. ASSUME r.phase = "gate", r.setup
        PROVE  /\ r.os = expected(r.event, r.required, r.payload.diagnostic)
               /\ r.event # "pull_request" => ~r.required
    <3>1. /\ r.required = classify(r.event, r.payload)
          /\ r.os = pick(r.event, r.required, r.payload.diagnostic)
      BY <2>1, <2>2 DEF RunFollows
    <3>2. r.required \in BOOLEAN /\ r.payload.diagnostic \in BOOLEAN
      BY <2>1 DEF Run, Payload
    <3>3. r.event # "pull_request" => ~classify(r.event, r.payload)
      BY <2>1, Classified
    <3> QED BY <3>1, <3>2, <3>3, GateExpects
  <2> QED BY <2>2 DEF checkResults, r
<1> QED BY <1>1, MacInvHolds, PTL

-----------------------------------------------------------------------------
(* The event stream.  What a connection carries, frame by frame.           *)
Event == [seq : Nat \ {0}, type : {"added", "decided"}, id : CallerIds \cup Nat]

Frames == Event \cup {Ping}

LEMMA PingIsNoEvent == Ping \in Frames /\ Ping \notin Event
<1>1. Ping.seq = 0
  BY DEF Ping
<1>2. Ping \notin Event
  BY <1>1 DEF Event
<1> QED BY <1>2 DEF Frames

LEMMA OnWire ==
  ASSUME NEW w \in Seq(Frames)
  PROVE  EventsOn(w) \in Seq(Event)
<1> DEFINE K == {i \in DOMAIN w : w[i] # Ping}
<1>1. K \in SUBSET DOMAIN w /\ \A i \in K : w[i] \in Event
  BY DEF Frames
<1> HIDE DEF K
<1>2. /\ Pick(w, K) \in Seq(Frames) /\ Len(Pick(w, K)) = Cardinality(K)
      /\ Cardinality(K) \in Nat
      /\ \A k \in 1 .. Cardinality(K) : \E i \in K : Pick(w, K)[k] = w[i]
  BY <1>1, PickType
<1> DEFINE q == Pick(w, K)
<1>3. \A k \in 1 .. Len(q) : q[k] \in Event
  BY <1>1, <1>2
<1>4. q \in Seq(Frames) /\ Len(q) \in Nat
  BY <1>2
<1> HIDE DEF q
<1>5. q \in [1 .. Len(q) -> Event]
  BY <1>3, <1>4
<1>6. q \in Seq(Event)
  BY <1>4, <1>5
<1> QED BY <1>6 DEF EventsOn, K, q

LEMMA OnAppend ==
  ASSUME NEW w \in Seq(Frames), NEW e \in Event
  PROVE  /\ EventsOn(Append(w, e)) = Append(EventsOn(w), e)
         /\ EventsOn(Append(w, Ping)) = EventsOn(w)
<1> DEFINE K == {i \in DOMAIN w : w[i] # Ping}
<1>1. K \in SUBSET DOMAIN w /\ e \in Frames /\ e # Ping /\ Ping \in Frames
  BY PingIsNoEvent DEF Frames
<1>2. ASSUME NEW f \in Frames
      PROVE  /\ DOMAIN Append(w, f) = 1 .. Len(w) + 1 /\ DOMAIN w = 1 .. Len(w)
             /\ Append(w, f)[Len(w) + 1] = f
             /\ \A i \in 1 .. Len(w) : Append(w, f)[i] = w[i]
             /\ 1 .. Len(w) + 1 = (1 .. Len(w)) \cup {Len(w) + 1}
  <2>1. Len(w) \in Nat
    OBVIOUS
  <2> QED BY <2>1
<1>3. {i \in DOMAIN Append(w, e) : Append(w, e)[i] # Ping} = K \cup {Len(w) + 1}
  BY <1>1, <1>2
<1>4. {i \in DOMAIN Append(w, Ping) : Append(w, Ping)[i] # Ping} = K
  BY <1>1, <1>2
<1> HIDE DEF K
<1>5. Pick(Append(w, Ping), K) = Pick(w, K)
  BY <1>1, PickAppend
<1>6. Pick(Append(w, e), K \cup {Len(w) + 1}) = Append(Pick(w, K), e)
  BY <1>1, PickAppend
<1> QED BY <1>3, <1>4, <1>5, <1>6 DEF EventsOn, K

(* The client has the log up to somewhere, and its connection carries the  *)
(* rest: no event twice, none missing, none out of order.                  *)
Prefix(sn, lg) ==
  Len(sn) <= Len(lg) /\ \A i \in 1 .. Len(sn) : sn[i] = lg[i]

Carries(sn, w, lg) ==
  /\ Len(sn) + Len(EventsOn(w)) = Len(lg)
  /\ \A k \in 1 .. Len(EventsOn(w)) : EventsOn(w)[k] = lg[Len(sn) + k]

(* The head of the connection is what the client parses next. *)
LEMMA OnTail ==
  ASSUME NEW w \in Seq(Frames), w # <<>>
  PROVE  /\ Head(w) = Ping => EventsOn(Tail(w)) = EventsOn(w)
         /\ Head(w) # Ping => /\ Len(EventsOn(w)) > 0 /\ EventsOn(w)[1] = Head(w)
                             /\ Len(EventsOn(Tail(w))) = Len(EventsOn(w)) - 1
                             /\ \A k \in 1 .. Len(EventsOn(w)) - 1 :
                                  EventsOn(Tail(w))[k] = EventsOn(w)[k + 1]
<1> DEFINE K == {i \in DOMAIN w : w[i] # Ping}
           t == Tail(w)
           J == {i \in DOMAIN t : t[i] # Ping}
<1>1. /\ Len(w) \in Nat \ {0} /\ DOMAIN w = 1 .. Len(w) /\ DOMAIN t = 1 .. Len(w) - 1
      /\ \A i \in 1 .. Len(w) - 1 : t[i] = w[i + 1]
  OBVIOUS
<1>2. \A i \in 1 .. Len(w) - 1 : i + 1 \in 1 .. Len(w)
  BY <1>1
<1>3. J = {i \in 1 .. Len(w) - 1 : i + 1 \in K}
  BY <1>1, <1>2
<1>4. K \in SUBSET DOMAIN w /\ (1 \in K <=> Head(w) # Ping) /\ Head(w) = w[1]
  BY <1>1
<1> HIDE DEF K, J, t
<1>5. /\ 1 \notin K => Pick(Tail(w), J) = Pick(w, K)
      /\ 1 \in K => /\ Len(Pick(w, K)) > 0 /\ Pick(w, K)[1] = w[1]
                    /\ Len(Pick(Tail(w), J)) = Len(Pick(w, K)) - 1
                    /\ \A k \in 1 .. Len(Pick(w, K)) - 1 :
                         Pick(Tail(w), J)[k] = Pick(w, K)[k + 1]
  BY <1>3, <1>4, PickTail
<1>6. EventsOn(w) = Pick(w, K) /\ EventsOn(Tail(w)) = Pick(Tail(w), J)
  BY DEF EventsOn, K, J, t
<1> QED BY <1>4, <1>5, <1>6

(* emit: one event more in the log, one more on the connection. *)
LEMMA EmitCarries ==
  ASSUME NEW sn \in Seq(Event), NEW w \in Seq(Frames), NEW lg \in Seq(Event), NEW e \in Event,
         Prefix(sn, lg)
  PROVE  /\ Prefix(sn, Append(lg, e))
         /\ Carries(sn, w, lg) => Carries(sn, Append(w, e), Append(lg, e))
<1> DEFINE q == EventsOn(w)
<1>1. q \in Seq(Event) /\ EventsOn(Append(w, e)) = Append(q, e)
  BY OnWire, OnAppend
<1>2. Len(sn) \in Nat /\ Len(lg) \in Nat /\ Len(sn) <= Len(lg)
  BY DEF Prefix
<1>3. /\ Len(Append(lg, e)) = Len(lg) + 1 /\ Append(lg, e)[Len(lg) + 1] = e
      /\ \A i \in 1 .. Len(lg) : Append(lg, e)[i] = lg[i]
  OBVIOUS
<1>4. \A i \in 1 .. Len(sn) : i \in 1 .. Len(lg)
  BY <1>2
<1>5. Prefix(sn, Append(lg, e))
  <2>1. Len(sn) <= Len(lg) + 1
    BY <1>2
  <2> QED BY <1>3, <1>4, <2>1 DEF Prefix
<1> HIDE DEF q
<1>6. ASSUME Carries(sn, w, lg) PROVE Carries(sn, Append(w, e), Append(lg, e))
  <2>1. Len(sn) + Len(q) = Len(lg) /\ \A k \in 1 .. Len(q) : q[k] = lg[Len(sn) + k]
    BY <1>6 DEF Carries, q
  <2>2. /\ Len(q) \in Nat /\ Len(Append(q, e)) = Len(q) + 1 /\ Append(q, e)[Len(q) + 1] = e
        /\ \A k \in 1 .. Len(q) : Append(q, e)[k] = q[k]
    BY <1>1
  <2> DEFINE a == Len(sn)
             b == Len(q)
             c == Len(lg)
  <2>3. a \in Nat /\ b \in Nat /\ c \in Nat /\ a + b = c
    BY <1>2, <2>1, <2>2
  <2> HIDE DEF a, b, c
  <2>4. a + (b + 1) = c + 1 /\ \A k \in 1 .. b + 1 : k \notin 1 .. b => k = b + 1 /\ a + k = c + 1
    BY <2>3
  <2>5. ASSUME NEW k \in 1 .. Len(q) + 1
        PROVE  Append(q, e)[k] = Append(lg, e)[Len(sn) + k]
    <3>1. CASE k \in 1 .. Len(q)
      <4>1. Len(sn) + k \in 1 .. Len(lg)
        BY <1>2, <2>1, <2>2, <3>1
      <4> QED BY <1>3, <2>1, <2>2, <3>1, <4>1
    <3>2. CASE k \notin 1 .. Len(q)
      <4>1. k = Len(q) + 1 /\ Len(sn) + k = Len(lg) + 1
        BY <2>4, <3>2 DEF a, b, c
      <4> QED BY <1>3, <2>2, <4>1
    <3> QED BY <3>1, <3>2
  <2>6. Len(sn) + (Len(q) + 1) = Len(lg) + 1
    BY <2>4 DEF a, b, c
  <2> QED BY <1>1, <1>3, <2>2, <2>5, <2>6 DEF Carries
<1> QED BY <1>5, <1>6

(* A frame is parsed: a comment says nothing, an event is the log's next. *)
LEMMA ReceiveCarries ==
  ASSUME NEW sn \in Seq(Event), NEW w \in Seq(Frames), NEW lg \in Seq(Event), w # <<>>,
         Prefix(sn, lg), Carries(sn, w, lg),
         NEW sm, sm = IF Head(w) = Ping THEN sn ELSE Append(sn, Head(w))
  PROVE  sm \in Seq(Event) /\ Prefix(sm, lg) /\ Carries(sm, Tail(w), lg)
<1> DEFINE q == EventsOn(w)
           h == Head(w)
           r == EventsOn(Tail(w))
<1>1. q \in Seq(Event) /\ h \in Frames /\ Tail(w) \in Seq(Frames)
  BY OnWire
<1>2. /\ h = Ping => r = q
      /\ h # Ping => /\ Len(q) > 0 /\ q[1] = h /\ Len(r) = Len(q) - 1
                    /\ \A k \in 1 .. Len(q) - 1 : r[k] = q[k + 1]
  BY OnTail
<1>3. /\ Len(sn) + Len(q) = Len(lg) /\ \A k \in 1 .. Len(q) : q[k] = lg[Len(sn) + k]
      /\ Len(sn) \in Nat /\ Len(lg) \in Nat
      /\ Len(sn) <= Len(lg) /\ \A i \in 1 .. Len(sn) : sn[i] = lg[i]
  BY DEF Carries, Prefix
<1>4. Len(q) \in Nat
  BY <1>1
<1>5. CASE h = Ping
  BY <1>2, <1>5 DEF Carries
<1>6. CASE h # Ping
  <2> HIDE DEF q, h, r
  <2>1. h \in Event
    BY <1>1, <1>6 DEF Frames
  <2>2. /\ sm = Append(sn, h) /\ Len(q) > 0 /\ q[1] = h /\ Len(r) = Len(q) - 1
        /\ \A k \in 1 .. Len(q) - 1 : r[k] = q[k + 1]
    BY <1>2, <1>6 DEF h
  <2>3. /\ sm \in Seq(Event) /\ Len(sm) = Len(sn) + 1 /\ sm[Len(sn) + 1] = h
        /\ \A i \in 1 .. Len(sn) : sm[i] = sn[i]
    BY <2>1, <2>2
  <2>4. h = lg[Len(sn) + 1] /\ Len(sn) + 1 <= Len(lg)
    <3>1. 1 \in 1 .. Len(q)
      BY <1>4, <2>2
    <3>2. Len(sn) + 1 <= Len(lg)
      BY <1>3, <1>4, <2>2
    <3> QED BY <1>3, <2>2, <3>1, <3>2
  <2>5. Prefix(sm, lg)
    <3>1. ASSUME NEW i \in 1 .. Len(sm) PROVE sm[i] = lg[i]
      <4>1. i \in 1 .. Len(sn) \/ i = Len(sn) + 1
        BY <1>3, <2>3
      <4> QED BY <1>3, <2>3, <2>4, <4>1
    <3> QED BY <2>3, <2>4, <3>1 DEF Prefix
  <2>6. Carries(sm, Tail(w), lg)
    <3>1. Len(sm) + Len(r) = Len(lg)
      BY <1>3, <1>4, <2>2, <2>3
    <3>2. ASSUME NEW k \in 1 .. Len(r) PROVE r[k] = lg[Len(sm) + k]
      <4>1. k \in 1 .. Len(q) - 1 /\ k + 1 \in 1 .. Len(q) /\ Len(sn) + (k + 1) = Len(sm) + k
        BY <1>3, <1>4, <2>2, <2>3
      <4>2. r[k] = q[k + 1] /\ q[k + 1] = lg[Len(sn) + (k + 1)]
        BY <1>3, <2>2, <4>1
      <4> QED BY <4>1, <4>2
    <3> QED BY <3>1, <3>2 DEF Carries, r
  <2> QED BY <2>3, <2>5, <2>6
<1> QED BY <1>5, <1>6

(* A sequence of events is all events. *)
LEMMA AllEvents ==
  ASSUME NEW w \in Seq(Event)
  PROVE  w \in Seq(Frames) /\ EventsOn(w) = w
<1>1. w \in Seq(Frames) /\ Len(w) \in Nat /\ DOMAIN w = 1 .. Len(w)
  BY DEF Frames
<1>2. {i \in DOMAIN w : w[i] # Ping} = {i \in DOMAIN w : i > 0}
  BY PingIsNoEvent
<1> DEFINE n == 0
<1>3. n \in 0 .. Len(w)
  BY <1>1
<1>4. Pick(w, {i \in DOMAIN w : i > n}) = [k \in 1 .. Len(w) - n |-> w[k + n]]
  <2> HIDE DEF n
  <2> QED BY <1>3, PickSuffix
<1>5. [k \in 1 .. Len(w) - n |-> w[k + n]] = [k \in 1 .. Len(w) |-> w[k]]
  BY <1>1
<1>6. w = [k \in 1 .. Len(w) |-> w[k]]
  BY <1>1
<1> QED BY <1>1, <1>2, <1>4, <1>5, <1>6 DEF EventsOn

(* What is replayed is the rest of the log. *)
LEMMA ReplayCarries ==
  ASSUME log \in Seq(Event), \A i \in 1 .. Len(log) : log[i].seq = i,
         NEW sn \in Seq(Event), Prefix(sn, log), NEW n, n = Len(sn)
  PROVE  eventsSince(n) \in Seq(Frames) /\ Carries(sn, eventsSince(n), log)
<1>1. Len(log) \in Nat /\ DOMAIN log = 1 .. Len(log) /\ n \in 0 .. Len(log)
  BY DEF Prefix
<1>2. {i \in DOMAIN log : log[i].seq > n} = {i \in DOMAIN log : i > n}
  BY <1>1
<1> DEFINE w == eventsSince(n)
<1>3. w = [k \in 1 .. Len(log) - n |-> log[k + n]]
  <2>1. Pick(log, {i \in DOMAIN log : i > n}) = [k \in 1 .. Len(log) - n |-> log[k + n]]
    <3>1. log \in Seq(Event) /\ n \in 0 .. Len(log)
      BY <1>1
    <3> QED BY ONLY <3>1, PickSuffix
  <2> QED BY <1>2, <2>1 DEF eventsSince
<1> HIDE DEF w
<1>4. ASSUME NEW k \in 1 .. Len(log) - n PROVE log[k + n] \in Event /\ n + k = k + n
  <2>1. k + n \in 1 .. Len(log)
    BY <1>1
  <2> QED BY <2>1
<1>5. Len(log) - n \in Nat /\ n + (Len(log) - n) = Len(log)
  BY <1>1
<1>6. w \in Seq(Event) /\ Len(w) = Len(log) - n
  BY <1>3, <1>4, <1>5
<1>7. w \in Seq(Frames) /\ EventsOn(w) = w
  BY <1>6, AllEvents
<1>8. \A k \in 1 .. Len(w) : w[k] = log[n + k]
  BY <1>3, <1>4, <1>6
<1> QED BY <1>5, <1>6, <1>7, <1>8 DEF Carries, w

(* An event's seq is its position; a stream is subscribed while its        *)
(* connection is open; its client has a prefix of the log and, while it is *)
(* connected, the rest on its way.                                         *)
LogInv ==
  /\ log \in Seq(Event) /\ \A i \in 1 .. Len(log) : log[i].seq = i
  /\ requests \subseteq CallerIds \cup Nat

StreamInv(s) ==
  /\ conn[s] \in [open : BOOLEAN, wire : Seq(Frames)] /\ seen[s] \in Seq(Event)
  /\ s \in bus <=> conn[s].open
  /\ Prefix(seen[s], log)
  /\ conn[s].open => Carries(seen[s], conn[s].wire, log)

ProtoInv ==
  /\ LogInv
  /\ DOMAIN conn = Streams /\ DOMAIN seen = Streams
  /\ \A s \in Streams : StreamInv(s)

(* An event that is emitted is the log's next, and every stream gets it. *)
LEMMA EmitStep ==
  ASSUME ProtoInv, NEW type \in {"added", "decided"}, NEW id \in CallerIds \cup Nat,
         emit(type, id), seen' = seen, requests' \subseteq CallerIds \cup Nat,
         \A s \in Streams : s \in bus' <=> s \in bus
  PROVE  ProtoInv'
<1> DEFINE event == [seq |-> Len(log) + 1, type |-> type, id |-> id]
<1>1. /\ log' = Append(log, event)
      /\ conn' = [s \in Streams |-> IF s \in bus
                    THEN [conn[s] EXCEPT !.wire = Append(@, event)] ELSE conn[s]]
  BY DEF emit
<1>2. log \in Seq(Event) /\ Len(log) \in Nat /\ \A i \in 1 .. Len(log) : log[i].seq = i
  BY DEF ProtoInv, LogInv
<1>3. event \in Event /\ event.seq = Len(log) + 1
  BY <1>2 DEF Event
<1> HIDE DEF event
<1>4. LogInv'
  <2>1. log' \in Seq(Event) /\ Len(log') = Len(log) + 1 /\ log'[Len(log) + 1] = event
        /\ \A i \in 1 .. Len(log) : log'[i] = log[i]
    BY <1>1, <1>2, <1>3
  <2>2. ASSUME NEW i \in 1 .. Len(log) + 1 PROVE log'[i].seq = i
    <3>1. i \in 1 .. Len(log) \/ i = Len(log) + 1
      BY <1>2
    <3> QED BY <1>2, <1>3, <2>1, <3>1
  <2>3. \A i \in 1 .. Len(log') : log'[i].seq = i
    BY <2>1, <2>2
  <2> QED BY <2>1, <2>3 DEF LogInv
<1>5. ASSUME NEW s \in Streams PROVE StreamInv(s)'
  <2> DEFINE w == conn[s].wire
             sn == seen[s]
  <2>1. /\ conn[s] \in [open : BOOLEAN, wire : Seq(Frames)] /\ sn \in Seq(Event)
        /\ s \in bus <=> conn[s].open
        /\ Prefix(sn, log) /\ (conn[s].open => Carries(sn, w, log))
    BY DEF ProtoInv, StreamInv
  <2>2. w \in Seq(Frames)
    BY <2>1
  <2> HIDE DEF w, sn
  <2>3. /\ Prefix(sn, Append(log, event))
        /\ Carries(sn, w, log) => Carries(sn, Append(w, event), Append(log, event))
    BY <1>2, <1>3, <2>1, <2>2, EmitCarries
  <2>4. CASE s \in bus
    <3>1. event \in Frames
      BY <1>3 DEF Frames
    <3>2. Append(w, event) \in Seq(Frames)
      BY <2>2, <3>1
    <3>3. /\ conn'[s] \in [open : BOOLEAN, wire : Seq(Frames)] /\ conn'[s].open
          /\ conn'[s].wire = Append(w, event)
      BY <1>1, <2>1, <2>4, <3>2 DEF w
    <3> QED BY <1>1, <2>1, <2>3, <2>4, <3>3 DEF StreamInv, sn
  <2>5. CASE s \notin bus
    <3>1. conn'[s] = conn[s] /\ ~conn[s].open
      BY <1>1, <2>1, <2>5
    <3> QED BY <1>1, <2>1, <2>3, <2>5, <3>1 DEF StreamInv, sn
  <2> QED BY <2>4, <2>5
<1>6. DOMAIN conn' = Streams /\ DOMAIN seen' = Streams
  BY <1>1 DEF ProtoInv
<1>7. (\A s \in Streams : StreamInv(s))'
  BY <1>5
<1> QED BY <1>4, <1>6, <1>7 DEF ProtoInv

(* A step of one stream leaves the log and the other streams alone. *)
LEMMA OneStream ==
  ASSUME ProtoInv, NEW s \in Streams, UNCHANGED <<log, requests>>,
         NEW c \in [open : BOOLEAN, wire : Seq(Frames)], NEW sn \in Seq(Event),
         conn' = [conn EXCEPT ![s] = c],
         DOMAIN seen' = Streams, seen'[s] = sn, \A z \in Streams \ {s} : seen'[z] = seen[z],
         s \in bus' <=> c.open, \A z \in Streams \ {s} : z \in bus' <=> z \in bus,
         Prefix(sn, log), c.open => Carries(sn, c.wire, log)
  PROVE  ProtoInv'
<1>1. LogInv /\ DOMAIN conn = Streams /\ DOMAIN seen = Streams
      /\ \A z \in Streams : StreamInv(z)
  BY DEF ProtoInv
<1>2. LogInv' /\ DOMAIN conn' = Streams /\ DOMAIN seen' = Streams /\ log' = log
  BY <1>1 DEF LogInv
<1>3. ASSUME NEW z \in Streams PROVE StreamInv(z)'
  <2>1. CASE z = s
    <3>1. conn'[z] = c /\ seen'[z] = sn
      BY <1>1, <2>1
    <3> QED BY <1>2, <2>1, <3>1 DEF StreamInv
  <2>2. CASE z # s
    <3>1. conn'[z] = conn[z] /\ seen'[z] = seen[z] /\ (z \in bus' <=> z \in bus)
      BY <1>1, <2>2
    <3> QED BY <1>1, <1>2, <3>1 DEF StreamInv
  <2> QED BY <2>1, <2>2
<1>4. (\A z \in Streams : StreamInv(z))'
  BY <1>3
<1> QED BY <1>2, <1>4 DEF ProtoInv

(* A step that touches no stream. *)
LEMMA NoStream ==
  ASSUME ProtoInv, UNCHANGED <<log, requests, conn, seen>>,
         \A s \in Streams : s \in bus' <=> s \in bus
  PROVE  ProtoInv'
<1>1. LogInv /\ DOMAIN conn = Streams /\ DOMAIN seen = Streams
      /\ \A z \in Streams : StreamInv(z)
  BY DEF ProtoInv
<1>2. LogInv' /\ DOMAIN conn' = Streams /\ DOMAIN seen' = Streams /\ log' = log
      /\ conn' = conn /\ seen' = seen
  BY <1>1 DEF LogInv
<1>3. ASSUME NEW z \in Streams PROVE StreamInv(z)'
  BY <1>1, <1>2 DEF StreamInv
<1>4. (\A z \in Streams : StreamInv(z))'
  BY <1>3
<1> QED BY <1>2, <1>4 DEF ProtoInv

LEMMA StoreSteps ==
  ASSUME ProtoInv, Enqueue \/ Decide
  PROVE  ProtoInv'
<1>1. /\ Len(log) + 1 \in Nat /\ requests \subseteq CallerIds \cup Nat
      /\ Polls \cap Streams = {}
  BY ProtoAssumption DEF ProtoInv, LogInv
<1>2. CASE Enqueue
  <2>1. PICK sent \in CallerIds \cup {NoId} : enqueue(sent)
    BY <1>2 DEF Enqueue
  <2> DEFINE id == IF sent = NoId THEN Len(log) + 1 ELSE sent
  <2>2. /\ emit("added", id) /\ requests' = requests \cup {id}
        /\ bus' = bus /\ seen' = seen
    BY <2>1 DEF enqueue
  <2>3. id \in CallerIds \cup Nat
    BY <1>1
  <2> HIDE DEF id
  <2> QED BY <1>1, <2>2, <2>3, EmitStep
<1>3. CASE Decide
  <2>1. PICK id \in CallerIds \cup requests, verdict \in Verdicts : decide(id, verdict)
    BY <1>3 DEF Decide
  <2> DEFINE released == {p \in Polls \cap bus : poll[p].id = id}
  <2>2. /\ emit("decided", id) /\ requests' = requests /\ seen' = seen
        /\ bus' = bus \ released
    BY <2>1 DEF decide
  <2>3. id \in CallerIds \cup Nat
    BY <1>1
  <2>4. \A s \in Streams : s \in bus' <=> s \in bus
    BY <1>1, <2>2
  <2> HIDE DEF released
  <2> QED BY <1>1, <2>2, <2>3, <2>4, EmitStep
<1> QED BY <1>2, <1>3

LEMMA PollSteps ==
  ASSUME ProtoInv, NEW p \in Polls, Poll(p) \/ Deadline(p)
  PROVE  ProtoInv'
<1>1. p \notin Streams
  BY ProtoAssumption
<1>2. UNCHANGED <<log, requests, conn, seen>> /\ bus' \in {bus, bus \cup {p}, bus \ {p}}
  BY DEF Poll, waitForDecision, Deadline
<1> QED BY <1>1, <1>2, NoStream

LEMMA StreamSteps ==
  ASSUME ProtoInv, NEW s \in Streams, Events(s) \/ Heartbeat(s) \/ Receive(s) \/ Close(s)
  PROVE  ProtoInv'
<1> DEFINE sn == seen[s]
           w == conn[s].wire
<1>1. /\ conn[s] \in [open : BOOLEAN, wire : Seq(Frames)] /\ sn \in Seq(Event)
      /\ w \in Seq(Frames) /\ (s \in bus <=> conn[s].open)
      /\ Prefix(sn, log) /\ (conn[s].open => Carries(sn, w, log))
      /\ DOMAIN conn = Streams /\ DOMAIN seen = Streams
      /\ log \in Seq(Event) /\ \A i \in 1 .. Len(log) : log[i].seq = i
  BY DEF ProtoInv, StreamInv, LogInv
<1> HIDE DEF sn, w
<1>2. CASE Events(s)
  <2> DEFINE n == lastEventId(s)
             c == [open |-> TRUE, wire |-> eventsSince(n)]
  <2>1. /\ conn' = [conn EXCEPT ![s] = c] /\ bus' = bus \cup {s}
        /\ UNCHANGED <<requests, log, seen>>
    BY <1>2 DEF Events
  <2>2. n = Len(sn)
    <3>1. CASE sn = <<>>
      BY <3>1 DEF lastEventId, sn
    <3>2. CASE sn # <<>>
      <4>1. Len(sn) \in 1 .. Len(sn) /\ Len(sn) \in 1 .. Len(log)
        BY <1>1, <3>2 DEF Prefix
      <4>2. sn[Len(sn)] = log[Len(sn)] /\ log[Len(sn)].seq = Len(sn)
        BY <1>1, <4>1 DEF Prefix
      <4> QED BY <3>2, <4>2 DEF lastEventId, Last, sn
    <3> QED BY <3>1, <3>2
  <2> HIDE DEF n
  <2>3. eventsSince(n) \in Seq(Frames) /\ Carries(sn, eventsSince(n), log)
    BY <1>1, <2>2, ReplayCarries
  <2>4. c \in [open : BOOLEAN, wire : Seq(Frames)] /\ c.open /\ c.wire = eventsSince(n)
    BY <2>3
  <2>5. DOMAIN seen' = Streams /\ seen'[s] = sn /\ \A z \in Streams \ {s} : seen'[z] = seen[z]
    BY <1>1, <2>1 DEF sn
  <2>6. (s \in bus' <=> c.open) /\ \A z \in Streams \ {s} : z \in bus' <=> z \in bus
    BY <2>1
  <2> HIDE DEF c
  <2> QED BY <1>1, <2>1, <2>3, <2>4, <2>5, <2>6, OneStream
<1>3. CASE Heartbeat(s)
  <2> DEFINE c == [conn[s] EXCEPT !.wire = Append(@, Ping)]
  <2>1. /\ conn' = [conn EXCEPT ![s] = c] /\ conn[s].open /\ bus' = bus
        /\ UNCHANGED <<requests, log, seen>>
    BY <1>1, <1>3 DEF Heartbeat
  <2>2. Append(w, Ping) \in Seq(Frames)
    <3>1. Ping \in Frames
      BY PingIsNoEvent
    <3>2. w \in Seq(Frames)
      BY <1>1
    <3> QED BY ONLY <3>1, <3>2
  <2>3. c \in [open : BOOLEAN, wire : Seq(Frames)] /\ c.open /\ c.wire = Append(w, Ping)
    BY <1>1, <2>1, <2>2 DEF w
  <2>4. EventsOn(Append(w, Ping)) = EventsOn(w)
    <3>1. [seq |-> 1, type |-> "added", id |-> 1] \in Event
      BY DEF Event
    <3>2. PICK e : e \in Event
      BY <3>1
    <3>3. w \in Seq(Frames)
      BY <1>1
    <3> QED BY ONLY <3>2, <3>3, OnAppend
  <2>5. Carries(sn, Append(w, Ping), log)
    BY <1>1, <2>1, <2>4 DEF Carries
  <2>6. DOMAIN seen' = Streams /\ seen'[s] = sn /\ \A z \in Streams \ {s} : seen'[z] = seen[z]
    BY <1>1, <2>1 DEF sn
  <2> HIDE DEF c
  <2> QED BY <1>1, <2>1, <2>3, <2>5, <2>6, OneStream
<1>4. CASE Receive(s)
  <2> DEFINE c == [conn[s] EXCEPT !.wire = Tail(@)]
             sm == IF Head(w) = Ping THEN sn ELSE Append(sn, Head(w))
  <2>1. /\ conn' = [conn EXCEPT ![s] = c] /\ conn[s].open /\ w # <<>> /\ bus' = bus
        /\ UNCHANGED <<requests, log>> /\ seen' = [seen EXCEPT ![s] = sm]
    BY <1>1, <1>4 DEF Receive, w, sn
  <2>2. Tail(w) \in Seq(Frames)
    BY <1>1, <2>1
  <2>3. c \in [open : BOOLEAN, wire : Seq(Frames)] /\ c.open /\ c.wire = Tail(w)
    BY <1>1, <2>1, <2>2 DEF w
  <2>4. sm \in Seq(Event) /\ Prefix(sm, log) /\ Carries(sm, Tail(w), log)
    BY <1>1, <2>1, ReceiveCarries
  <2> HIDE DEF c, sm
  <2>5. DOMAIN seen' = Streams /\ seen'[s] = sm /\ \A z \in Streams \ {s} : seen'[z] = seen[z]
    BY <1>1, <2>1
  <2> QED BY <1>1, <2>1, <2>3, <2>4, <2>5, OneStream
<1>5. CASE Close(s)
  <2>1. /\ conn' = [conn EXCEPT ![s] = Closed] /\ bus' = bus \ {s}
        /\ UNCHANGED <<requests, log, seen>>
    BY <1>5 DEF Close
  <2>2. Closed \in [open : BOOLEAN, wire : Seq(Frames)] /\ ~Closed.open
    BY DEF Closed
  <2>3. DOMAIN seen' = Streams /\ seen'[s] = sn /\ \A z \in Streams \ {s} : seen'[z] = seen[z]
    BY <1>1, <2>1 DEF sn
  <2> QED BY <1>1, <2>1, <2>2, <2>3, OneStream
<1> QED BY <1>2, <1>3, <1>4, <1>5

LEMMA ProtoInvHolds == ProtoSpec => []ProtoInv
<1>1. ProtoInit => ProtoInv
  <2> SUFFICES ASSUME ProtoInit PROVE ProtoInv
    OBVIOUS
  <2>1. /\ log = <<>> /\ bus = {} /\ requests = {}
        /\ conn = [s \in Streams |-> Closed] /\ seen = [s \in Streams |-> <<>>]
    BY DEF ProtoInit
  <2>2. LogInv
    BY <2>1 DEF LogInv
  <2>3. Closed \in [open : BOOLEAN, wire : Seq(Frames)] /\ ~Closed.open
    BY DEF Closed
  <2>4. ASSUME NEW s \in Streams PROVE StreamInv(s)
    BY <2>1, <2>3 DEF StreamInv, Prefix
  <2> QED BY <2>1, <2>2, <2>4 DEF ProtoInv
<1>2. ASSUME ProtoInv, UNCHANGED protoVars PROVE ProtoInv'
  BY <1>2, NoStream DEF protoVars
<1>3. ProtoInv /\ [ProtoNext]_protoVars => ProtoInv'
  BY <1>2, StoreSteps, PollSteps, StreamSteps DEF ProtoNext
<1> QED BY <1>1, <1>3, PTL DEF ProtoSpec

(* "Day-long sessions survive reconnects" (broker-proto.mjs:16): through   *)
(* any number of lost connections and heartbeats, whatever died, a client  *)
(* has the log's events from the first on, and an open connection brings   *)
(* exactly the rest.                                                       *)
THEOREM StreamReplays == ProtoSpec => []StreamIsLogPrefix
<1>1. ProtoInv => StreamIsLogPrefix
  <2> SUFFICES ASSUME ProtoInv, NEW s \in Streams
               PROVE  /\ IsPrefix(seen[s], log)
                      /\ conn[s].open => seen[s] \o EventsOn(conn[s].wire) = log
    BY DEF StreamIsLogPrefix
  <2> DEFINE sn == seen[s]
             w == conn[s].wire
             q == EventsOn(w)
  <2>1. /\ sn \in Seq(Event) /\ w \in Seq(Frames) /\ log \in Seq(Event)
        /\ Prefix(sn, log) /\ (conn[s].open => Carries(sn, w, log))
    BY DEF ProtoInv, StreamInv, LogInv
  <2> HIDE DEF sn, w
  <2>2. q \in Seq(Event)
    BY <2>1, OnWire
  <2>3. IsPrefix(sn, log)
    <3>1. Len(sn) \in Nat /\ Len(log) \in Nat /\ Len(sn) <= Len(log)
          /\ \A i \in 1 .. Len(sn) : sn[i] = log[i]
      BY <2>1 DEF Prefix
    <3>2. SubSeq(sn, 1, Len(sn)) = [i \in 1 .. Len(sn) |-> sn[i]]
      BY <2>1
    <3>3. SubSeq(log, 1, Len(sn)) = [i \in 1 .. Len(sn) |-> log[i]]
      BY <2>1, <3>1
    <3> QED BY <3>1, <3>2, <3>3 DEF IsPrefix
  <2>4. ASSUME conn[s].open PROVE sn \o q = log
    <3>1. /\ Len(sn) + Len(q) = Len(log) /\ \A k \in 1 .. Len(q) : q[k] = log[Len(sn) + k]
          /\ \A i \in 1 .. Len(sn) : sn[i] = log[i]
      BY <2>1, <2>4 DEF Carries, Prefix
    <3> HIDE DEF q
    <3>2. /\ sn \o q \in Seq(Event) /\ Len(sn \o q) = Len(sn) + Len(q)
          /\ Len(sn) \in Nat /\ Len(q) \in Nat
          /\ \A i \in 1 .. Len(sn) + Len(q) :
               (sn \o q)[i] = IF i <= Len(sn) THEN sn[i] ELSE q[i - Len(sn)]
      BY <2>1, <2>2
    <3>3. ASSUME NEW i \in 1 .. Len(sn) + Len(q) PROVE (sn \o q)[i] = log[i]
      <4>1. CASE i <= Len(sn)
        <5>1. i \in 1 .. Len(sn)
          BY <3>2, <4>1
        <5> QED BY <3>1, <3>2, <4>1, <5>1
      <4>2. CASE ~(i <= Len(sn))
        <5>1. i - Len(sn) \in 1 .. Len(q) /\ Len(sn) + (i - Len(sn)) = i
          BY <3>2, <4>2
        <5>2. q[i - Len(sn)] = log[Len(sn) + (i - Len(sn))]
          BY <3>1, <5>1
        <5> QED BY <3>2, <4>2, <5>1, <5>2
      <4> QED BY <4>1, <4>2
    <3> DEFINE z == sn \o q
    <3>4. z \in Seq(Event) /\ Len(z) = Len(log) /\ \A i \in 1 .. Len(log) : z[i] = log[i]
      BY <3>1, <3>2, <3>3
    <3> HIDE DEF z
    <3>5. z = log
      <4>1. z = [i \in 1 .. Len(log) |-> z[i]] /\ log = [i \in 1 .. Len(log) |-> log[i]]
        BY <2>1, <3>4
      <4> QED BY <3>4, <4>1
    <3> QED BY <3>5 DEF z
  <2> QED BY <2>3, <2>4 DEF sn, w
<1> QED BY <1>1, ProtoInvHolds, PTL
=============================================================================
