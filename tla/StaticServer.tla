---------------------------- MODULE StaticServer ----------------------------
(***************************************************************************)
(* The static servers of the PWA: the published one                        *)
(* (packages/allowlister-remote-web/bin/serve.mjs) and its development     *)
(* copy (scripts/serve-web.mjs), with a shared cache between them and      *)
(* their clients.  A path is a stem and an extension; "/" is the empty     *)
(* stem.  Only well-formed paths inside the directory are requested.       *)
(***************************************************************************)
EXTENDS Naturals, FiniteSets

CONSTANTS
    Clients,      \* who requests
    Requested,    \* the paths they ask for
    MaxSignals    \* bound: SIGTERM and SIGINT sent

VARIABLES
    kind,         \* which server runs: "published" or "dev"
    files,        \* the files under the directory
    proc,         \* "starting", "serving", "closing" or "exited"
    sending,      \* what each client is being sent
    proxy,        \* what the shared cache holds
    signals,
    alarm         \* the development server's hard-exit timer is set

staticVars == <<kind, files, proc, sending, proxy, signals, alarm>>

Index == [stem |-> "", ext |-> "/index.html"]
File(stem, ext) == [stem |-> stem, ext |-> ext]

(* resolveTarget: the file itself; without an extension its .html or its    *)
(* index; the application's page for anything else.                         *)
resolveTarget(dir, path) ==
    LET asHtml == [path EXCEPT !.ext = ".html"]
        asIndex == [path EXCEPT !.ext = "/index.html"]
        page == IF path.ext # "" THEN {} ELSE {asHtml, asIndex} \cap dir
    IN  CASE path \in dir -> {path}
          [] path \notin dir /\ page # {} -> IF asHtml \in page THEN {asHtml} ELSE {asIndex}
          [] OTHER -> {Index} \cap dir

(* mimeFor.                                                                 *)
mimeFor(file) ==
    CASE file.ext \in {".html", "/index.html"} -> "text/html"
      [] file.ext = ".js" -> "text/javascript"
      [] file.ext = ".png" -> "image/png"
      [] OTHER -> "application/octet-stream"

Compressible == {"text/html", "text/javascript"}

(* Mutant: no Vary.                                                         *)
sendBare(file, gzip) ==
    [file |-> file, vary |-> FALSE, gzip |-> gzip /\ mimeFor(file) \in Compressible]

(* sendFile: text is compressed for a client that accepts it, and says so.  *)
sendFile(file, gzip) ==
    LET compress == gzip /\ mimeFor(file) \in Compressible
    IN  [file |-> file, vary |-> compress, gzip |-> compress]

NoConn == [phase |-> "idle", asked |-> FALSE, body |-> sendFile(Index, FALSE)]

StaticInit ==
    /\ kind \in {"published", "dev"}
    /\ files \in {{Index, File("app", ".js"), File("offline", ".html"), File("icon", ".png")},
                  {File("app", ".js")}}
    /\ proc = "starting" /\ proxy = {} /\ signals = 0 /\ alarm = FALSE
    /\ sending = [c \in Clients |-> NoConn]

(* main: a probe (--help, --version) and a published package without its    *)
(* static directory end before listening, and so does a taken port.         *)
Start ==
    /\ proc = "starting"
    /\ proc' \in {"serving", "exited"}
    /\ UNCHANGED <<kind, files, sending, proxy, signals, alarm>>

(* A request the shared cache cannot answer reaches the server.  A 404, for *)
(* want of even the page, and a 405 change nothing.                         *)
Reusable(entry, path, gzip) ==
    entry.path = path /\ (entry.body.vary => entry.gzip = gzip)

Serve(c, path, gzip) ==
    /\ proc = "serving" /\ sending[c].phase = "idle"
    /\ ~\E entry \in proxy : Reusable(entry, path, gzip)
    /\ \E file \in resolveTarget(files, path) :
          LET body == sendFile(file, gzip)
          IN  /\ sending' = [sending EXCEPT ![c] =
                                [phase |-> "active", asked |-> gzip, body |-> body]]
              /\ proxy' = proxy \cup {[path |-> path, gzip |-> gzip, body |-> body]}
    /\ UNCHANGED <<kind, files, proc, signals, alarm>>

(* The shared cache answers from what it holds.                             *)
Hit(c, path, gzip) ==
    /\ sending[c].phase = "idle"
    /\ \E entry \in proxy :
          /\ Reusable(entry, path, gzip)
          /\ sending' = [sending EXCEPT ![c] =
                            [phase |-> "cached", asked |-> gzip, body |-> entry.body]]
    /\ UNCHANGED <<kind, files, proc, proxy, signals, alarm>>

Finish(c) ==
    /\ sending[c].phase \in {"active", "cached"}
    /\ sending' = [sending EXCEPT ![c] = NoConn]
    /\ UNCHANGED <<kind, files, proc, proxy, signals, alarm>>

(* shutdown: no new connections; the development server also drops the open *)
(* ones and sets a timer.  close() on a closed listener calls back at once, *)
(* so a second signal ends the process.                                     *)
Shutdown ==
    /\ proc \in {"serving", "closing"} /\ signals < MaxSignals
    /\ signals' = signals + 1
    /\ proc' = IF proc = "closing" THEN "exited" ELSE "closing"
    /\ sending' = IF kind = "published" THEN sending
               ELSE [c \in Clients |-> IF sending[c].phase = "active" THEN NoConn ELSE sending[c]]
    /\ alarm' = (kind = "dev")
    /\ UNCHANGED <<kind, files, proxy>>

(* The last connection closes, or the timer fires.                          *)
Exit ==
    /\ proc = "closing"
    /\ alarm \/ \A c \in Clients : sending[c].phase # "active"
    /\ proc' = "exited"
    /\ UNCHANGED <<kind, files, sending, proxy, signals, alarm>>

StaticNext ==
    \/ Start \/ Shutdown \/ Exit
    \/ \E c \in Clients : Finish(c)
    \/ \E c \in Clients, path \in Requested :
          \E gzip \in BOOLEAN : Serve(c, path, gzip) \/ Hit(c, path, gzip)

StaticSpec == StaticInit /\ [][StaticNext]_staticVars

-----------------------------------------------------------------------------
(* "`Vary` keeps any shared cache from serving a gzipped body to a client   *)
(* that did not ask for one": whatever the cache has stored for others.     *)
NoUnaskedGzip ==
    \A c \in Clients : sending[c].phase # "idle" /\ sending[c].body.gzip => sending[c].asked
=============================================================================
