----------------------------- MODULE NpmInstall -----------------------------
(***************************************************************************)
(* From a release to the command on PATH: the scripts that stamp and stage *)
(* the npm packages (set-npm-package-version.mjs, stage-npm-package.mjs),  *)
(* the post-install step that links the native binaries (install.mjs) and  *)
(* the JS launcher it replaces.                                            *)
(*                                                                         *)
(* Every file operation is a step that may fail.  A copy that fails once   *)
(* the destination is open removes it (libuv), otherwise it leaves it.     *)
(* npm is external: it installs the platform package that matches the host *)
(* or, its dependency being optional, none.                                *)
(***************************************************************************)
EXTENDS Naturals, Sequences, FiniteSets

CONSTANTS
    Targets,      \* the platforms a release publishes
    Hosts,        \* the platforms someone installs on
    MaxDepth      \* bound: directories between the package and the root

ASSUME NpmAssumption == MaxDepth \in Nat

Binaries == {"plugin", "daemon"}
Levels == {"node_modules", "workspaces", "plain", "garbled"}
Windows(host) == host = "win32-x64"

VARIABLES
    at,           \* what runs next
    artifacts,    \* the binaries the release built, per target
    stamped,      \* the packages at the new version; "parent" pins the others
    staged,       \* the binaries in each platform package
    published,
    host,         \* where the package is installed: platform and directories
    carrier,      \* the binaries in the platform package npm installed
    command,      \* the file the command on PATH is: launcher, native or none
    sibling,      \* the daemon next to it: native or none
    failed        \* history: a file operation of the last install failed

release == <<artifacts, stamped, staged, published>>
npmVars == <<at, release, host, carrier, command, sibling, failed>>

Chains == UNION {[1..n -> Levels] : n \in 1..MaxDepth}

NpmInit ==
    /\ at = "stamp"
    /\ artifacts \in {[t \in Targets |-> Binaries]}
                     \cup {[t \in Targets |-> IF t = m THEN {b} ELSE Binaries] :
                             m \in Targets, b \in Binaries}
    /\ stamped = {} /\ staged = [t \in Targets |-> {}] /\ published = FALSE
    /\ host = [platform |-> "linux-x64", dirs |-> <<"plain">>]
    /\ carrier = {} /\ command = "none" /\ sibling = "none" /\ failed = FALSE

(* set-npm-package-version.mjs: the parent first, then each platform.       *)
Stamp ==
    /\ at = "stamp"
    /\ \E p \in IF "parent" \in stamped THEN Targets \ stamped ELSE {"parent"} :
          stamped' = stamped \cup {p}
    /\ at' = IF stamped' = Targets \cup {"parent"} THEN "stage" ELSE "stamp"
    /\ UNCHANGED <<artifacts, staged, published, host, carrier, command, sibling, failed>>

(* Mutant: an artifact that is not found is passed over.                    *)
StageLoose ==
    /\ at = "stage"
    /\ staged' = artifacts
    /\ at' = "publish"
    /\ UNCHANGED <<artifacts, stamped, published, host, carrier, command, sibling, failed>>

(* stage-npm-package.mjs: empty each platform's bin and copy both binaries; *)
(* a missing artifact throws and the release stops with some of them staged. *)
Stage ==
    /\ at = "stage"
    /\ \/ /\ \A t \in Targets : artifacts[t] = Binaries
          /\ staged' = artifacts /\ at' = "publish"
       \/ /\ \E t \in Targets : artifacts[t] # Binaries
          /\ staged' \in [Targets -> SUBSET Binaries] /\ at' = "aborted"
    /\ UNCHANGED <<artifacts, stamped, published, host, carrier, command, sibling, failed>>

Publish ==
    /\ at = "publish"
    /\ published' = TRUE /\ at' = "npm"
    /\ UNCHANGED <<artifacts, stamped, staged, host, carrier, command, sibling, failed>>

(* npm unpacks the parent with its launcher, and perhaps the carrier.       *)
Unpack ==
    /\ at = "npm"
    /\ \E p \in Hosts, dirs \in Chains : host' = [platform |-> p, dirs |-> dirs]
    /\ carrier' \in {{}} \cup IF host'.platform \in Targets
                              THEN {staged[host'.platform]} ELSE {}
    /\ command' = "launcher" /\ at' = "install"
    /\ UNCHANGED <<release, sibling, failed>>

-----------------------------------------------------------------------------
(* inWorkspaceCheckout: walk up; node_modules ends it before its manifest   *)
(* is read, a manifest that cannot be read is passed by.                    *)
inWorkspaceCheckout(dirs) ==
    LET walk[i \in 1..(Len(dirs) + 1)] ==
            /\ i <= Len(dirs) /\ dirs[i] # "node_modules"
            /\ dirs[i] = "workspaces" \/ walk[i + 1]
    IN  walk[1]

(* require.resolve(binarySpecifier()), require.resolve(daemonSpecifier()):  *)
(* platformPackage knows the host and the carrier holds the binary.         *)
resolves(binary) == host.platform \in Targets /\ binary \in carrier

Step(to) == at' = to /\ UNCHANGED <<release, host, carrier>>

(* install.mjs up to its first write.                                       *)
Install ==
    /\ at = "install"
    /\ Step(IF inWorkspaceCheckout(host.dirs) THEN "kept"
            ELSE IF ~resolves("plugin") THEN "fallback"
            ELSE IF Windows(host.platform) THEN "kept" ELSE "copyPlugin")
    /\ UNCHANGED <<command, sibling, failed>>

(* copyFileSync and chmodSync of the plugin over the launcher; the catch    *)
(* reports the launcher as kept, whichever of them failed.                  *)
CopyPlugin ==
    /\ at = "copyPlugin"
    /\ \/ Step("resolveDaemon") /\ command' = "native" /\ UNCHANGED failed
       \/ Step("fallback") /\ command' \in {command, "none", "native"} /\ failed' = TRUE
    /\ UNCHANGED sibling

ResolveDaemon ==
    /\ at = "resolveDaemon"
    /\ Step(IF resolves("daemon") THEN "copyDaemon" ELSE "fallback")
    /\ UNCHANGED <<command, sibling, failed>>

CopyDaemon ==
    /\ at = "copyDaemon"
    /\ \/ Step("linked") /\ sibling' = "native" /\ UNCHANGED failed
       \/ Step("fallback") /\ sibling' \in {sibling, "none", "native"} /\ failed' = TRUE
    /\ UNCHANGED command

(* npm rebuild runs the step again over what it left.                       *)
Rebuild ==
    /\ at \in {"kept", "fallback", "linked"}
    /\ Step("install")
    /\ failed' = FALSE
    /\ UNCHANGED <<command, sibling>>

NpmNext == \/ Stamp \/ Stage \/ Publish \/ Unpack
           \/ Install \/ CopyPlugin \/ ResolveDaemon \/ CopyDaemon \/ Rebuild

NpmSpec == NpmInit /\ [][NpmNext]_npmVars

-----------------------------------------------------------------------------
Installed == at \in {"kept", "fallback", "linked"}

(* The plugin runs and finds a daemon beside it: in bin/ when it was linked *)
(* there, in the platform package when the launcher starts it from there.   *)
Serves == \/ command = "native" /\ sibling = "native"
          \/ command = "launcher" /\ Binaries \subseteq carrier

(* The nearest of its kind above the package says where it stands.          *)
Checkout == \E i \in 1..Len(host.dirs) :
    host.dirs[i] = "workspaces" /\ \A j \in 1..(i - 1) : host.dirs[j] # "node_modules"
UserInstall == \E i \in 1..Len(host.dirs) :
    host.dirs[i] = "node_modules" /\ \A j \in 1..(i - 1) : host.dirs[j] # "workspaces"

(* On a host with its platform package the command serves once install.mjs  *)
(* has run without a file error, whatever earlier runs left half copied or  *)
(* removed and wherever the release stopped that published it; and wherever *)
(* npm put it under a node_modules, a user's own workspace included, no     *)
(* Node is in the way on macOS and Linux.  The committed launcher of a      *)
(* source checkout is never overwritten.                                    *)
InstallServes ==
    Installed =>
        /\ ~failed /\ carrier # {} =>
              Serves /\ (~Windows(host.platform) /\ UserInstall => command = "native")
        /\ Checkout => command = "launcher"
=============================================================================
