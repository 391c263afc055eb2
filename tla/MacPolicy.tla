------------------------------ MODULE MacPolicy ------------------------------
(***************************************************************************)
(* The repository's scheduling of macOS checks: a pull request's life, the *)
(* check workflow each event starts (check.yml), the classifier that says  *)
(* whether the run buys a Mac leg (macos-policy.mjs), and the gate that    *)
(* reports the one required context (check-results.mjs).                   *)
(*                                                                         *)
(* GitHub is external: an event carries a snapshot of the pull request,    *)
(* any run that was started can be run again with its snapshot, a new run  *)
(* of the same group cancels the one in progress, a queued run makes its   *)
(* head's required context pending at once (an assumption: the gate job    *)
(* itself waits for others), and a merge needs that context green.  A file *)
(* of the diff is its class of path, its status and what was edited in it. *)
(***************************************************************************)
EXTENDS Naturals, FiniteSets

CONSTANTS
    MaxPush,      \* bound: pushes after the pull request is opened
    MaxFlips,     \* bound: draft conversions, closings and reopenings
    MaxReruns,    \* bound: manual re-runs
    Groups,       \* the concurrency groups: "pr", and "main" for the other events
    Diffs         \* the diffs a push may leave, each a set of Changes

Paths == {"manifest", "package", "lock", "workspace", "npm", "changelog", "source"}
Statuses == {"M", "A", "D"}
(* "versions": the repository's own versions (or a new changelog section);  *)
(* "workspaces": the workspace list; "content": anything else, dependency   *)
(* versions included; "invalid": it does not parse, a version is no version *)
(* or the changelog has no title or no release left.                        *)
Edits == {"versions", "workspaces", "content", "invalid"}
Changes == [path : Paths, status : Statuses, edit : Edits]

ASSUME MacAssumption == /\ MaxPush \in Nat
                        /\ "pr" \in Groups /\ Groups \subseteq {"pr", "main"}
                        /\ Diffs \subseteq SUBSET Changes

VARIABLES
    pr,           \* the pull request
    run,          \* the latest run of the check workflow for each group
    started,      \* the runs events have started for the pull request
    context,      \* the required "check" context of each head
    macPassed,    \* heads whose Mac leg passed
    redrafted,    \* history: heads whose last report is of a draft's run, run again
    pushes, flips, reruns

macVars == <<pr, run, started, context, macPassed, redrafted, pushes, flips, reruns>>
counts == <<pushes, flips, reruns>>

-----------------------------------------------------------------------------
(* Mutant: what changed in a manifest or lock is not looked at.             *)
jsonAny(file) == "yes"

(* jsonVersionsOnly: both sides parse, and without the repository's own     *)
(* versions they are equal.  Whether a bad one throws or answers no, a run  *)
(* that is not a draft requires macOS.                                      *)
jsonVersionsOnly(file) ==
    IF file.edit = "invalid" /\ file.path # "manifest" THEN "throws"
    ELSE IF file.edit = "versions" THEN "yes" ELSE "no"

fileVersionOnly(file) ==
    IF file.status # "M" THEN "no"
    ELSE IF file.path = "changelog" THEN IF file.edit # "invalid" THEN "yes" ELSE "no"
    ELSE IF file.path = "source" THEN "no"
    ELSE jsonVersionsOnly(file)

(* versionDiffOnly: an empty diff is none, and so is one that changes the   *)
(* workspaces, before any file is looked at.                                *)
versionDiffOnly(diff) ==
    LET verdicts == {fileVersionOnly(file) : file \in diff}
    IN  IF diff = {} \/ \E f \in diff : f.path = "package" /\ f.edit = "workspaces" THEN "no"
        ELSE IF \E f \in diff : f.path = "package" /\ f.edit = "invalid" THEN "throws"
        ELSE IF "no" \in verdicts THEN "no"
        ELSE IF "throws" \in verdicts THEN "throws" ELSE "yes"

nonPrEvents == {"push", "release", "workflow_run", "repository_dispatch", "schedule",
                "workflow_dispatch", "workflow_call"}

(* classify: whether a run requires macOS.  A payload that cannot be read   *)
(* or a base or head that does not resolve fails closed, and a literal-true *)
(* draft defers.                                                            *)
classify(event, payload) ==
    LET authorized == payload.sameRepo /\ payload.releaseBranch
        verdict == IF ~authorized THEN "no"
                   ELSE IF ~payload.refs THEN "throws" ELSE versionDiffOnly(payload.diff)
    IN  /\ event \notin nonPrEvents
        /\ \/ event # "pull_request" \/ ~payload.readable
           \/ /\ payload.draft # "true"
              /\ payload.draft = "other" \/ verdict # "yes"

(* The pick step of check.yml.                                              *)
pick(event, required, diagnostic) ==
    IF event = "pull_request"
    THEN IF required THEN {"ubuntu", "macos"} ELSE {"ubuntu"}
    ELSE IF event = "workflow_dispatch" /\ diagnostic
         THEN {"ubuntu", "macos", "windows"} ELSE {"ubuntu", "windows"}

(* Mutant: the gate does not know the diagnostic lane.                      *)
expectedPlain(event, required, diagnostic) ==
    IF event = "pull_request" THEN pick(event, required, diagnostic)
    ELSE {"ubuntu", "windows"}

(* check-results.mjs: every prerequisite succeeded, and the systems that    *)
(* ran are those the classification authorises.                             *)
expected(event, required, diagnostic) ==
    CASE event = "pull_request" /\ required -> {"ubuntu", "macos"}
      [] event = "pull_request" /\ ~required -> {"ubuntu"}
      [] event = "workflow_dispatch" /\ diagnostic -> {"ubuntu", "macos", "windows"}
      [] OTHER -> {"ubuntu", "windows"}

checkResults(r) ==
    /\ r.setup /\ r.failed = {}
    /\ r.event # "pull_request" => ~r.required
    /\ r.os = expected(r.event, r.required, r.payload.diagnostic)

-----------------------------------------------------------------------------
NoPayload == [readable |-> TRUE, draft |-> "false", sameRepo |-> TRUE, refs |-> TRUE,
              releaseBranch |-> FALSE, diff |-> {}, diagnostic |-> FALSE]
Idle == [phase |-> "idle", event |-> "push", payload |-> NoPayload, head |-> 0,
         again |-> FALSE, required |-> FALSE, os |-> {}, setup |-> FALSE, failed |-> {}]
NoPr == [state |-> "none", draft |-> FALSE, head |-> 0, diff |-> {},
         sameRepo |-> TRUE, releaseBranch |-> FALSE]

MacInit ==
    /\ pr = NoPr
    /\ run = [g \in Groups |-> Idle] /\ started = {}
    /\ context = [h \in 0..(MaxPush + 1) |-> "pending"]
    /\ macPassed = {} /\ redrafted = {} /\ pushes = 0 /\ flips = 0 /\ reruns = 0

(* Mutant: an event the workflow forgets.                                   *)
checkTypesNoReopen == {"opened", "synchronize", "ready_for_review"}

(* check.yml's pull_request types; triggered() of workflow-graph.mjs.       *)
checkTypes == {"opened", "synchronize", "reopened", "ready_for_review"}

triggered(action) == action \in checkTypes

(* A run starts, or starts again: it makes its head pending and cancels the *)
(* run in progress, whose always() gate then fails.  Each attempt may fail  *)
(* to read the event or to resolve the commits.                             *)
StartRun(r) ==
    /\ \E refs, readable \in BOOLEAN :
          run' = [run EXCEPT !["pr"] = [r EXCEPT !.payload.refs = refs, !.payload.readable = readable]]
    /\ context' = [h \in DOMAIN context |->
            IF h = r.head THEN "pending"
            ELSE IF run["pr"].phase # "idle" /\ h = run["pr"].head THEN "failure"
            ELSE context[h]]

(* The run of an event carries a snapshot of the pull request.              *)
Snapshot(p) ==
    [Idle EXCEPT !.phase = "setup", !.event = "pull_request", !.head = p.head,
       !.payload = [readable |-> TRUE, refs |-> TRUE, diff |-> p.diff,
                    draft |-> IF p.draft THEN "true" ELSE "false",
                    sameRepo |-> p.sameRepo, releaseBranch |-> p.releaseBranch,
                    diagnostic |-> FALSE]]

Trigger(action, p) ==
    IF triggered(action)
    THEN StartRun(Snapshot(p)) /\ started' = started \cup {Snapshot(p)}
    ELSE UNCHANGED <<run, started, context>>

Open ==
    /\ pr.state = "none"
    /\ \E draft, sameRepo, release \in BOOLEAN, diff \in Diffs :
          pr' = [state |-> "open", draft |-> draft, head |-> 1, diff |-> diff,
                 sameRepo |-> sameRepo, releaseBranch |-> release]
    /\ Trigger("opened", pr')
    /\ UNCHANGED <<macPassed, redrafted, counts>>

(* A push to the branch; to GitHub it is an event only while the pull       *)
(* request is open.                                                         *)
Push ==
    /\ pr.state \in {"open", "closed"} /\ pushes < MaxPush
    /\ pushes' = pushes + 1
    /\ \E diff \in Diffs : pr' = [pr EXCEPT !.head = @ + 1, !.diff = diff]
    /\ IF pr.state = "open" THEN Trigger("synchronize", pr') ELSE UNCHANGED <<run, started, context>>
    /\ UNCHANGED <<macPassed, redrafted, flips, reruns>>

(* ready_for_review, converted_to_draft, closed, reopened.                  *)
Flip(action, guard, next) ==
    /\ guard /\ flips < MaxFlips
    /\ flips' = flips + 1
    /\ pr' = next
    /\ Trigger(action, next)
    /\ UNCHANGED <<macPassed, redrafted, pushes, reruns>>

ReadyForReview == Flip("ready_for_review", pr.state = "open" /\ pr.draft,
                       [pr EXCEPT !.draft = FALSE])
ConvertToDraft == Flip("converted_to_draft", pr.state = "open" /\ ~pr.draft,
                       [pr EXCEPT !.draft = TRUE])
ClosePr == Flip("closed", pr.state = "open", [pr EXCEPT !.state = "closed"])
Reopen == Flip("reopened", pr.state = "closed", [pr EXCEPT !.state = "open"])

(* Any run that is not in progress is run again, with the payload of its    *)
(* event: of an earlier head, or from when the pull request was a draft.    *)
Rerun ==
    /\ reruns < MaxReruns
    /\ reruns' = reruns + 1
    /\ \E r \in started :
          /\ run["pr"].phase # "idle" =>
                 r.head # run["pr"].head \/ r.payload.draft # run["pr"].payload.draft
          /\ StartRun([r EXCEPT !.again = TRUE])
    /\ UNCHANGED <<pr, started, macPassed, redrafted, pushes, flips>>

(* A push to main, or the workflow dispatched by hand.                      *)
MainRun ==
    /\ "main" \in Groups /\ run["main"].phase = "idle"
    /\ \E event \in {"push", "workflow_dispatch"}, diagnostic \in BOOLEAN :
          /\ event = "push" => ~diagnostic
          /\ run' = [run EXCEPT !["main"] = [Idle EXCEPT !.phase = "setup", !.event = event,
                                               !.payload.diagnostic = diagnostic]]
    /\ UNCHANGED <<pr, started, context, macPassed, redrafted, counts>>

(* The setup job: classify and pick, or it fails and nothing else runs.     *)
Setup(g) ==
    /\ run[g].phase = "setup"
    /\ LET required == classify(run[g].event, run[g].payload)
           os == pick(run[g].event, required, run[g].payload.diagnostic)
       IN  \/ run' = [run EXCEPT ![g].phase = "legs", ![g].setup = TRUE,
                                 ![g].required = required, ![g].os = os]
           \/ run' = [run EXCEPT ![g].phase = "gate"]
    /\ UNCHANGED <<pr, started, context, macPassed, redrafted, counts>>

(* The matrix: any leg may fail.                                            *)
Legs(g) ==
    /\ run[g].phase = "legs"
    /\ \E failed \in SUBSET run[g].os :
          /\ run' = [run EXCEPT ![g].phase = "gate", ![g].failed = failed]
          /\ macPassed' = IF g = "pr" /\ "macos" \in run[g].os \ failed
                          THEN macPassed \cup {run[g].head} ELSE macPassed
    /\ UNCHANGED <<pr, started, context, redrafted, counts>>

(* The always() gate reports the required context of the run's head.        *)
Gate(g) ==
    /\ run[g].phase = "gate"
    /\ context' = [context EXCEPT ![run[g].head] =
                      IF checkResults(run[g]) THEN "success" ELSE "failure"]
    /\ redrafted' = IF g = "main" THEN redrafted
                    ELSE IF run[g].again /\ run[g].payload.draft = "true"
                    THEN redrafted \cup {run[g].head} ELSE redrafted \ {run[g].head}
    /\ run' = [run EXCEPT ![g].phase = "idle"]
    /\ UNCHANGED <<pr, started, macPassed, counts>>

Merge ==
    /\ pr.state = "open" /\ ~pr.draft /\ context[pr.head] = "success"
    /\ pr' = [pr EXCEPT !.state = "merged"]
    /\ UNCHANGED <<run, started, context, macPassed, redrafted, counts>>

MacNext ==
    \/ Open \/ Push \/ ReadyForReview \/ ConvertToDraft \/ ClosePr \/ Reopen
    \/ Rerun \/ MainRun \/ Merge
    \/ \E g \in Groups : Setup(g) \/ Legs(g) \/ Gate(g)

(* GitHub runs what it has queued; people do as they like.                  *)
MacFairness == \A g \in Groups : WF_macVars(Setup(g)) /\ WF_macVars(Legs(g)) /\ WF_macVars(Gate(g))

MacSpec == MacInit /\ [][MacNext]_macVars /\ MacFairness

-----------------------------------------------------------------------------
(* What the code takes for a release: a same-repository release-please      *)
(* branch whose diff modifies manifests, in nothing but the repository's    *)
(* own versions, and the changelog, in any way that leaves one.             *)
TrustedRelease ==
    /\ pr.sameRepo /\ pr.releaseBranch /\ pr.diff # {}
    /\ pr.diff \subseteq
           [path : Paths \ {"source"}, status : {"M"}, edit : {"versions"}]
             \cup [path : {"changelog"}, status : {"M"}, edit : Edits \ {"invalid"}]

(* No pull request is merged without a Mac run of exactly the head that is  *)
(* merged, unless it is a release: not one opened as a draft, drafted and   *)
(* pushed, closed and pushed, classified from an unreadable event, or with  *)
(* a run of an earlier head run again.  The one way past is a run of this   *)
(* head from when it was a draft, run again: it defers the Mac leg to a     *)
(* ready_for_review that is over (macos-policy.mjs:141-146).                *)
MacCoversMerge ==
    [][pr.state # "merged" /\ pr'.state = "merged" =>
           TrustedRelease \/ pr.head \in macPassed \cup redrafted]_macVars

(* The gate refuses no honest run: what it reports is exactly whether setup *)
(* and every leg succeeded, on every event the workflow handles.            *)
GateIsFair ==
    \A g \in DOMAIN run : run[g].phase = "gate" =>
        (checkResults(run[g]) <=> (run[g].setup /\ run[g].failed = {}))

(* An open pull request never waits for a required context that no run is   *)
(* going to report, whatever was pushed while it was closed or a draft.     *)
ContextReported ==
    (pr.state = "open") ~> (pr.state # "open" \/ context[pr.head] # "pending")
=============================================================================
