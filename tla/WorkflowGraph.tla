---------------------------- MODULE WorkflowGraph ----------------------------
(***************************************************************************)
(* The workflow resolver of .github/workflow-graph.mjs: resolveRun walks a  *)
(* workflow's jobs depth first along their needs, decides which of them     *)
(* run, descends into the reusable workflows they call and collects the     *)
(* rows that occupy runners; matrixRows expands a job's matrix.             *)
(*                                                                          *)
(* A workflow is a sequence of jobs, a job its needs, its if and the        *)
(* workflow it calls (0: none); an expression is the status functions it    *)
(* mentions.  The recursion is an explicit stack: one frame per workflow    *)
(* being resolved, each with the path of jobs being visited.                *)
(***************************************************************************)
EXTENDS Naturals, Sequences, FiniteSets, SequencesExt, Selection

CONSTANTS
    Workflows     \* the sets of workflow files to resolve, each a sequence of job lists

(* A set has at least one file, and a job calls a file that is there.       *)
ASSUME WorkflowsAssumption ==
    \A w \in Workflows :
       /\ Len(w) \in Nat \ {0} /\ DOMAIN w = 1..Len(w)
       /\ \A f \in DOMAIN w :
             /\ Len(w[f]) \in Nat /\ DOMAIN w[f] = 1..Len(w[f])
             /\ \A i \in DOMAIN w[f] : /\ w[f][i].needs \in Seq(Range(w[f][i].needs))
                                       /\ w[f][i].uses \in 0..Len(w)

VARIABLES workflows, stack, jobRows, phase

graphVars == <<workflows, stack, jobRows, phase>>

Frame(file) == [file |-> file, needs |-> [i \in {} |-> "success"], path |-> <<>>]

GraphInit ==
    /\ workflows \in Workflows
    /\ stack = <<Frame(1)>> /\ jobRows = <<>> /\ phase = "resolving"

Top == stack[Len(stack)]
Job(i) == workflows[Top.file][i]
Known == 1..Len(workflows[Top.file])

-----------------------------------------------------------------------------
(* evaluate, over the conditions a workflow uses: a status function answers *)
(* for the job's needs, any other expression has its own value.             *)
evaluate(cond, status) ==
    CASE cond = "always()" -> TRUE
      [] cond = "success()" -> status = "success"
      [] cond = "failure()" -> status = "failure"
      [] cond = "!cancelled()" -> status # "cancelled"
      [] cond = "true" -> TRUE
      [] cond = "false" -> FALSE

(* An if that mentions always, failure or cancelled may outlive a skip.     *)
StatusAware == {"always()", "failure()", "!cancelled()"}

(* Mutant: any if overrides a skipped need.                                 *)
enabledByIf(job, needs) ==
    LET ok == \A d \in Range(job.needs) : needs[d] = "success"
    IN  IF job.cond = "none" THEN ok ELSE evaluate(job.cond, IF ok THEN "success" ELSE "skipped")

enabled(job, needs) ==
    LET results == {needs[d] : d \in Range(job.needs)}
        ok == results \subseteq {"success"}
        status == IF ok THEN "success"
                  ELSE IF "failure" \in results THEN "failure"
                  ELSE IF "cancelled" \in results THEN "cancelled" ELSE "skipped"
    IN  /\ job.cond = "none" => ok
        /\ job.cond # "none" => evaluate(job.cond, status)
        /\ ok \/ job.cond \in StatusAware

(* The needs of a job that still have to be visited, in order.              *)
unresolved(i) ==
    Pick(Job(i).needs, {k \in DOMAIN Job(i).needs : Job(i).needs[k] \notin DOMAIN Top.needs})

SetTop(frame) == stack' = [stack EXCEPT ![Len(stack)] = frame]

(* for (const id of Object.keys(workflow.jobs)) visit(id).                  *)
VisitNext ==
    /\ Top.path = <<>>
    /\ \E i \in Known \ DOMAIN Top.needs :
          /\ 1..(i - 1) \subseteq DOMAIN Top.needs
          /\ SetTop([Top EXCEPT !.path = <<i>>])
    /\ UNCHANGED <<workflows, jobRows, phase>>

(* Mutant: a job being visited is not remembered.                           *)
VisitNeedBlind ==
    /\ Top.path # <<>>
    /\ LET open == unresolved(Last(Top.path))
       IN  /\ open # <<>>
           /\ IF Head(open) \notin Known
              THEN phase' = "missing" /\ UNCHANGED stack
              ELSE SetTop([Top EXCEPT !.path = <<Head(open)>>]) /\ UNCHANGED phase
    /\ UNCHANGED <<workflows, jobRows>>

(* Mutant: a need two jobs share is taken for a cycle.                      *)
VisitNeedTwice ==
    /\ Top.path # <<>>
    /\ LET open == Job(Last(Top.path)).needs
       IN  /\ open # <<>>
           /\ IF Head(open) \in Range(Top.path) \cup DOMAIN Top.needs
              THEN phase' = "cycle" /\ UNCHANGED stack
              ELSE IF Head(open) \notin Known
              THEN phase' = "missing" /\ UNCHANGED stack
              ELSE SetTop([Top EXCEPT !.path = Append(@, Head(open))]) /\ UNCHANGED phase
    /\ UNCHANGED <<workflows, jobRows>>

(* for (const dependency of dependencies) visit(dependency): one under visit *)
(* is a cycle, one that is no job is missing.                                *)
VisitNeed ==
    /\ Top.path # <<>>
    /\ LET open == unresolved(Last(Top.path))
       IN  /\ open # <<>>
           /\ IF Head(open) \in Range(Top.path)
              THEN phase' = "cycle" /\ UNCHANGED stack
              ELSE IF Head(open) \notin Known
              THEN phase' = "missing" /\ UNCHANGED stack
              ELSE SetTop([Top EXCEPT !.path = Append(@, Head(open))]) /\ UNCHANGED phase
    /\ UNCHANGED <<workflows, jobRows>>

(* The row of a job that occupies a runner.                                 *)
addRow(i) == Append(jobRows, <<Top.file, i>>)

(* Every need is known: record the result, then descend into the workflow   *)
(* the job calls, unless it is already on the stack, or add its row.        *)
DecideJob ==
    /\ Top.path # <<>>
    /\ LET i == Last(Top.path)
           on == enabled(Job(i), Top.needs)
           after == [Top EXCEPT !.path = Front(@),
                       !.needs = [d \in DOMAIN @ \cup {i} |->
                          IF d = i THEN IF on THEN "success" ELSE "skipped" ELSE @[d]]]
           popped == Append(Front(stack), after)
           called == Job(i).uses
       IN  /\ unresolved(i) = <<>>
           /\ jobRows' = IF on /\ called = 0 THEN addRow(i) ELSE jobRows
           /\ IF ~on \/ called = 0 THEN stack' = popped /\ UNCHANGED phase
              ELSE IF \E n \in 1..Len(stack) : stack[n].file = called
              THEN phase' = "recursive" /\ UNCHANGED stack
              ELSE stack' = Append(popped, Frame(called)) /\ UNCHANGED phase
    /\ UNCHANGED workflows

Return ==
    /\ Top.path = <<>> /\ DOMAIN Top.needs = Known
    /\ IF Len(stack) = 1 THEN phase' = "done" /\ UNCHANGED stack
       ELSE stack' = Front(stack) /\ UNCHANGED phase
    /\ UNCHANGED <<workflows, jobRows>>

GraphNext == phase = "resolving" /\ (VisitNext \/ VisitNeed \/ DecideJob \/ Return)

GraphSpec == GraphInit /\ [][GraphNext]_graphVars

-----------------------------------------------------------------------------
(* Needs that lead back to where they started: a closed walk.               *)
Cyclic(jobs) ==
    \E n \in 1..Len(jobs) : \E walk \in [0..n -> 1..Len(jobs)] :
       walk[0] = walk[n] /\ \A k \in 1..n : walk[k] \in Range(jobs[walk[k - 1]].needs)

Dangling(jobs) == \E i \in 1..Len(jobs) : ~(Range(jobs[i].needs) \subseteq 1..Len(jobs))

(* Calls of workflows that lead back to where they started.                 *)
Calls(files, f, g) == \E j \in 1..Len(files[f]) : files[f][j].uses = g

Recursive(files) ==
    \E n \in 1..Len(files) : \E walk \in [0..n -> 1..Len(files)] :
       walk[0] = walk[n] /\ \A k \in 1..n : Calls(files, walk[k - 1], walk[k])

(* A workflow is refused for exactly the reason it has: no cycle is walked  *)
(* for ever, and no acyclic graph, however its jobs are declared and        *)
(* whatever two jobs call, is called a cycle, a missing job or a recursive  *)
(* call.                                                                    *)
RefusedForCause ==
    /\ phase = "cycle" => Cyclic(workflows[Top.file])
    /\ phase = "missing" => Dangling(workflows[Top.file])
    /\ phase = "recursive" => Recursive(workflows)
    /\ phase = "done" => ~Cyclic(workflows[1]) /\ ~Dangling(workflows[1])

(* A job is decided on results that stand: when the walk ends, what was     *)
(* recorded for every job is what the final results of its needs say, and a *)
(* job none of whose needs may be skipped never runs behind a skipped one.  *)
(* The rows are the jobs that occupy a runner: each that runs has one, and  *)
(* no row comes before the row of a job it needs.                           *)
OutcomeFollowsNeeds ==
    phase = "done" =>
        /\ \A i \in Known :
              /\ Top.needs[i] = IF enabled(Job(i), Top.needs) THEN "success" ELSE "skipped"
              /\ Top.needs[i] = "success" /\ Job(i).cond \notin StatusAware =>
                   \A d \in Range(Job(i).needs) : Top.needs[d] = "success"
              /\ Cardinality({n \in 1..Len(jobRows) : jobRows[n] = <<1, i>>})
                 = IF Top.needs[i] = "success" /\ Job(i).uses = 0 THEN 1 ELSE 0
        /\ \A m, n \in 1..Len(jobRows) :
              m < n /\ jobRows[m][1] = 1 /\ jobRows[n][1] = 1 =>
                jobRows[n][2] \notin Range(Job(jobRows[m][2]).needs)

(* The jobs each frame has still to decide, and how much longer its path of *)
(* different jobs can become.                                               *)
StackRank(s) == [n \in DOMAIN s |->
    LET jobs == Len(workflows[s[n].file])
    IN  <<jobs - Cardinality(DOMAIN s[n].needs), jobs - Len(s[n].path)>>]

Below(x, y) == x[1] < y[1] \/ (x[1] = y[1] /\ x[2] < y[2])

(* Resolution ends, whatever the graph: each step that does not end it      *)
(* brings the ranks of the frames, compared from the outermost one on,      *)
(* down; no rank falls below zero, and no workflow is stacked twice.        *)
ResolutionEnds ==
    [][phase' = "resolving" =>
         LET old == StackRank(stack)
             new == StackRank(stack')
         IN  /\ \A n \in DOMAIN new : \A c \in 1..2 : new[n][c] >= 0
             /\ Len(stack') <= Len(workflows)
             /\ \E n \in DOMAIN old :
                   /\ SubSeq(new, 1, n - 1) = SubSeq(old, 1, n - 1)
                   /\ n \in DOMAIN new => Below(new[n], old[n])]_graphVars
=============================================================================
