----------------------------- MODULE MCDelivery -----------------------------
(***************************************************************************)
(* What surrounds the running system, part by part: the transport          *)
(* prototype, the static server, the npm packages, the macOS policy of CI  *)
(* and the workflow resolver.  As in MCBrowser, one behaviour moves one    *)
(* part, the one part names.  MacPolicy has three instances besides, over  *)
(* the same variables, with other bounds.                                  *)
(***************************************************************************)
EXTENDS Prototype, StaticServer, NpmInstall, MacPolicy, WorkflowGraph, Matrix

VARIABLE part          \* the part that moves

-----------------------------------------------------------------------------
Path(stem, ext) == [stem |-> stem, ext |-> ext]

(* A script, a route with a page of its own, and an image. *)
SomePaths == {Path("app", ".js"), Path("offline", ""), Path("icon", ".png")}

M(path, edit) == [path |-> path, status |-> "M", edit |-> edit]

(* A release, and an ordinary change. *)
FewDiffs == { {M("manifest", "versions"), M("changelog", "versions")},
              {M("source", "content")} }

(* Also a release with a dependency, a workspace or a deletion in it, or   *)
(* with more than a section in the changelog; one that does not parse or   *)
(* leaves no changelog; an empty one.                                      *)
SmallDiffs ==
  FewDiffs \cup
  { {M("manifest", "versions"), M("lock", "content")},
    {M("package", "workspaces"), M("changelog", "versions")},
    {M("manifest", "versions"), [path |-> "npm", status |-> "D", edit |-> "versions"]},
    {M("manifest", "versions"), M("changelog", "content")},
    {M("workspace", "invalid")}, {M("changelog", "invalid")},
    {} }

(* Beside the life of a pull request, runs that are run again, every kind  *)
(* of diff, and runs of both groups.                                       *)
Again == INSTANCE MacPolicy WITH
  MaxPush <- 1, MaxFlips <- 1, MaxReruns <- 1, Groups <- {"pr"}, Diffs <- FewDiffs
Kinds == INSTANCE MacPolicy WITH
  MaxPush <- 0, MaxFlips <- 1, MaxReruns <- 0, Groups <- {"pr"}, Diffs <- SmallDiffs
Gates == INSTANCE MacPolicy WITH
  MaxPush <- 0, MaxFlips <- 0, MaxReruns <- 0, Groups <- {"pr", "main"},
  Diffs <- { {M("manifest", "versions")} }

JobOf(needs, cond, uses) == [needs |-> needs, cond |-> cond, uses |-> uses]

Orders(S) == {s \in UNION {[1..n -> S] : n \in 0..2} :
                \A m, n \in DOMAIN s : s[m] = s[n] => m = n}

(* Every graph over three jobs and every way to declare up to two needs;   *)
(* two jobs with a need that is no job, every condition, and calls.        *)
AllWorkflows ==
  {<<g>> : g \in [1..3 -> {JobOf(n, c, 0) : n \in Orders(1..3), c \in {"none", "false"}}]}
  \cup
  {<<f, g>> :
     f \in [1..2 -> {JobOf(n, c, u) :
              n \in {<<>>, <<1>>, <<2>>, <<9>>, <<2, 1>>},
              c \in {"none", "always()", "success()", "failure()", "!cancelled()", "true", "false"},
              u \in {0, 2}}],
     g \in {<<JobOf(<<>>, "none", u)>> : u \in 0..2}}

Partial(K, V) == UNION {[S -> V] : S \in (SUBSET K) \ {{}}}

(* Two axes, an exclusion, and two includes over the axes and another      *)
(* name; no axes, with one include or none; and nothing at all.            *)
SmallMatrices ==
  [axes : [{"os", "arch"} -> {{1, 2}, {1}}],
   exclude : {{}} \cup {{e} : e \in Partial({"os", "arch"}, 1..2)},
   include : {<<>>} \cup {<<i>> : i \in Partial({"os", "arch", "x"}, 1..3)}
             \cup {<<i, j>> : i, j \in Partial({"os", "x"}, 1..3)},
   given : {TRUE}]
  \cup [axes : {[k \in {} |-> {1}]}, exclude : {{}},
        include : {<<>>} \cup {<<i>> : i \in Partial({"os", "x"}, 1..2)}, given : {TRUE}]
  \cup [axes : {[k \in {} |-> {1}]}, exclude : {{}}, include : {<<>>}, given : {FALSE}]

-----------------------------------------------------------------------------
DeliveryInit ==
  /\ part \in {"prototype", "static", "npm", "mac", "again", "kinds", "gates", "graph", "matrix"}
  /\ ProtoInit
  /\ StaticInit /\ (part # "static" => kind = "dev" /\ Cardinality(files) = 1)
  /\ NpmInit /\ (part # "npm" => \A t \in DOMAIN artifacts : Cardinality(artifacts[t]) = 2)
  /\ CASE part = "again" -> Again!MacInit [] part = "kinds" -> Kinds!MacInit
       [] part = "gates" -> Gates!MacInit [] OTHER -> MacInit
  /\ IF part = "graph" THEN GraphInit
     ELSE workflows = <<>> /\ stack = <<>> /\ jobRows = <<>> /\ phase = "idle"
  /\ IF part = "matrix" THEN MatrixInit
     ELSE matrix = [axes |-> <<>>, exclude |-> {}, include |-> <<>>, given |-> FALSE]
          /\ rows = {} /\ additional = <<>> /\ next = 0

BesideProto  == <<part, staticVars, npmVars, macVars, graphVars, matrixVars>>
BesideStatic == <<part, protoVars, npmVars, macVars, graphVars, matrixVars>>
BesideNpm    == <<part, protoVars, staticVars, macVars, graphVars, matrixVars>>
BesideMac    == <<part, protoVars, staticVars, npmVars, graphVars, matrixVars>>
BesideGraph  == <<part, protoVars, staticVars, npmVars, macVars, matrixVars>>
BesideMatrix == <<part, protoVars, staticVars, npmVars, macVars, graphVars>>

DeliveryNext ==
  \/ part = "prototype" /\ ProtoNext /\ UNCHANGED BesideProto
  \/ part = "static" /\ StaticNext /\ UNCHANGED BesideStatic
  \/ part = "npm" /\ NpmNext /\ UNCHANGED BesideNpm
  \/ part = "mac" /\ MacNext /\ UNCHANGED BesideMac
  \/ part = "again" /\ Again!MacNext /\ UNCHANGED BesideMac
  \/ part = "kinds" /\ Kinds!MacNext /\ UNCHANGED BesideMac
  \/ part = "gates" /\ Gates!MacNext /\ UNCHANGED BesideMac
  \/ part = "graph" /\ GraphNext /\ UNCHANGED BesideGraph
  \/ part = "matrix" /\ MatrixNext /\ UNCHANGED BesideMatrix

(* The fairness of Prototype and of MacPolicy.  A poll can be asked in the   *)
(* state the other parts leave the prototype in, which must not owe it; all *)
(* the other actions are enabled only in the parts that move them.          *)
DeliveryFairness ==
  /\ \A p \in Polls : /\ WF_protoVars(part = "prototype" /\ Poll(p))
                      /\ WF_protoVars(Deadline(p))
  /\ MacFairness

DeliverySpec ==
  /\ DeliveryInit
  /\ [][DeliveryNext]_<<protoVars, BesideProto>>
  /\ DeliveryFairness
=============================================================================
