--------------------------- MODULE WorkflowProofs ---------------------------
(***************************************************************************)
(* What the workflow resolver and its matrix promise, for workflows with    *)
(* any number of files, jobs and needs and matrices of any size: a graph is *)
(* refused for the reason it has and for no other, the results that stand   *)
(* at the end are what the needs say, resolution ends, and includes cost no *)
(* combination.                                                            *)
(***************************************************************************)
EXTENDS WorkflowGraph, Matrix, SelectionProofs, TLAPS

-----------------------------------------------------------------------------
(* One workflow.  Its jobs, and what a job needs.                           *)
Jobs(jobs) == 1..Len(jobs)
Needs(jobs, i) == Range(jobs[i].needs)

IsWorkflow(jobs) ==
  /\ Len(jobs) \in Nat /\ DOMAIN jobs = Jobs(jobs)
  /\ \A i \in Jobs(jobs) : jobs[i].needs \in Seq(Needs(jobs, i))

Results == {"success", "skipped"}

(* What has been decided stands, and is what the needs say. *)
ResultsStand(jobs, needs) ==
  /\ DOMAIN needs \subseteq Jobs(jobs)
  /\ \A i \in DOMAIN needs :
       /\ Needs(jobs, i) \subseteq DOMAIN needs
       /\ needs[i] = IF enabled(jobs[i], needs) THEN "success" ELSE "skipped"

(* Every set of decided jobs has one that no other of the set needs. *)
NoCycleIn(jobs, D) ==
  \A C \in SUBSET D : C # {} => \E j \in C : \A i \in C : j \notin Needs(jobs, i)

(* The jobs being visited are different, undecided, each needed by the one before. *)
PathOfNeeds(jobs, needs, path) ==
  /\ path \in Seq(Jobs(jobs) \ DOMAIN needs)
  /\ \A m, n \in 1..Len(path) : path[m] = path[n] => m = n
  /\ \A n \in 1..(Len(path) - 1) : path[n + 1] \in Needs(jobs, path[n])

FrameInv(jobs, fr) ==
  /\ ResultsStand(jobs, fr.needs)
  /\ NoCycleIn(jobs, DOMAIN fr.needs)
  /\ PathOfNeeds(jobs, fr.needs, fr.path)

-----------------------------------------------------------------------------
(* The resolver. *)
Frames == [file : Nat, needs : UNION {[D -> Results] : D \in SUBSET Nat}, path : Seq(Nat)]

(* The workflows being resolved are different ones, the outermost the first, *)
(* and each is called by the one before.                                     *)
StackOf(w, st) ==
  /\ st \in Seq(Frames) /\ Len(st) >= 1 /\ st[1].file = 1
  /\ \A n \in 1..Len(st) : st[n].file \in 1..Len(w) /\ FrameInv(w[st[n].file], st[n])
  /\ \A m, n \in 1..Len(st) : st[m].file = st[n].file => m = n
  /\ \A n \in 1..(Len(st) - 1) : Calls(w, st[n].file, st[n + 1].file)

(* The rows of the outermost workflow, given what has been decided in it. *)
RowsOf(jobs, needs, list) ==
  /\ list \in Seq(Nat \X Nat)
  /\ \A n \in 1..Len(list) : list[n][1] = 1 =>
       /\ list[n][2] \in DOMAIN needs
       /\ needs[list[n][2]] = "success" /\ jobs[list[n][2]].uses = 0
  /\ \A i \in DOMAIN needs : needs[i] = "success" /\ jobs[i].uses = 0 =>
       \E n \in 1..Len(list) : list[n] = <<1, i>>
  /\ \A m, n \in 1..Len(list) : list[m][1] = 1 /\ list[m] = list[n] => m = n
  /\ \A m, n \in 1..Len(list) : m < n /\ list[m][1] = 1 /\ list[n][1] = 1 =>
       list[n][2] \notin Needs(jobs, list[m][2])

PhaseInv ==
  /\ phase \in {"resolving", "cycle", "missing", "recursive", "done"}
  /\ phase = "cycle" => Cyclic(workflows[Top.file])
  /\ phase = "missing" => Dangling(workflows[Top.file])
  /\ phase = "recursive" => Recursive(workflows)
  /\ phase = "done" => Len(stack) = 1 /\ DOMAIN Top.needs = Known

(* The inductive invariant. *)
GraphInv ==
  /\ workflows \in Workflows
  /\ StackOf(workflows, stack)
  /\ RowsOf(workflows[1], stack[1].needs, jobRows)
  /\ PhaseInv

-----------------------------------------------------------------------------
(* A job has nothing left to visit exactly when its needs are decided. *)
LEMMA Unresolved ==
  ASSUME NEW s, s \in Seq(Range(s)), NEW D, NEW K, K = {k \in DOMAIN s : s[k] \notin D},
         NEW open, open = Pick(s, K)
  PROVE  /\ open \in Seq(Range(s))
         /\ open = <<>> => Range(s) \subseteq D
         /\ open # <<>> => Head(open) \in Range(s) \ D
<1>1. K \in SUBSET DOMAIN s
  OBVIOUS
<1>2. /\ Pick(s, K) \in Seq(Range(s)) /\ Len(Pick(s, K)) = Cardinality(K)
      /\ \A k \in 1..Cardinality(K) : \E i \in K : Pick(s, K)[k] = s[i]
      /\ \A i \in K : \E k \in 1..Cardinality(K) : Pick(s, K)[k] = s[i]
  BY <1>1, PickType
<1>3. open = Pick(s, K)
  OBVIOUS
<1>4. ASSUME open = <<>>, NEW d \in Range(s) PROVE d \in D
  <2>1. PICK i \in DOMAIN s : s[i] = d
    BY DEF Range
  <2>2. Cardinality(K) = 0
    BY <1>2, <1>3, <1>4
  <2>3. i \notin K
    BY <1>2, <2>2
  <2> QED BY <2>1, <2>3
<1>5. ASSUME open # <<>> PROVE Head(open) \in Range(s) \ D
  <2>1. Len(open) \in Nat /\ Len(open) # 0 /\ Head(open) = open[1]
    BY <1>2, <1>3, <1>5
  <2>2. 1 \in 1..Cardinality(K)
    BY <1>2, <1>3, <2>1
  <2>3. PICK i \in K : open[1] = s[i]
    BY <1>2, <1>3, <2>2
  <2> QED BY <2>1, <2>3 DEF Range
<1> QED BY <1>2, <1>3, <1>4, <1>5

(* Whether a job is enabled is a matter of the results of its needs. *)
LEMMA EnabledFrom ==
  ASSUME NEW job, NEW a, NEW b, \A d \in Range(job.needs) : a[d] = b[d]
  PROVE  enabled(job, a) = enabled(job, b)
<1>1. {a[d] : d \in Range(job.needs)} = {b[d] : d \in Range(job.needs)}
  OBVIOUS
<1> QED BY <1>1 DEF enabled

(* A job is visited first, or for the sake of the last one on the path. *)
LEMMA FirstVisit ==
  ASSUME NEW jobs, NEW needs, NEW i \in Jobs(jobs), i \notin DOMAIN needs
  PROVE  PathOfNeeds(jobs, needs, <<i>>)
BY DEF PathOfNeeds

LEMMA NextVisit ==
  ASSUME NEW jobs, NEW needs, NEW path, PathOfNeeds(jobs, needs, path), path # <<>>,
         NEW d \in Jobs(jobs), d \notin DOMAIN needs, d \notin Range(path),
         d \in Needs(jobs, Last(path))
  PROVE  PathOfNeeds(jobs, needs, Append(path, d)) /\ Len(Append(path, d)) = Len(path) + 1
<1> DEFINE S == Jobs(jobs) \ DOMAIN needs
           q == Append(path, d)
           n == Len(path)
<1>1. path \in Seq(S) /\ d \in S
  BY DEF PathOfNeeds
<1> HIDE DEF S
<1>2. n \in Nat /\ n # 0 /\ Last(path) = path[n] /\ DOMAIN path = 1..n
  BY <1>1 DEF Last
<1>3. q \in Seq(S) /\ Len(q) = n + 1
  BY <1>1
<1>4. \A k \in 1..n : q[k] = path[k]
  BY <1>1
<1>5. q[n + 1] = d
  BY <1>1
<1>6. \A k \in 1..n : path[k] # d
  BY <1>2 DEF Range
<1> HIDE DEF q, n
<1>7. \A a, b \in 1..n + 1 : q[a] = q[b] => a = b
  <2> SUFFICES ASSUME NEW a \in 1..n + 1, NEW b \in 1..n + 1, q[a] = q[b] PROVE a = b
    OBVIOUS
  <2>1. \A x, y \in 1..n : path[x] = path[y] => x = y
    BY DEF PathOfNeeds, n
  <2>2. a \in 1..n \/ a = n + 1
    BY <1>2
  <2>3. b \in 1..n \/ b = n + 1
    BY <1>2
  <2> QED BY <1>4, <1>5, <1>6, <2>1, <2>2, <2>3
<1>8. \A k \in 1..n : q[k + 1] \in Needs(jobs, q[k])
  <2> SUFFICES ASSUME NEW k \in 1..n PROVE q[k + 1] \in Needs(jobs, q[k])
    OBVIOUS
  <2>1. CASE k = n
    BY <1>2, <1>4, <1>5, <2>1
  <2>2. CASE k # n
    <3>1. k \in 1..(n - 1) /\ k + 1 \in 1..n
      BY <1>2, <2>2
    <3>2. path[k + 1] \in Needs(jobs, path[k])
      BY <3>1 DEF PathOfNeeds, n
    <3> QED BY <1>4, <3>1, <3>2
  <2> QED BY <2>1, <2>2
<1>9. Len(q) - 1 = n
  BY <1>2, <1>3
<1> QED BY <1>3, <1>7, <1>8, <1>9 DEF PathOfNeeds, S, q, n

(* A job whose needs are decided is decided: the last one of the path. *)
Decision(jobs, fr, i) ==
  [fr EXCEPT !.path = Front(@),
             !.needs = [d \in DOMAIN @ \cup {i} |->
                IF d = i THEN IF enabled(jobs[i], fr.needs) THEN "success" ELSE "skipped"
                ELSE @[d]]]

LEMMA FrontOf ==
  ASSUME NEW S, NEW s \in Seq(S), s # <<>>
  PROVE  /\ Front(s) \in Seq(S) /\ Len(s) \in Nat \ {0} /\ Len(Front(s)) = Len(s) - 1
         /\ \A k \in 1..(Len(s) - 1) : Front(s)[k] = s[k]
         /\ Last(s) = s[Len(s)] /\ Last(s) \in S
<1>1. Len(s) \in Nat /\ Len(s) # 0
  OBVIOUS
<1>2. Front(s) = SubSeq(s, 1, Len(s) - 1)
  BY DEF Front
<1>3. /\ Front(s) \in Seq(S) /\ Len(Front(s)) = Len(s) - 1
      /\ \A k \in 1..(Len(s) - 1) : Front(s)[k] = s[k]
  <2>1. SubSeq(s, 1, Len(s) - 1) = [k \in 1..(Len(s) - 1) |-> s[k]]
    BY <1>1
  <2>2. Front(s) = [k \in 1..(Len(s) - 1) |-> s[k]]
    BY <1>2, <2>1
  <2>3. Len(s) - 1 \in Nat /\ \A k \in 1..(Len(s) - 1) : s[k] \in S
    BY <1>1
  <2> QED BY <2>2, <2>3
<1>4. Last(s) = s[Len(s)] /\ Last(s) \in S
  BY <1>1 DEF Last
<1> QED BY <1>1, <1>3, <1>4

(* The last job of a path is undecided, and is not among the others. *)
LEMMA PathFront ==
  ASSUME NEW jobs, NEW needs, NEW path, PathOfNeeds(jobs, needs, path), path # <<>>
  PROVE  /\ Last(path) \in Jobs(jobs) \ DOMAIN needs
         /\ \A more : DOMAIN more = DOMAIN needs \cup {Last(path)} =>
              PathOfNeeds(jobs, more, Front(path))
<1> DEFINE S == Jobs(jobs) \ DOMAIN needs
           n == Len(path)
           f == Front(path)
<1>1. path \in Seq(S)
  BY DEF PathOfNeeds
<1> HIDE DEF S
<1>2. /\ f \in Seq(S) /\ n \in Nat \ {0} /\ Len(f) = n - 1
      /\ \A k \in 1..(n - 1) : f[k] = path[k]
      /\ Last(path) = path[n] /\ Last(path) \in S
  BY <1>1, FrontOf
<1> HIDE DEF n, f
<1>3. ASSUME NEW more, DOMAIN more = DOMAIN needs \cup {Last(path)}
      PROVE  PathOfNeeds(jobs, more, f)
  <2>1. \A x, y \in 1..n : path[x] = path[y] => x = y
    BY DEF PathOfNeeds, n
  <2>2. \A k \in 1..(n - 1) : f[k] # Last(path)
    <3> SUFFICES ASSUME NEW k \in 1..(n - 1), path[k] = path[n] PROVE FALSE
      BY <1>2
    <3>1. k \in 1..n /\ n \in 1..n /\ k # n
      BY <1>2
    <3> QED BY <2>1, <3>1
  <2>3. \A k \in 1..(n - 1) : f[k] \in Jobs(jobs) \ DOMAIN more
    <3>1. \A k \in 1..Len(f) : f[k] \in S
      BY <1>2
    <3> QED BY <1>2, <1>3, <2>2, <3>1 DEF S
  <2>4. f \in Seq(Jobs(jobs) \ DOMAIN more)
    <3>1. Len(f) \in Nat /\ f = [k \in 1..Len(f) |-> f[k]]
      BY <1>2
    <3> QED BY <1>2, <2>3, <3>1
  <2>5. \A x, y \in 1..Len(f) : f[x] = f[y] => x = y
    BY <1>2, <2>1
  <2>6. \A k \in 1..(Len(f) - 1) : f[k + 1] \in Needs(jobs, f[k])
    <3> SUFFICES ASSUME NEW k \in 1..(n - 2) PROVE f[k + 1] \in Needs(jobs, f[k])
      BY <1>2
    <3>1. k \in 1..(n - 1) /\ k + 1 \in 1..(n - 1)
      BY <1>2
    <3>2. path[k + 1] \in Needs(jobs, path[k])
      BY <3>1 DEF PathOfNeeds, n
    <3> QED BY <1>2, <3>1, <3>2
  <2> QED BY <2>4, <2>5, <2>6 DEF PathOfNeeds
<1> QED BY <1>2, <1>3 DEF S, f

LEMMA DecideLast ==
  ASSUME NEW jobs, NEW fr \in Frames, FrameInv(jobs, fr), fr.path # <<>>,
         NEW i, i = Last(fr.path), Needs(jobs, i) \subseteq DOMAIN fr.needs
  PROVE  LET after == Decision(jobs, fr, i)
         IN  /\ FrameInv(jobs, after) /\ after.file = fr.file
             /\ i \in Jobs(jobs) \ DOMAIN fr.needs
             /\ DOMAIN after.needs = DOMAIN fr.needs \cup {i}
             /\ after.needs[i] = IF enabled(jobs[i], fr.needs) THEN "success" ELSE "skipped"
             /\ \A d \in DOMAIN fr.needs : after.needs[d] = fr.needs[d]
             /\ after.path = Front(fr.path)
<1> DEFINE D == DOMAIN fr.needs
           on == IF enabled(jobs[i], fr.needs) THEN "success" ELSE "skipped"
           more == [d \in D \cup {i} |-> IF d = i THEN on ELSE fr.needs[d]]
           after == Decision(jobs, fr, i)
<1>1. after.needs = more /\ after.path = Front(fr.path) /\ after.file = fr.file
  BY DEF Decision, Frames
<1>2. i \in Jobs(jobs) \ D /\ PathOfNeeds(jobs, more, Front(fr.path))
  <2>1. DOMAIN more = D \cup {i}
    OBVIOUS
  <2> HIDE DEF more
  <2> QED BY <2>1, PathFront DEF FrameInv
<1>3. more[i] = on /\ DOMAIN more = D \cup {i} /\ \A d \in D : more[d] = fr.needs[d]
  BY <1>2
<1>4. ResultsStand(jobs, fr.needs) /\ NoCycleIn(jobs, D)
  BY DEF FrameInv
<1> HIDE DEF after, more, on
<1>5. ResultsStand(jobs, more)
  <2>1. ASSUME NEW d \in D \cup {i}
        PROVE  /\ Needs(jobs, d) \subseteq D
               /\ more[d] = IF enabled(jobs[d], more) THEN "success" ELSE "skipped"
    <3>1. Needs(jobs, d) \subseteq D
      BY <1>4 DEF ResultsStand
    <3>2. enabled(jobs[d], more) = enabled(jobs[d], fr.needs)
      <4>1. \A x \in Range(jobs[d].needs) : more[x] = fr.needs[x]
        BY <1>3, <3>1 DEF Needs
      <4> QED BY <4>1, EnabledFrom
    <3>3. CASE d = i
      BY <1>3, <3>1, <3>2, <3>3 DEF on
    <3>4. CASE d # i
      BY <1>3, <1>4, <3>1, <3>2, <3>4 DEF ResultsStand
    <3> QED BY <3>3, <3>4
  <2>2. DOMAIN more \subseteq Jobs(jobs)
    BY <1>2, <1>3, <1>4 DEF ResultsStand
  <2> QED BY <1>3, <2>1, <2>2 DEF ResultsStand
<1>6. NoCycleIn(jobs, D \cup {i})
  <2> SUFFICES ASSUME NEW C \in SUBSET (D \cup {i}), C # {}
               PROVE  \E j \in C : \A k \in C : j \notin Needs(jobs, k)
    BY DEF NoCycleIn
  <2>1. CASE i \in C
    <3>1. \A k \in C : Needs(jobs, k) \subseteq D
      BY <1>4 DEF ResultsStand
    <3> QED BY <1>2, <2>1, <3>1
  <2>2. CASE i \notin C
    <3>1. C \in SUBSET D
      BY <2>2
    <3> QED BY <1>4, <3>1 DEF NoCycleIn
  <2> QED BY <2>1, <2>2
<1>7. FrameInv(jobs, after)
  BY <1>1, <1>2, <1>3, <1>5, <1>6 DEF FrameInv
<1> QED BY <1>1, <1>2, <1>3, <1>7 DEF after, on

LEMMA UpTo ==
  ASSUME NEW k \in Nat
  PROVE  IsFiniteSet(1..k) /\ Cardinality(1..k) = k
<1>1. Cardinality(1..k) = IF 1 > k THEN 0 ELSE k - 1 + 1
  BY FS_Interval
<1> QED BY <1>1, FS_Interval

(* Different numbers up to n are at most n. *)
LEMMA Pigeonhole ==
  ASSUME NEW m \in Nat, NEW n \in Nat, NEW f \in [1..m -> 1..n],
         \A i, j \in 1..m : f[i] = f[j] => i = j
  PROVE  m <= n
<1>1. \A k \in Nat : IsFiniteSet(1..k) /\ Cardinality(1..k) = k
  BY UpTo
<1>2. f \in Injection(1..m, 1..n)
  BY DEF Injection, IsInjective
<1>3. Cardinality(1..m) <= Cardinality(1..n)
  BY <1>1, <1>2, FS_Injection
<1> QED BY <1>1, <1>3

(* A path has no more jobs than there are, ... *)
LEMMA PathShort ==
  ASSUME NEW jobs, IsWorkflow(jobs), NEW needs, NEW path, PathOfNeeds(jobs, needs, path)
  PROVE  Len(path) \in Nat /\ Len(path) <= Len(jobs) /\ Range(path) \subseteq Jobs(jobs)
<1> DEFINE S == Jobs(jobs) \ DOMAIN needs
<1>1. path \in Seq(S) /\ \A m, n \in 1..Len(path) : path[m] = path[n] => m = n
  BY DEF PathOfNeeds
<1>2. Len(jobs) \in Nat
  BY DEF IsWorkflow
<1>3. S \subseteq 1..Len(jobs)
  BY DEF Jobs
<1> HIDE DEF S
<1>4. Len(path) \in Nat /\ path \in [1..Len(path) -> 1..Len(jobs)]
  <2>1. Len(path) \in Nat /\ path \in [1..Len(path) -> S]
    BY <1>1
  <2> QED BY <1>3, <2>1
<1>5. Len(path) <= Len(jobs)
  BY <1>1, <1>2, <1>4, Pigeonhole
<1>6. Range(path) \subseteq 1..Len(jobs)
  BY <1>4 DEF Range
<1> QED BY <1>4, <1>5, <1>6 DEF Jobs

(* ... and one that comes back to itself is a cycle. *)
LEMMA CycleFound ==
  ASSUME NEW jobs, IsWorkflow(jobs), NEW needs, NEW path, PathOfNeeds(jobs, needs, path),
         path # <<>>, NEW d \in Range(path), d \in Needs(jobs, Last(path))
  PROVE  Cyclic(jobs)
<1> DEFINE S == Jobs(jobs) \ DOMAIN needs
           p == Len(path)
<1>1. path \in Seq(S)
  BY DEF PathOfNeeds
<1> HIDE DEF S
<1>2. p \in Nat \ {0} /\ Last(path) = path[p] /\ DOMAIN path = 1..p
  BY <1>1 DEF Last
<1>3. p <= Len(jobs) /\ Len(jobs) \in Nat /\ Range(path) \subseteq 1..Len(jobs)
  BY PathShort DEF IsWorkflow, Jobs
<1>4. PICK m \in 1..p : path[m] = d
  BY <1>2 DEF Range
<1>5. \A k \in 1..p : path[k] \in 1..Len(jobs)
  BY <1>2, <1>3 DEF Range
<1>6. \A k \in 1..(p - 1) : path[k + 1] \in Needs(jobs, path[k])
  BY DEF PathOfNeeds
<1> HIDE DEF p
<1> DEFINE n == p - m + 1
           walk == [k \in 0..n |-> IF k < n THEN path[m + k] ELSE d]
<1>7. n \in 1..Len(jobs)
  BY <1>2, <1>3
<1>8. ASSUME NEW k \in 0..n PROVE walk[k] \in 1..Len(jobs)
  <2>1. CASE k < n
    <3>1. m + k \in 1..p
      BY <1>2, <2>1
    <3> QED BY <1>5, <2>1, <3>1
  <2>2. CASE ~(k < n)
    BY <1>4, <1>5, <2>2
  <2> QED BY <2>1, <2>2
<1>9. walk[0] = walk[n]
  <2>1. 0 \in 0..n /\ n \in 0..n /\ 0 < n /\ ~(n < n) /\ m + 0 = m
    BY <1>2
  <2> QED BY <1>4, <2>1
<1>10. ASSUME NEW k \in 1..n PROVE walk[k] \in Needs(jobs, walk[k - 1])
  <2>1. k - 1 \in 0..n /\ k - 1 < n /\ m + (k - 1) \in 1..p /\ k \in 0..n
    BY <1>2
  <2>2. walk[k - 1] = path[m + (k - 1)]
    BY <2>1
  <2>3. CASE k < n
    <3>1. walk[k] = path[m + k]
      BY <2>1, <2>3
    <3>2. m + (k - 1) \in 1..(p - 1) /\ m + k = m + (k - 1) + 1
      BY <1>2, <2>3
    <3> QED BY <1>6, <2>2, <3>1, <3>2
  <2>4. CASE ~(k < n)
    <3>1. walk[k] = d /\ m + (k - 1) = p
      BY <1>2, <2>1, <2>4
    <3> QED BY <1>2, <2>2, <3>1
  <2> QED BY <2>3, <2>4
<1>11. walk \in [0..n -> 1..Len(jobs)]
  BY <1>8
<1> HIDE DEF walk, n
<1> QED BY <1>7, <1>9, <1>10, <1>11 DEF Cyclic, Needs

(* When every job is decided there is no cycle and no missing job. *)
LEMMA AllDecided ==
  ASSUME NEW jobs, IsWorkflow(jobs), NEW fr, FrameInv(jobs, fr), DOMAIN fr.needs = Jobs(jobs)
  PROVE  ~Cyclic(jobs) /\ ~Dangling(jobs)
<1>1. \A i \in Jobs(jobs) : Needs(jobs, i) \subseteq Jobs(jobs)
  BY DEF FrameInv, ResultsStand
<1>2. ~Dangling(jobs)
  BY <1>1 DEF Dangling, Jobs, Needs
<1>3. ASSUME NEW n \in 1..Len(jobs), NEW walk \in [0..n -> 1..Len(jobs)], walk[0] = walk[n],
             \A k \in 1..n : walk[k] \in Needs(jobs, walk[k - 1])
      PROVE  FALSE
  <2> DEFINE C == {walk[k] : k \in 0..n}
  <2>0. n \in Nat /\ n >= 1
    BY DEF IsWorkflow
  <2>1. C \in SUBSET Jobs(jobs) /\ C # {}
    BY <2>0 DEF Jobs
  <2>2. PICK j \in C : \A i \in C : j \notin Needs(jobs, i)
    BY <2>1 DEF FrameInv, NoCycleIn
  <2>3. PICK k \in 0..n : j = walk[k]
    OBVIOUS
  <2>4. PICK l \in 1..n : walk[l] = j
    <3>1. CASE k = 0
      BY <1>3, <2>0, <2>3, <3>1
    <3>2. CASE k # 0
      BY <2>0, <2>3, <3>2
    <3> QED BY <3>1, <3>2
  <2>5. l - 1 \in 0..n
    BY <2>0
  <2>6. walk[l - 1] \in C
    BY <2>5
  <2> QED BY <1>3, <2>2, <2>4, <2>6
<1> QED BY <1>2, <1>3 DEF Cyclic, Needs

-----------------------------------------------------------------------------
(* Rows.  A decided job without a row changes none of them, *)
LEMMA NoRow ==
  ASSUME NEW jobs, NEW needs, NEW list, RowsOf(jobs, needs, list),
         NEW i, i \notin DOMAIN needs, NEW more, DOMAIN more = DOMAIN needs \cup {i},
         \A d \in DOMAIN needs : more[d] = needs[d],
         ~(more[i] = "success" /\ jobs[i].uses = 0)
  PROVE  RowsOf(jobs, more, list)
BY DEF RowsOf

(* the row of another workflow is none of this one, *)
LEMMA OtherRow ==
  ASSUME NEW jobs, NEW needs, NEW list, RowsOf(jobs, needs, list),
         NEW f \in Nat, f # 1, NEW i \in Nat
  PROVE  RowsOf(jobs, needs, Append(list, <<f, i>>))
<1> DEFINE q == Append(list, <<f, i>>)
<1>1. list \in Seq(Nat \X Nat)
  BY DEF RowsOf
<1>2. Len(list) \in Nat /\ q \in Seq(Nat \X Nat) /\ Len(q) = Len(list) + 1
  BY <1>1
<1>3. \A n \in 1..Len(list) : q[n] = list[n]
  BY <1>1
<1>4. q[Len(list) + 1] = <<f, i>>
  BY <1>1
<1> HIDE DEF q
<1>5. \A n \in 1..Len(q) : q[n][1] = 1 => n \in 1..Len(list)
  <2> SUFFICES ASSUME NEW n \in 1..Len(q), n \notin 1..Len(list) PROVE q[n][1] # 1
    OBVIOUS
  <2>1. n = Len(list) + 1
    BY <1>2
  <2> QED BY <1>4, <2>1
<1>6. \A n \in 1..Len(list) : n \in 1..Len(q)
  BY <1>2
<1>7. \A d \in DOMAIN needs : needs[d] = "success" /\ jobs[d].uses = 0 =>
        \E n \in 1..Len(q) : q[n] = <<1, d>>
  BY <1>3, <1>6 DEF RowsOf
<1>8. \A n \in 1..Len(q) : q[n][1] = 1 =>
        /\ q[n][2] \in DOMAIN needs /\ needs[q[n][2]] = "success" /\ jobs[q[n][2]].uses = 0
  BY <1>3, <1>5 DEF RowsOf
<1>9. \A m, n \in 1..Len(q) : q[m][1] = 1 /\ q[m] = q[n] => m = n
  <2>1. \A m, n \in 1..Len(list) : list[m][1] = 1 /\ list[m] = list[n] => m = n
    BY DEF RowsOf
  <2> SUFFICES ASSUME NEW m \in 1..Len(q), NEW n \in 1..Len(q), q[m][1] = 1, q[m] = q[n]
               PROVE  m = n
    OBVIOUS
  <2>2. m \in 1..Len(list) /\ n \in 1..Len(list)
    BY <1>5
  <2>3. q[m] = list[m] /\ q[n] = list[n]
    BY <1>3, <2>2
  <2> QED BY ONLY <2>1, <2>2, <2>3, q[m][1] = 1, q[m] = q[n]
<1>10. \A m, n \in 1..Len(q) : m < n /\ q[m][1] = 1 /\ q[n][1] = 1 =>
         q[n][2] \notin Needs(jobs, q[m][2])
  BY <1>3, <1>5 DEF RowsOf
<1> QED BY <1>2, <1>7, <1>8, <1>9, <1>10 DEF RowsOf, q

(* and a job that occupies a runner comes behind everything decided before. *)
LEMMA RowAdded ==
  ASSUME NEW jobs, NEW needs, NEW list, RowsOf(jobs, needs, list), ResultsStand(jobs, needs),
         NEW i \in Nat, i \notin DOMAIN needs, NEW more, DOMAIN more = DOMAIN needs \cup {i},
         \A d \in DOMAIN needs : more[d] = needs[d],
         more[i] = "success", jobs[i].uses = 0, Needs(jobs, i) \subseteq DOMAIN needs
  PROVE  RowsOf(jobs, more, Append(list, <<1, i>>))
<1> DEFINE q == Append(list, <<1, i>>)
<1>1. list \in Seq(Nat \X Nat)
  BY DEF RowsOf
<1>2. Len(list) \in Nat /\ q \in Seq(Nat \X Nat) /\ Len(q) = Len(list) + 1
  BY <1>1
<1>3. \A n \in 1..Len(list) : q[n] = list[n]
  BY <1>1
<1>4. q[Len(list) + 1] = <<1, i>>
  BY <1>1
<1> HIDE DEF q
<1>5. \A n \in 1..Len(q) : n \in 1..Len(list) \/ n = Len(list) + 1
  BY <1>2
<1>6. \A n \in 1..Len(list) : n \in 1..Len(q)
  BY <1>2
<1>7. \A n \in 1..Len(list) : q[n][1] = 1 =>
        /\ q[n][2] \in DOMAIN needs /\ needs[q[n][2]] = "success" /\ jobs[q[n][2]].uses = 0
  <2>1. \A n \in 1..Len(list) : list[n][1] = 1 =>
          /\ list[n][2] \in DOMAIN needs
          /\ needs[list[n][2]] = "success" /\ jobs[list[n][2]].uses = 0
    BY DEF RowsOf
  <2> SUFFICES ASSUME NEW n \in 1..Len(list), q[n][1] = 1
               PROVE  /\ q[n][2] \in DOMAIN needs
                      /\ needs[q[n][2]] = "success" /\ jobs[q[n][2]].uses = 0
    OBVIOUS
  <2>2. q[n] = list[n]
    BY <1>3
  <2> QED BY ONLY <2>1, <2>2, q[n][1] = 1, n \in 1..Len(list)
<1>8. \A n \in 1..Len(q) : q[n][1] = 1 =>
        /\ q[n][2] \in DOMAIN more /\ more[q[n][2]] = "success" /\ jobs[q[n][2]].uses = 0
  BY <1>4, <1>5, <1>7
<1>9. \A d \in DOMAIN more : more[d] = "success" /\ jobs[d].uses = 0 =>
        \E n \in 1..Len(q) : q[n] = <<1, d>>
  <2> SUFFICES ASSUME NEW d \in DOMAIN more, more[d] = "success", jobs[d].uses = 0
               PROVE  \E n \in 1..Len(q) : q[n] = <<1, d>>
    OBVIOUS
  <2>1. CASE d = i
    <3>1. Len(list) + 1 \in 1..Len(q)
      BY <1>2
    <3> QED BY <1>4, <2>1, <3>1
  <2>2. CASE d # i
    <3>1. d \in DOMAIN needs /\ needs[d] = "success"
      BY <2>2
    <3> QED BY <1>3, <1>6, <3>1 DEF RowsOf
  <2> QED BY <2>1, <2>2
<1>10. \A m, n \in 1..Len(q) : q[m][1] = 1 /\ q[m] = q[n] => m = n
  <2> SUFFICES ASSUME NEW m \in 1..Len(q), NEW n \in 1..Len(q), q[m][1] = 1, q[m] = q[n]
               PROVE  m = n
    OBVIOUS
  <2>1. CASE m \in 1..Len(list) /\ n \in 1..Len(list)
    BY <1>3, <2>1 DEF RowsOf
  <2>2. CASE m \in 1..Len(list) /\ n = Len(list) + 1
    BY <1>4, <1>7, <2>2
  <2>3. CASE m = Len(list) + 1 /\ n \in 1..Len(list)
    BY <1>4, <1>7, <2>3
  <2>4. CASE m = Len(list) + 1 /\ n = Len(list) + 1
    BY <2>4
  <2> QED BY <1>5, <2>1, <2>2, <2>3, <2>4
<1>11. \A m, n \in 1..Len(q) : m < n /\ q[m][1] = 1 /\ q[n][1] = 1 =>
         q[n][2] \notin Needs(jobs, q[m][2])
  <2> SUFFICES ASSUME NEW m \in 1..Len(q), NEW n \in 1..Len(q), m < n, q[m][1] = 1, q[n][1] = 1
               PROVE  q[n][2] \notin Needs(jobs, q[m][2])
    OBVIOUS
  <2>1. m \in 1..Len(list)
    BY <1>2
  <2>2. CASE n \in 1..Len(list)
    BY <1>3, <2>1, <2>2 DEF RowsOf
  <2>3. CASE n = Len(list) + 1
    <3>1. q[m][2] \in DOMAIN needs
      BY <1>7, <2>1
    <3>2. Needs(jobs, q[m][2]) \subseteq DOMAIN needs
      BY <3>1 DEF ResultsStand
    <3> QED BY <1>4, <2>3, <3>2
  <2> QED BY <1>5, <2>2, <2>3
<1> QED BY <1>2, <1>8, <1>9, <1>10, <1>11 DEF RowsOf, q

-----------------------------------------------------------------------------
(* The stack of workflows.  A step that changes the innermost one only, *)
LEMMA TopChanged ==
  ASSUME NEW w, NEW st, StackOf(w, st), NEW fr \in Frames, fr.file = st[Len(st)].file,
         FrameInv(w[fr.file], fr),
         NEW new, new \in Seq(Frames), Len(new) = Len(st), new[Len(st)] = fr,
         \A n \in 1..(Len(st) - 1) : new[n] = st[n]
  PROVE  StackOf(w, new)
<1>1. Len(st) \in Nat /\ Len(st) >= 1
  BY DEF StackOf
<1>2. \A n \in 1..Len(new) : new[n].file = st[n].file
  <2> SUFFICES ASSUME NEW n \in 1..Len(new) PROVE new[n].file = st[n].file
    OBVIOUS
  <2>1. n = Len(st) \/ n \in 1..(Len(st) - 1)
    BY <1>1
  <2> QED BY <2>1
<1>3. \A n \in 1..Len(new) : FrameInv(w[new[n].file], new[n])
  <2> SUFFICES ASSUME NEW n \in 1..Len(new) PROVE FrameInv(w[new[n].file], new[n])
    OBVIOUS
  <2>1. CASE n = Len(st)
    BY <2>1
  <2>2. CASE n # Len(st)
    <3>1. n \in 1..(Len(st) - 1) /\ n \in 1..Len(st)
      BY <1>1, <2>2
    <3>2. new[n] = st[n] /\ FrameInv(w[st[n].file], st[n])
      BY <3>1 DEF StackOf
    <3> QED BY <3>2
  <2> QED BY <2>1, <2>2
<1>4. 1 \in 1..Len(new) /\ new[1].file = 1
  BY <1>1, <1>2 DEF StackOf
<1>5. /\ \A n \in 1..Len(new) : new[n].file \in 1..Len(w)
      /\ \A m, n \in 1..Len(new) : new[m].file = new[n].file => m = n
  BY <1>2 DEF StackOf
<1>6. \A n \in 1..(Len(new) - 1) : Calls(w, new[n].file, new[n + 1].file)
  <2> SUFFICES ASSUME NEW n \in 1..(Len(st) - 1) PROVE Calls(w, new[n].file, new[n + 1].file)
    OBVIOUS
  <2>1. n \in 1..Len(new) /\ n + 1 \in 1..Len(new)
    BY <1>1
  <2>2. Calls(w, st[n].file, st[n + 1].file)
    BY DEF StackOf
  <2> QED BY <1>2, <2>1, <2>2
<1>7. Len(new) >= 1
  BY <1>1
<1> QED BY <1>3, <1>4, <1>5, <1>6, <1>7 DEF StackOf

(* one that calls a workflow that is not being resolved, *)
LEMMA NewFrame ==
  ASSUME NEW w, NEW f \in Nat
  PROVE  Frame(f) \in Frames /\ Frame(f).file = f /\ FrameInv(w[f], Frame(f))
         /\ Frame(f).path = <<>> /\ DOMAIN Frame(f).needs = {}
<1> DEFINE none == [i \in {} |-> "success"]
<1>1. Frame(f).file = f /\ Frame(f).needs = none /\ Frame(f).path = <<>>
  BY DEF Frame
<1>2. DOMAIN none = {} /\ none \in [{} -> Results]
  BY DEF Results
<1>3. none \in UNION {[D -> Results] : D \in SUBSET Nat}
  BY <1>2
<1> HIDE DEF none
<1>4. Frame(f) = [file |-> f, needs |-> none, path |-> <<>>]
  BY DEF Frame, none
<1>5. Frame(f) \in Frames
  BY <1>3, <1>4 DEF Frames
<1>6. ResultsStand(w[f], none) /\ NoCycleIn(w[f], DOMAIN none)
  BY <1>2 DEF ResultsStand, NoCycleIn
<1>7. PathOfNeeds(w[f], none, <<>>)
  BY DEF PathOfNeeds
<1> QED BY <1>1, <1>2, <1>5, <1>6, <1>7 DEF FrameInv

LEMMA Called ==
  ASSUME NEW w, NEW st, StackOf(w, st), NEW f \in 1..Len(w), Len(w) \in Nat,
         \A n \in 1..Len(st) : st[n].file # f,
         Calls(w, st[Len(st)].file, f)
  PROVE  StackOf(w, Append(st, Frame(f))) /\ Append(st, Frame(f))[1] = st[1]
<1> DEFINE new == Append(st, Frame(f))
<1>1. st \in Seq(Frames) /\ Len(st) \in Nat /\ Len(st) >= 1
  BY DEF StackOf
<1>2. Frame(f) \in Frames /\ Frame(f).file = f /\ FrameInv(w[f], Frame(f)) /\ f \in Nat
  <2>1. f \in Nat
    OBVIOUS
  <2> QED BY <2>1, NewFrame
<1>3. /\ new \in Seq(Frames) /\ Len(new) = Len(st) + 1
      /\ \A n \in 1..Len(st) : new[n] = st[n]
  BY <1>1, <1>2
<1>4. new[Len(st) + 1] = Frame(f)
  BY <1>1
<1> HIDE DEF new
<1>5. \A n \in 1..Len(new) : n \in 1..Len(st) \/ n = Len(st) + 1
  BY <1>1, <1>3
<1>6. \A n \in 1..Len(new) : new[n].file \in 1..Len(w) /\ FrameInv(w[new[n].file], new[n])
  <2> SUFFICES ASSUME NEW n \in 1..Len(new)
               PROVE  new[n].file \in 1..Len(w) /\ FrameInv(w[new[n].file], new[n])
    OBVIOUS
  <2>1. CASE n \in 1..Len(st)
    <3>1. new[n] = st[n] /\ st[n].file \in 1..Len(w) /\ FrameInv(w[st[n].file], st[n])
      BY <1>3, <2>1 DEF StackOf
    <3> QED BY <3>1
  <2>2. CASE n = Len(st) + 1
    BY <1>2, <1>4, <2>2
  <2> QED BY <1>5, <2>1, <2>2
<1>7. \A m, n \in 1..Len(new) : new[m].file = new[n].file => m = n
  BY <1>2, <1>3, <1>4, <1>5 DEF StackOf
<1>8. \A n \in 1..(Len(new) - 1) : Calls(w, new[n].file, new[n + 1].file)
  <2> SUFFICES ASSUME NEW n \in 1..Len(st) PROVE Calls(w, new[n].file, new[n + 1].file)
    BY <1>1, <1>3
  <2>1. CASE n = Len(st)
    BY <1>2, <1>3, <1>4, <2>1
  <2>2. CASE n # Len(st)
    <3>1. n \in 1..(Len(st) - 1) /\ n + 1 \in 1..Len(st)
      BY <1>1, <2>2
    <3>2. Calls(w, st[n].file, st[n + 1].file)
      BY <3>1 DEF StackOf
    <3> QED BY <1>3, <3>1, <3>2
  <2> QED BY <2>1, <2>2
<1>9. new[1] = st[1] /\ new[1].file = 1 /\ Len(new) >= 1
  BY <1>1, <1>3 DEF StackOf
<1> QED BY <1>3, <1>6, <1>7, <1>8, <1>9 DEF StackOf, new

(* and one that returns to the caller. *)
LEMMA Returned ==
  ASSUME NEW w, NEW st, StackOf(w, st), Len(st) # 1
  PROVE  StackOf(w, Front(st)) /\ Front(st)[1] = st[1] /\ Len(Front(st)) = Len(st) - 1
         /\ Len(st) \in Nat /\ \A n \in 1..(Len(st) - 1) : Front(st)[n] = st[n]
<1> DEFINE new == Front(st)
<1>1. st \in Seq(Frames) /\ Len(st) \in Nat /\ Len(st) >= 1
  BY DEF StackOf
<1>2. new \in Seq(Frames) /\ Len(new) = Len(st) - 1 /\ \A n \in 1..(Len(st) - 1) : new[n] = st[n]
  <2>1. st # <<>>
    BY <1>1
  <2> QED BY <1>1, <2>1, FrontOf
<1> HIDE DEF new
<1>3. \A n \in 1..Len(new) : n \in 1..Len(st) /\ new[n] = st[n]
  BY <1>1, <1>2
<1>4. Len(new) >= 1 /\ 1 \in 1..Len(new)
  BY <1>1, <1>2
<1>5. \A n \in 1..Len(new) : new[n].file \in 1..Len(w) /\ FrameInv(w[new[n].file], new[n])
  <2> SUFFICES ASSUME NEW n \in 1..Len(new)
               PROVE  new[n].file \in 1..Len(w) /\ FrameInv(w[new[n].file], new[n])
    OBVIOUS
  <2>1. n \in 1..Len(st) /\ new[n] = st[n]
    BY <1>3
  <2>2. st[n].file \in 1..Len(w) /\ FrameInv(w[st[n].file], st[n])
    BY <2>1 DEF StackOf
  <2> QED BY <2>1, <2>2
<1>6. /\ \A m, n \in 1..Len(new) : new[m].file = new[n].file => m = n
      /\ \A n \in 1..(Len(new) - 1) : Calls(w, new[n].file, new[n + 1].file)
  <2>1. \A n \in 1..(Len(new) - 1) :
          n \in 1..(Len(st) - 1) /\ n \in 1..Len(new) /\ n + 1 \in 1..Len(new)
    BY <1>1, <1>2
  <2> QED BY <1>3, <2>1 DEF StackOf
<1>7. new[1] = st[1] /\ new[1].file = 1
  BY <1>3, <1>4 DEF StackOf
<1> QED BY <1>1, <1>2, <1>4, <1>5, <1>6, <1>7 DEF StackOf, new

(* A call of a workflow on the stack leads back to it. *)
LEMMA CallsGoRound ==
  ASSUME NEW w, NEW st, StackOf(w, st), Len(w) \in Nat, NEW m \in 1..Len(st),
         Calls(w, st[Len(st)].file, st[m].file)
  PROVE  Recursive(w)
<1> DEFINE n == Len(st)
           len == n - m + 1
           walk == [k \in 0..len |-> IF k = len THEN st[m].file ELSE st[m + k].file]
<1>1. st \in Seq(Frames) /\ n \in Nat /\ m \in 1..n /\ Calls(w, st[n].file, st[m].file)
  BY DEF StackOf
<1>2. n <= Len(w)
  <2> DEFINE g == [k \in 1..n |-> st[k].file]
  <2>1. g \in [1..n -> 1..Len(w)] /\ \A i, j \in 1..n : g[i] = g[j] => i = j
    BY DEF StackOf
  <2> HIDE DEF g, n
  <2> QED BY <1>1, <2>1, Pigeonhole
<1>3. /\ \A k \in 1..n : st[k].file \in 1..Len(w)
      /\ \A k \in 1..(n - 1) : Calls(w, st[k].file, st[k + 1].file)
  BY DEF StackOf
<1> HIDE DEF n
<1>4. len \in 1..Len(w) /\ len \in Nat /\ \A k \in 0..len : k # len => m + k \in 1..n
  BY <1>1, <1>2
<1>5. walk \in [0..len -> 1..Len(w)]
  BY <1>1, <1>3, <1>4
<1>6. walk[0] = st[m].file /\ walk[len] = st[m].file
  BY <1>1, <1>4
<1>7. ASSUME NEW k \in 1..len PROVE Calls(w, walk[k - 1], walk[k])
  <2>1. k - 1 \in 0..len /\ k - 1 # len /\ k \in 0..len /\ m + (k - 1) = m + k - 1
    BY <1>1, <1>4
  <2>2. walk[k - 1] = st[m + k - 1].file
    BY <2>1
  <2>3. CASE k = len
    <3>1. m + k - 1 = n
      BY <1>1, <2>3
    <3> QED BY <1>1, <1>6, <2>2, <2>3, <3>1
  <2>4. CASE k # len
    <3>1. m + k - 1 \in 1..(n - 1) /\ (m + k - 1) + 1 = m + k
      BY <1>1, <2>1, <2>4
    <3>2. walk[k] = st[m + k].file
      BY <2>1, <2>4
    <3> QED BY <1>3, <2>2, <3>1, <3>2
  <2> QED BY <2>3, <2>4
<1> HIDE DEF walk, len
<1> QED BY <1>4, <1>5, <1>6, <1>7 DEF Recursive

-----------------------------------------------------------------------------
(* The steps of the resolver. *)
LEMMA WorkflowsAre ==
  ASSUME workflows \in Workflows
  PROVE  /\ Len(workflows) \in Nat /\ 1 \in 1..Len(workflows)
         /\ \A f \in 1..Len(workflows) :
              /\ IsWorkflow(workflows[f])
              /\ \A i \in Jobs(workflows[f]) : workflows[f][i].uses \in 0..Len(workflows)
<1> USE WorkflowsAssumption
<1>1. /\ Len(workflows) \in Nat \ {0} /\ DOMAIN workflows = 1..Len(workflows)
      /\ \A f \in DOMAIN workflows :
           /\ Len(workflows[f]) \in Nat /\ DOMAIN workflows[f] = 1..Len(workflows[f])
           /\ \A i \in DOMAIN workflows[f] :
                /\ workflows[f][i].needs \in Seq(Range(workflows[f][i].needs))
                /\ workflows[f][i].uses \in 0..Len(workflows)
  OBVIOUS
<1>2. Len(workflows) \in Nat /\ 1 \in 1..Len(workflows)
  BY ONLY <1>1
<1> QED BY ONLY <1>1, <1>2 DEF IsWorkflow, Jobs, Needs

LEMMA TopFacts ==
  ASSUME GraphInv
  PROVE  /\ stack \in Seq(Frames) /\ Len(stack) \in Nat \ {0} /\ Top = stack[Len(stack)]
         /\ Top \in Frames /\ Top.file \in 1..Len(workflows) /\ Top.file \in Nat
         /\ FrameInv(workflows[Top.file], Top) /\ IsWorkflow(workflows[Top.file])
         /\ Known = Jobs(workflows[Top.file])
         /\ \A i \in Known : Job(i).uses \in 0..Len(workflows)
         /\ Top.file = 1 <=> Len(stack) = 1
         /\ Len(workflows) \in Nat /\ 1 \in 1..Len(workflows)
<1>1. stack \in Seq(Frames) /\ Len(stack) >= 1 /\ StackOf(workflows, stack) /\ workflows \in Workflows
  BY DEF GraphInv, StackOf
<1>2. Len(stack) \in Nat \ {0}
  BY <1>1
<1>3. Len(stack) \in 1..Len(stack) /\ 1 \in 1..Len(stack)
  BY <1>2
<1>4. Top = stack[Len(stack)] /\ Top \in Frames
  BY <1>1, <1>3 DEF Top
<1>5. Top.file \in 1..Len(workflows) /\ FrameInv(workflows[Top.file], Top)
  BY <1>1, <1>3, <1>4 DEF StackOf
<1>6. Top.file \in Nat
  BY <1>4 DEF Frames
<1>7. Top.file = 1 <=> Len(stack) = 1
  BY <1>1, <1>3, <1>4 DEF StackOf
<1>8. Known = Jobs(workflows[Top.file])
  BY DEF Known, Jobs
<1>9. IsWorkflow(workflows[Top.file])
      /\ \A i \in Jobs(workflows[Top.file]) : workflows[Top.file][i].uses \in 0..Len(workflows)
  BY <1>1, <1>5, WorkflowsAre
<1>10. Len(workflows) \in Nat /\ 1 \in 1..Len(workflows)
  BY <1>1, WorkflowsAre
<1> QED BY <1>1, <1>2, <1>4, <1>5, <1>6, <1>7, <1>8, <1>9, <1>10 DEF Job

LEMMA Replaced ==
  ASSUME NEW S, NEW s \in Seq(S), Len(s) # 0, NEW e \in S
  PROVE  /\ [s EXCEPT ![Len(s)] = e] \in Seq(S)
         /\ Len([s EXCEPT ![Len(s)] = e]) = Len(s)
         /\ [s EXCEPT ![Len(s)] = e][Len(s)] = e
         /\ \A k \in 1..(Len(s) - 1) : [s EXCEPT ![Len(s)] = e][k] = s[k]
<1>1. Len(s) \in Nat /\ DOMAIN s = 1..Len(s) /\ Len(s) \in 1..Len(s)
  OBVIOUS
<1>2. \A k \in 1..(Len(s) - 1) : k \in 1..Len(s) /\ k # Len(s)
  <2> DEFINE n == Len(s)
  <2>1. n \in Nat
    OBVIOUS
  <2> HIDE DEF n
  <2>2. \A k \in 1..(n - 1) : k \in 1..n /\ k # n
    BY <2>1
  <2> QED BY <2>2 DEF n
<1>3. [s EXCEPT ![Len(s)] = e] \in Seq(S) /\ Len([s EXCEPT ![Len(s)] = e]) = Len(s)
  OBVIOUS
<1> QED BY <1>1, <1>2, <1>3

(* A step of the innermost workflow: a longer path, or a job more decided. *)
Further(old, new) ==
  /\ new.file = old.file
  /\ \/ new.needs = old.needs /\ Len(new.path) = Len(old.path) + 1
     \/ \E i : i \notin DOMAIN old.needs /\ DOMAIN new.needs = DOMAIN old.needs \cup {i}

(* What any step does to the stack, if resolution goes on. *)
Moves ==
  \/ /\ Len(stack') \in {Len(stack), Len(stack) + 1}
     /\ \A n \in 1..(Len(stack) - 1) : stack'[n] = stack[n]
     /\ Further(Top, stack'[Len(stack)])
  \/ Len(stack) # 1 /\ stack' = Front(stack)

LEMMA TopVisits ==
  ASSUME GraphInv, phase = "resolving", NEW p,
         PathOfNeeds(workflows[Top.file], Top.needs, p), Len(p) = Len(Top.path) + 1,
         SetTop([Top EXCEPT !.path = p]), UNCHANGED <<workflows, jobRows, phase>>
  PROVE  GraphInv' /\ Moves
<1> DEFINE fr == [Top EXCEPT !.path = p]
           n == Len(stack)
<1>1. /\ stack \in Seq(Frames) /\ n \in Nat \ {0} /\ Top = stack[n]
      /\ Top \in Frames /\ FrameInv(workflows[Top.file], Top)
      /\ Top.file = 1 <=> n = 1
  BY TopFacts
<1>2. p \in Seq(Nat)
  <2>1. p \in Seq(Jobs(workflows[Top.file]) \ DOMAIN Top.needs)
    BY DEF PathOfNeeds
  <2>2. Jobs(workflows[Top.file]) \ DOMAIN Top.needs \subseteq Nat
    BY DEF Jobs
  <2> HIDE DEF n, fr
  <2> QED BY ONLY <2>1, <2>2
<1>3. fr \in Frames /\ fr.file = Top.file /\ fr.needs = Top.needs /\ fr.path = p
  BY <1>1, <1>2 DEF Frames
<1>4. stack' = [stack EXCEPT ![n] = fr]
  BY DEF SetTop
<1> HIDE DEF fr, n
<1>5. FrameInv(workflows[fr.file], fr)
  BY <1>1, <1>3 DEF FrameInv
<1>6. /\ stack' \in Seq(Frames) /\ Len(stack') = n /\ stack'[n] = fr
      /\ \A k \in 1..(n - 1) : stack'[k] = stack[k]
  <2>1. n = Len(stack)
    BY DEF n
  <2> QED BY ONLY <1>1, <1>3, <1>4, <2>1, Replaced
<1>7. StackOf(workflows, stack')
  BY <1>1, <1>3, <1>5, <1>6, TopChanged DEF GraphInv, n
<1>8. stack'[1].needs = stack[1].needs
  <2>1. CASE n = 1
    BY <1>1, <1>3, <1>6, <2>1
  <2>2. CASE n # 1
    <3>1. 1 \in 1..(n - 1)
      BY <1>1, <2>2
    <3> QED BY <1>6, <3>1
  <2> QED BY <2>1, <2>2
<1>9. PhaseInv'
  BY DEF PhaseInv
<1>10. GraphInv'
  BY <1>7, <1>8, <1>9 DEF GraphInv
<1>11. Further(Top, fr)
  BY <1>3 DEF Further
<1> QED BY <1>6, <1>10, <1>11 DEF Moves, n

(* A refusal leaves everything as it is. *)
LEMMA Refused ==
  ASSUME GraphInv, UNCHANGED <<workflows, stack, jobRows>>,
         \/ phase' = "cycle" /\ Cyclic(workflows[Top.file])
         \/ phase' = "missing" /\ Dangling(workflows[Top.file])
         \/ phase' = "recursive" /\ Recursive(workflows)
  PROVE  GraphInv'
<1>1. Top' = Top
  BY DEF Top
<1>2. PhaseInv'
  BY <1>1 DEF PhaseInv
<1> QED BY <1>2 DEF GraphInv

LEMMA VisitNextStep ==
  ASSUME GraphInv, phase = "resolving", VisitNext
  PROVE  GraphInv' /\ Moves
<1>1. PICK i \in Known \ DOMAIN Top.needs : SetTop([Top EXCEPT !.path = <<i>>])
  BY DEF VisitNext
<1>2. Top.path = <<>> /\ UNCHANGED <<workflows, jobRows, phase>>
  BY DEF VisitNext
<1>3. i \in Jobs(workflows[Top.file]) /\ i \notin DOMAIN Top.needs
  BY TopFacts
<1>4. PathOfNeeds(workflows[Top.file], Top.needs, <<i>>)
  BY <1>3, FirstVisit
<1>5. Len(<<i>>) = Len(Top.path) + 1
  BY <1>2
<1> QED BY <1>1, <1>2, <1>4, <1>5, TopVisits

(* The last job of the path, and what it still waits for. *)
LEMMA LastFacts ==
  ASSUME GraphInv, Top.path # <<>>, NEW i, i = Last(Top.path)
  PROVE  /\ i \in Known \ DOMAIN Top.needs
         /\ Needs(workflows[Top.file], i) = Range(Job(i).needs)
         /\ unresolved(i) = <<>> => Range(Job(i).needs) \subseteq DOMAIN Top.needs
         /\ unresolved(i) # <<>> => Head(unresolved(i)) \in Range(Job(i).needs) \ DOMAIN Top.needs
<1> DEFINE jobs == workflows[Top.file]
<1>1. FrameInv(jobs, Top) /\ IsWorkflow(jobs) /\ Known = Jobs(jobs)
  BY TopFacts
<1>2. Job(i) = jobs[i]
  BY DEF Job
<1> HIDE DEF jobs
<1>3. i \in Jobs(jobs) \ DOMAIN Top.needs
  BY <1>1, PathFront DEF FrameInv
<1>4. Job(i).needs \in Seq(Range(Job(i).needs))
  BY <1>1, <1>2, <1>3 DEF IsWorkflow, Needs
<1> DEFINE s == Job(i).needs
           open == unresolved(i)
           D == DOMAIN Top.needs
           K == {k \in DOMAIN s : s[k] \notin D}
<1>5. open = Pick(s, K) /\ K = {k \in DOMAIN s : s[k] \notin D}
  BY DEF unresolved
<1> HIDE DEF s, open, D, K
<1>6. /\ open = <<>> => Range(s) \subseteq D
      /\ open # <<>> => Head(open) \in Range(s) \ D
  <2>1. s \in Seq(Range(s))
    BY <1>4 DEF s
  <2> QED BY ONLY <1>5, <2>1, Unresolved
<1>7. Needs(jobs, i) = Range(s)
  BY <1>2 DEF Needs, s
<1> QED BY <1>1, <1>3, <1>6, <1>7 DEF s, open, D, jobs

LEMMA VisitNeedStep ==
  ASSUME GraphInv, phase = "resolving", VisitNeed
  PROVE  GraphInv' /\ (phase' = "resolving" => Moves)
<1> DEFINE jobs == workflows[Top.file]
           i == Last(Top.path)
           d == Head(unresolved(i))
<1>1. FrameInv(jobs, Top) /\ IsWorkflow(jobs) /\ Known = Jobs(jobs)
  BY TopFacts
<1>2. Top.path # <<>> /\ unresolved(i) # <<>> /\ UNCHANGED <<workflows, jobRows>>
  BY DEF VisitNeed
<1>3. i \in Known /\ d \in Needs(jobs, i) \ DOMAIN Top.needs /\ Needs(jobs, i) = Range(Job(i).needs)
  BY <1>2, LastFacts
<1>4. \/ d \in Range(Top.path) /\ phase' = "cycle" /\ UNCHANGED stack
      \/ d \notin Range(Top.path) /\ d \notin Known /\ phase' = "missing" /\ UNCHANGED stack
      \/ /\ d \notin Range(Top.path) /\ d \in Known
         /\ SetTop([Top EXCEPT !.path = Append(@, d)]) /\ UNCHANGED phase
  BY DEF VisitNeed
<1> HIDE DEF jobs, i, d
<1>5. PathOfNeeds(jobs, Top.needs, Top.path)
  BY <1>1 DEF FrameInv
<1>6. CASE d \in Range(Top.path) /\ phase' = "cycle" /\ UNCHANGED stack
  <2>1. Cyclic(jobs)
    BY <1>1, <1>2, <1>3, <1>5, <1>6, CycleFound DEF i
  <2> QED BY <1>2, <1>6, <2>1, Refused DEF jobs
<1>7. CASE d \notin Known /\ phase' = "missing" /\ UNCHANGED stack
  <2>1. Dangling(jobs)
    BY <1>1, <1>3, <1>7 DEF Dangling, Needs, Jobs
  <2> QED BY <1>2, <1>7, <2>1, Refused DEF jobs
<1>8. CASE /\ d \notin Range(Top.path) /\ d \in Known
           /\ SetTop([Top EXCEPT !.path = Append(@, d)]) /\ UNCHANGED phase
  <2> DEFINE p == Append(Top.path, d)
  <2>1. PathOfNeeds(jobs, Top.needs, p) /\ Len(p) = Len(Top.path) + 1
    BY <1>1, <1>2, <1>3, <1>5, <1>8, NextVisit DEF i
  <2>2. [Top EXCEPT !.path = Append(@, d)] = [Top EXCEPT !.path = p]
    BY TopFacts DEF Frames
  <2>3. SetTop([Top EXCEPT !.path = p])
    BY <1>8, <2>2
  <2> HIDE DEF p
  <2> QED BY <1>2, <1>8, <2>1, <2>3, TopVisits DEF jobs
<1> QED BY <1>4, <1>6, <1>7, <1>8

(* The innermost workflow once its last job is decided, and its rows then. *)
Popped == Append(Front(stack), Decision(workflows[Top.file], Top, Last(Top.path)))

DecidedRows ==
  IF enabled(Job(Last(Top.path)), Top.needs) /\ Job(Last(Top.path)).uses = 0
  THEN Append(jobRows, <<Top.file, Last(Top.path)>>) ELSE jobRows

LEMMA DecideIs ==
  ASSUME GraphInv, Top.path # <<>>, unresolved(Last(Top.path)) = <<>>
  PROVE  /\ StackOf(workflows, Popped) /\ Len(Popped) = Len(stack)
         /\ \A k \in 1..(Len(stack) - 1) : Popped[k] = stack[k]
         /\ Further(Top, Popped[Len(stack)]) /\ Popped[Len(stack)].file = Top.file
         /\ RowsOf(workflows[1], Popped[1].needs, DecidedRows)
<1> DEFINE jobs == workflows[Top.file]
           on == enabled(Job(Last(Top.path)), Top.needs)
           list == DecidedRows
           i == Last(Top.path)
           fr == Decision(jobs, Top, i)
           n == Len(stack)
           D == DOMAIN Top.needs
<1>1. /\ stack \in Seq(Frames) /\ n \in Nat \ {0} /\ Top = stack[n]
      /\ Top \in Frames /\ FrameInv(jobs, Top) /\ Top.file \in Nat
      /\ Top.file = 1 <=> n = 1
      /\ Known = Jobs(jobs) /\ IsWorkflow(jobs)
  BY TopFacts
<1>2. i \in Known \ D /\ Needs(jobs, i) \subseteq D
  BY LastFacts
<1>3. (on <=> enabled(jobs[i], Top.needs)) /\ Job(i) = jobs[i]
  BY DEF Job
<1>4. /\ Popped = Append(Front(stack), fr)
      /\ list = IF on /\ Job(i).uses = 0 THEN Append(jobRows, <<Top.file, i>>) ELSE jobRows
  BY DEF Popped, DecidedRows
<1> HIDE DEF jobs, i, n, D, on, list
<1>5. /\ FrameInv(jobs, fr) /\ fr.file = Top.file
      /\ DOMAIN fr.needs = D \cup {i}
      /\ fr.needs[i] = IF on THEN "success" ELSE "skipped"
      /\ \A d \in D : fr.needs[d] = Top.needs[d]
      /\ fr.path = Front(Top.path)
  BY <1>1, <1>2, <1>3, DecideLast DEF i, D
<1>6. i \in Nat
  BY <1>1, <1>2 DEF Jobs
<1>7. fr \in Frames
  <2> DEFINE needs == [d \in D \cup {i} |->
                IF d = i THEN IF enabled(jobs[i], Top.needs) THEN "success" ELSE "skipped"
                ELSE Top.needs[d]]
             path == Front(Top.path)
  <2>1. fr = [Top EXCEPT !.path = path, !.needs = needs]
    BY <1>1 DEF Decision, Frames, D
  <2>2. D \in SUBSET Nat /\ Top.needs \in [D -> Results] /\ Top.path \in Seq(Nat)
    BY <1>1 DEF Frames, D
  <2>3. needs \in [D \cup {i} -> Results]
    BY <2>2 DEF Results
  <2>4. D \cup {i} \in SUBSET Nat
    BY <1>6, <2>2
  <2>5. path \in Seq(Nat)
    BY <2>2, FrontOf
  <2> HIDE DEF needs, path, fr
  <2>6. needs \in UNION {[E -> Results] : E \in SUBSET Nat}
    BY <2>3, <2>4
  <2>7. [Top EXCEPT !.path = path, !.needs = needs] \in Frames
    BY <1>1, <2>5, <2>6 DEF Frames
  <2> QED BY <2>1, <2>7
<1> HIDE DEF fr
<1>8. /\ Popped \in Seq(Frames) /\ Len(Popped) = n /\ Popped[n] = fr
      /\ \A k \in 1..(n - 1) : Popped[k] = stack[k]
  <2>1. /\ Front(stack) \in Seq(Frames) /\ Len(Front(stack)) = n - 1
        /\ \A k \in 1..(n - 1) : Front(stack)[k] = stack[k]
    <3>1. stack # <<>>
      BY <1>1 DEF n
    <3> QED BY <1>1, <3>1, FrontOf DEF n
  <2> DEFINE f == Front(stack)
  <2> HIDE DEF f
  <2>2. f \in Seq(Frames) /\ Len(f) = n - 1 /\ \A k \in 1..(n - 1) : f[k] = stack[k]
    BY <2>1 DEF f
  <2>3. /\ Append(f, fr) \in Seq(Frames) /\ Len(Append(f, fr)) = n /\ Append(f, fr)[n] = fr
        /\ \A k \in 1..(n - 1) : Append(f, fr)[k] = f[k]
    BY ONLY <1>1, <1>7, <2>2
  <2> QED BY <1>4, <2>2, <2>3 DEF f
<1>9. StackOf(workflows, Popped)
  <2>1. FrameInv(workflows[fr.file], fr) /\ fr.file = stack[Len(stack)].file
    BY <1>1, <1>5 DEF jobs, n
  <2> QED BY <1>7, <1>8, <2>1, TopChanged DEF GraphInv, n
<1>10. Further(Top, fr)
  BY <1>2, <1>5 DEF Further, D
<1>11. RowsOf(workflows[1], Popped[1].needs, list)
  <2>1. RowsOf(workflows[1], stack[1].needs, jobRows)
    BY DEF GraphInv
  <2>2. CASE n = 1
    <3>1. jobs = workflows[1] /\ stack[1] = Top /\ Popped[1] = fr /\ Top.file = 1
      BY <1>1, <1>8, <2>2 DEF jobs
    <3>2. RowsOf(jobs, Top.needs, jobRows)
      BY <2>1, <3>1
    <3>3. CASE on /\ jobs[i].uses = 0
      <4>1. list = Append(jobRows, <<1, i>>) /\ fr.needs[i] = "success"
        BY <1>3, <1>4, <1>5, <3>1, <3>3
      <4>2. ResultsStand(jobs, Top.needs)
        BY <1>1 DEF FrameInv
      <4>3. RowsOf(jobs, fr.needs, Append(jobRows, <<1, i>>))
        BY <1>2, <1>5, <1>6, <3>2, <3>3, <4>1, <4>2, RowAdded DEF D
      <4> QED BY <3>1, <4>1, <4>3
    <3>4. CASE ~(on /\ jobs[i].uses = 0)
      <4>1. list = jobRows /\ ~(fr.needs[i] = "success" /\ jobs[i].uses = 0)
        BY <1>3, <1>4, <1>5, <3>4
      <4>2. RowsOf(jobs, fr.needs, jobRows)
        BY <1>2, <1>5, <3>2, <4>1, NoRow DEF D
      <4> QED BY <3>1, <4>1, <4>2
    <3> QED BY <3>3, <3>4
  <2>3. CASE n # 1
    <3>1. Popped[1] = stack[1] /\ Top.file # 1
      <4>1. 1 \in 1..(n - 1)
        BY <1>1, <2>3
      <4> QED BY <1>1, <1>8, <2>3, <4>1
    <3>2. RowsOf(workflows[1], stack[1].needs, Append(jobRows, <<Top.file, i>>))
      BY <1>1, <1>6, <2>1, <3>1, OtherRow
    <3>3. list = Append(jobRows, <<Top.file, i>>) \/ list = jobRows
      BY <1>4
    <3> QED BY <2>1, <3>1, <3>2, <3>3
  <2> QED BY <2>2, <2>3
<1> QED BY <1>5, <1>8, <1>9, <1>10, <1>11 DEF n, list

LEMMA DecideStep ==
  ASSUME GraphInv, phase = "resolving", DecideJob
  PROVE  GraphInv' /\ (phase' = "resolving" => Moves)
<1> DEFINE i == Last(Top.path)
           on == enabled(Job(i), Top.needs)
           called == Job(i).uses
           n == Len(stack)
<1>1. Top.path # <<>> /\ unresolved(i) = <<>> /\ UNCHANGED workflows
  BY DEF DecideJob
<1>2. jobRows' = DecidedRows
  BY DEF DecideJob, addRow, DecidedRows
<1>3. \/ (~on \/ called = 0) /\ stack' = Popped /\ UNCHANGED phase
      \/ /\ on /\ called # 0 /\ \E m \in 1..n : stack[m].file = called
         /\ phase' = "recursive" /\ UNCHANGED stack
      \/ /\ called # 0 /\ \A m \in 1..n : stack[m].file # called
         /\ stack' = Append(Popped, Frame(called)) /\ UNCHANGED phase
  BY DEF DecideJob, Popped, Decision, Job
<1>4. /\ StackOf(workflows, Popped) /\ Len(Popped) = n
      /\ \A k \in 1..(n - 1) : Popped[k] = stack[k]
      /\ Further(Top, Popped[n]) /\ Popped[n].file = Top.file
      /\ RowsOf(workflows[1], Popped[1].needs, jobRows')
  BY <1>1, <1>2, DecideIs
<1>5. /\ n \in Nat \ {0} /\ Top.file \in 1..Len(workflows) /\ Top = stack[n]
      /\ Len(workflows) \in Nat /\ i \in Known /\ called \in 0..Len(workflows)
      /\ \A m \in 1..n : stack[m].file \in Nat
  <2>1. i \in Known
    BY <1>1, LastFacts
  <2>2. \A m \in 1..n : stack[m].file \in Nat
    <3>1. \A m \in 1..n : stack[m] \in Frames
      BY TopFacts
    <3> QED BY <3>1 DEF Frames
  <2> QED BY <2>1, <2>2, TopFacts
<1> HIDE DEF i, on, called, n
<1>6. Calls(workflows, Top.file, called)
  <2>1. workflows[Top.file][i].uses = called /\ i \in 1..Len(workflows[Top.file])
    BY <1>5 DEF called, Job, Known
  <2> QED BY <2>1 DEF Calls
<1>7. CASE stack' = Popped /\ UNCHANGED phase
  <2>1. PhaseInv'
    BY <1>7 DEF PhaseInv
  <2>2. GraphInv'
    BY <1>1, <1>4, <1>7, <2>1 DEF GraphInv
  <2> QED BY <1>4, <1>7, <2>2 DEF Moves, n
<1>8. CASE /\ on /\ called # 0 /\ (\E m \in 1..n : stack[m].file = called)
           /\ phase' = "recursive" /\ UNCHANGED stack
  <2>1. Recursive(workflows)
    <3>1. PICK m \in 1..n : stack[m].file = called
      BY <1>8
    <3>2. StackOf(workflows, stack)
      BY DEF GraphInv
    <3> QED BY <1>5, <1>6, <3>1, <3>2, CallsGoRound DEF n
  <2>2. UNCHANGED jobRows
    BY <1>2, <1>8 DEF DecidedRows, called, i
  <2> QED BY <1>1, <1>8, <2>1, <2>2, Refused
<1>9. CASE /\ called # 0 /\ (\A m \in 1..n : stack[m].file # called)
           /\ stack' = Append(Popped, Frame(called)) /\ UNCHANGED phase
  <2>1. called \in 1..Len(workflows)
    BY <1>5, <1>9
  <2>2. \A m \in 1..n : Popped[m].file # called
    <3> SUFFICES ASSUME NEW m \in 1..n PROVE Popped[m].file # called
      OBVIOUS
    <3>1. m = n \/ m \in 1..(n - 1)
      BY <1>5
    <3>2. n \in 1..n
      BY <1>5
    <3> QED BY <1>4, <1>5, <1>9, <3>1, <3>2
  <2>3. Calls(workflows, Popped[n].file, called)
    BY <1>4, <1>6
  <2>4. StackOf(workflows, stack') /\ stack'[1] = Popped[1]
    BY <1>4, <1>5, <1>9, <2>1, <2>2, <2>3, Called
  <2>5. PhaseInv'
    BY <1>9 DEF PhaseInv
  <2>6. GraphInv'
    BY <1>1, <1>4, <2>4, <2>5 DEF GraphInv
  <2>7. Len(stack') = n + 1 /\ \A k \in 1..n : stack'[k] = Popped[k]
    <3>1. Popped \in Seq(Frames) /\ Frame(called) \in Frames
      <4>1. called \in Nat
        BY <2>1
      <4> QED BY <1>4, <4>1, NewFrame DEF StackOf
    <3> QED BY <1>4, <1>5, <1>9, <3>1
  <2>8. \A k \in 1..(n - 1) : stack'[k] = stack[k]
    <3>1. \A k \in 1..(n - 1) : k \in 1..n
      BY <1>5
    <3> QED BY <1>4, <2>7, <3>1
  <2>9. stack'[n] = Popped[n]
    BY <1>5, <2>7
  <2> QED BY <1>4, <2>6, <2>7, <2>8, <2>9 DEF Moves, n
<1> QED BY <1>3, <1>7, <1>8, <1>9

LEMMA ReturnStep ==
  ASSUME GraphInv, phase = "resolving", Return
  PROVE  GraphInv' /\ (phase' = "resolving" => Moves)
<1>1. DOMAIN Top.needs = Known /\ UNCHANGED <<workflows, jobRows>>
  BY DEF Return
<1>2. CASE Len(stack) = 1 /\ phase' = "done" /\ UNCHANGED stack
  <2>1. Top' = Top /\ Known' = Known
    BY <1>1, <1>2 DEF Top, Known
  <2>2. PhaseInv'
    BY <1>1, <1>2, <2>1 DEF PhaseInv
  <2> QED BY <1>1, <1>2, <2>2 DEF GraphInv
<1>3. CASE Len(stack) # 1 /\ stack' = Front(stack) /\ UNCHANGED phase
  <2>1. StackOf(workflows, stack') /\ stack'[1] = stack[1]
    BY <1>3, Returned DEF GraphInv
  <2>2. PhaseInv'
    BY <1>3 DEF PhaseInv
  <2>3. GraphInv'
    BY <1>1, <2>1, <2>2 DEF GraphInv
  <2> QED BY <1>3, <2>3 DEF Moves
<1> QED BY <1>2, <1>3 DEF Return

-----------------------------------------------------------------------------
LEMMA GraphInvInit == GraphInit => GraphInv
<1> SUFFICES ASSUME GraphInit PROVE GraphInv
  OBVIOUS
<1>1. workflows \in Workflows /\ stack = <<Frame(1)>> /\ jobRows = <<>> /\ phase = "resolving"
  BY DEF GraphInit
<1>2. 1 \in 1..Len(workflows)
  BY <1>1, WorkflowsAre
<1>3. /\ Frame(1) \in Frames /\ Frame(1).file = 1 /\ FrameInv(workflows[1], Frame(1))
      /\ DOMAIN Frame(1).needs = {}
  BY NewFrame
<1>4. stack \in Seq(Frames) /\ Len(stack) = 1 /\ stack[1] = Frame(1)
  BY <1>1, <1>3
<1>5. \A m \in 1..Len(stack) : m = 1
  BY <1>4
<1>6. StackOf(workflows, stack)
  BY <1>2, <1>3, <1>4, <1>5 DEF StackOf
<1>7. RowsOf(workflows[1], stack[1].needs, jobRows)
  BY <1>1, <1>3, <1>4 DEF RowsOf
<1>8. PhaseInv
  BY <1>1 DEF PhaseInv
<1> QED BY <1>1, <1>6, <1>7, <1>8 DEF GraphInv

LEMMA GraphSteps ==
  ASSUME GraphInv, GraphNext
  PROVE  GraphInv' /\ workflows' = workflows /\ (phase' = "resolving" => Moves)
<1>1. phase = "resolving" /\ (VisitNext \/ VisitNeed \/ DecideJob \/ Return)
  BY DEF GraphNext
<1>2. workflows' = workflows
  BY <1>1 DEF VisitNext, VisitNeed, DecideJob, Return
<1> QED BY <1>1, <1>2, VisitNextStep, VisitNeedStep, DecideStep, ReturnStep

LEMMA GraphInvNext ==
  ASSUME GraphInv, [GraphNext]_graphVars
  PROVE  GraphInv'
<1>1. CASE GraphNext
  BY <1>1, GraphSteps
<1>2. CASE UNCHANGED graphVars
  <2>1. UNCHANGED <<workflows, stack, jobRows, phase>>
    BY <1>2 DEF graphVars
  <2> QED BY <2>1 DEF GraphInv, PhaseInv, Top, Known
<1> QED BY <1>1, <1>2

LEMMA GraphInvHolds == GraphSpec => []GraphInv
<1> QED BY GraphInvInit, GraphInvNext, PTL DEF GraphSpec

(* resolveRun (visit, workflow-graph.mjs:182) calls a cycle what is one and  *)
(* a missing job what is not there, and finishes only on graphs that have    *)
(* neither, for any number of workflows, jobs and needs in any order.        *)
THEOREM RefusalsAreFounded == GraphSpec => []RefusedForCause
<1>1. ASSUME GraphInv PROVE RefusedForCause
  <2>1. phase = "done" => ~Cyclic(workflows[1]) /\ ~Dangling(workflows[1])
    <3> SUFFICES ASSUME phase = "done"
                 PROVE  ~Cyclic(workflows[1]) /\ ~Dangling(workflows[1])
      OBVIOUS
    <3>1. Len(stack) = 1 /\ DOMAIN Top.needs = Known
      BY <1>1 DEF GraphInv, PhaseInv
    <3>2. Top.file = 1 /\ FrameInv(workflows[1], Top) /\ IsWorkflow(workflows[1])
          /\ Known = Jobs(workflows[1])
      BY <1>1, <3>1, TopFacts
    <3> QED BY <3>1, <3>2, AllDecided
  <2> QED BY <1>1, <2>1 DEF GraphInv, PhaseInv, RefusedForCause
<1> QED BY <1>1, GraphInvHolds, PTL

(* What resolveRun records (workflow-graph.mjs:201, 218) stands when it ends: *)
(* each result is what the final results of the needs say, a job whose if     *)
(* names no status function runs behind successes only, and each job that     *)
(* occupies a runner has one row, never before the row of a job it needs.     *)
THEOREM OutcomesStand == GraphSpec => []OutcomeFollowsNeeds
<1>1. ASSUME GraphInv, phase = "done" PROVE OutcomeFollowsNeeds
  <2> DEFINE jobs == workflows[1]
             needs == Top.needs
  <2>1. Len(stack) = 1 /\ DOMAIN needs = Known
    BY <1>1 DEF GraphInv, PhaseInv
  <2>2. Top.file = 1 /\ FrameInv(jobs, Top) /\ Top = stack[1]
    BY <1>1, <2>1, TopFacts
  <2>3. RowsOf(jobs, needs, jobRows) /\ ResultsStand(jobs, needs)
    BY <1>1, <2>2 DEF GraphInv, FrameInv
  <2>4. \A i : Job(i) = jobs[i] /\ Range(Job(i).needs) = Needs(jobs, i)
    BY <2>2 DEF Job, Needs
  <2> HIDE DEF jobs, needs
  <2>5. ASSUME NEW i \in Known
        PROVE  /\ needs[i] = IF enabled(Job(i), needs) THEN "success" ELSE "skipped"
               /\ needs[i] = "success" /\ Job(i).cond \notin StatusAware =>
                    \A d \in Range(Job(i).needs) : needs[d] = "success"
    <3>1. needs[i] = IF enabled(Job(i), needs) THEN "success" ELSE "skipped"
      BY <2>1, <2>3, <2>4 DEF ResultsStand
    <3>2. ASSUME enabled(Job(i), needs), Job(i).cond \notin StatusAware,
                 NEW d \in Range(Job(i).needs)
          PROVE  needs[d] = "success"
      BY <3>2 DEF enabled
    <3> QED BY <3>1, <3>2
  <2>6. ASSUME NEW i \in Known
        PROVE  Cardinality({n \in 1..Len(jobRows) : jobRows[n] = <<1, i>>})
               = IF needs[i] = "success" /\ Job(i).uses = 0 THEN 1 ELSE 0
    <3> DEFINE E == {n \in 1..Len(jobRows) : jobRows[n] = <<1, i>>}
    <3>1. CASE needs[i] = "success" /\ Job(i).uses = 0
      <4>1. PICK n \in 1..Len(jobRows) : jobRows[n] = <<1, i>>
        BY <2>1, <2>3, <2>4, <3>1 DEF RowsOf
      <4>2. \A m \in 1..Len(jobRows) : jobRows[m] = <<1, i>> => m = n
        <5>1. \A a, b \in 1..Len(jobRows) :
                jobRows[a][1] = 1 /\ jobRows[a] = jobRows[b] => a = b
          BY <2>3 DEF RowsOf
        <5>2. jobRows[n][1] = 1
          BY <4>1
        <5> QED BY <4>1, <5>1, <5>2
      <4>3. E = {n}
        BY <4>1, <4>2
      <4> HIDE DEF E
      <4>4. Cardinality(E) = 1
        BY <4>3, FS_Singleton
      <4> QED BY <3>1, <4>4 DEF E
    <3>2. CASE ~(needs[i] = "success" /\ Job(i).uses = 0)
      <4>1. \A n \in 1..Len(jobRows) : jobRows[n] # <<1, i>>
        <5> SUFFICES ASSUME NEW n \in 1..Len(jobRows), jobRows[n] = <<1, i>> PROVE FALSE
          OBVIOUS
        <5>1. jobRows[n][1] = 1 /\ jobRows[n][2] = i
          OBVIOUS
        <5> QED BY <2>3, <2>4, <3>2, <5>1 DEF RowsOf
      <4>2. E = {}
        BY <4>1
      <4> HIDE DEF E
      <4>3. Cardinality(E) = 0
        BY <4>2, FS_EmptySet
      <4> QED BY <3>2, <4>3 DEF E
    <3> QED BY <3>1, <3>2
  <2>7. \A m, n \in 1..Len(jobRows) :
          m < n /\ jobRows[m][1] = 1 /\ jobRows[n][1] = 1 =>
            jobRows[n][2] \notin Range(Job(jobRows[m][2]).needs)
    BY <2>3, <2>4 DEF RowsOf
  <2> QED BY <2>5, <2>6, <2>7 DEF OutcomeFollowsNeeds, needs
<1>2. GraphInv => OutcomeFollowsNeeds
  <2>1. phase # "done" => OutcomeFollowsNeeds
    BY DEF OutcomeFollowsNeeds
  <2> QED BY <1>1, <2>1
<1> QED BY <1>2, GraphInvHolds, PTL

(* Ranks are never below zero, and the stack is no longer than the list of files. *)
LEMMA RanksAreSane ==
  ASSUME NEW w, w \in Workflows, workflows = w, NEW st, StackOf(w, st)
  PROVE  /\ Len(st) \in Nat /\ Len(st) <= Len(w) /\ DOMAIN StackRank(st) = 1..Len(st)
         /\ \A n \in 1..Len(st) :
              LET jobs == Len(w[st[n].file])
                  decided == Cardinality(DOMAIN st[n].needs)
              IN  /\ jobs \in Nat /\ decided \in Nat /\ Len(st[n].path) \in Nat
                  /\ StackRank(st)[n] = <<jobs - decided, jobs - Len(st[n].path)>>
                  /\ decided <= jobs /\ Len(st[n].path) <= jobs
                  /\ IsFiniteSet(DOMAIN st[n].needs)
<1>1. st \in Seq(Frames) /\ Len(st) \in Nat /\ DOMAIN st = 1..Len(st)
  BY DEF StackOf
<1>2. Len(w) \in Nat /\ \A f \in 1..Len(w) : IsWorkflow(w[f])
  BY WorkflowsAre
<1>3. Len(st) <= Len(w)
  <2> DEFINE g == [n \in 1..Len(st) |-> st[n].file]
  <2>1. g \in [1..Len(st) -> 1..Len(w)] /\ \A i, j \in 1..Len(st) : g[i] = g[j] => i = j
    BY DEF StackOf
  <2> HIDE DEF g
  <2> QED BY <1>1, <1>2, <2>1, Pigeonhole
<1>4. ASSUME NEW n \in 1..Len(st)
      PROVE  LET jobs == Len(w[st[n].file])
                 decided == Cardinality(DOMAIN st[n].needs)
             IN  /\ jobs \in Nat /\ decided \in Nat /\ Len(st[n].path) \in Nat
                 /\ decided <= jobs /\ Len(st[n].path) <= jobs
                 /\ IsFiniteSet(DOMAIN st[n].needs)
  <2> DEFINE jobs == w[st[n].file]
  <2>1. IsWorkflow(jobs) /\ FrameInv(jobs, st[n])
    BY <1>2 DEF StackOf
  <2>2. Len(jobs) \in Nat /\ DOMAIN st[n].needs \subseteq 1..Len(jobs)
    BY <2>1 DEF IsWorkflow, FrameInv, ResultsStand, Jobs
  <2>3. Len(st[n].path) \in Nat /\ Len(st[n].path) <= Len(jobs)
    BY <2>1, PathShort DEF FrameInv
  <2> HIDE DEF jobs
  <2>4. IsFiniteSet(1..Len(jobs)) /\ Cardinality(1..Len(jobs)) = Len(jobs)
    <3>1. Len(jobs) \in Nat
      BY <2>2
    <3> QED BY ONLY <3>1, UpTo
  <2>5. /\ IsFiniteSet(DOMAIN st[n].needs) /\ Cardinality(DOMAIN st[n].needs) \in Nat
        /\ Cardinality(DOMAIN st[n].needs) <= Len(jobs)
    BY <2>2, <2>4, FS_Subset, FS_CardinalityType
  <2> QED BY <2>2, <2>3, <2>5 DEF jobs
<1>5. /\ DOMAIN StackRank(st) = 1..Len(st)
      /\ \A n \in 1..Len(st) :
           StackRank(st)[n] = <<Len(w[st[n].file]) - Cardinality(DOMAIN st[n].needs),
                                Len(w[st[n].file]) - Len(st[n].path)>>
  BY <1>1 DEF StackRank
<1> QED BY <1>1, <1>3, <1>4, <1>5

(* visit and resolveRun (workflow-graph.mjs:178, 183) come to an end on any  *)
(* graph: each step that goes on brings the ranks of the frames, compared    *)
(* from the outermost one on, down, and no rank falls below zero.            *)
THEOREM ResolutionProgresses == GraphSpec => ResolutionEnds
<1> DEFINE Progress ==
      phase' = "resolving" =>
         LET old == StackRank(stack)
             new == StackRank(stack')
         IN  /\ \A n \in DOMAIN new : \A c \in 1..2 : new[n][c] >= 0
             /\ Len(stack') <= Len(workflows)
             /\ \E n \in DOMAIN old :
                   /\ SubSeq(new, 1, n - 1) = SubSeq(old, 1, n - 1)
                   /\ n \in DOMAIN new => Below(new[n], old[n])
<1>1. ASSUME GraphInv, GraphNext, phase' = "resolving" PROVE Progress
  <2> DEFINE w == workflows
             old == StackRank(stack)
             new == StackRank(stack')
             n == Len(stack)
  <2>1. GraphInv' /\ workflows' = w /\ Moves
    BY <1>1, GraphSteps
  <2>2. w \in Workflows /\ StackOf(w, stack) /\ StackOf(w, stack')
    <3>1. StackOf(workflows', stack')
      BY <2>1 DEF GraphInv
    <3> QED BY <1>1, <2>1, <3>1 DEF GraphInv
  <2>3. /\ Len(stack') \in Nat /\ Len(stack') <= Len(w) /\ DOMAIN new = 1..Len(stack')
        /\ \A k \in 1..Len(stack') :
             LET jobs == Len(w[stack'[k].file])
                 decided == Cardinality(DOMAIN stack'[k].needs)
             IN  /\ jobs \in Nat /\ decided \in Nat /\ Len(stack'[k].path) \in Nat
                 /\ new[k] = <<jobs - decided, jobs - Len(stack'[k].path)>>
                 /\ decided <= jobs /\ Len(stack'[k].path) <= jobs
                 /\ IsFiniteSet(DOMAIN stack'[k].needs)
    BY <2>2, RanksAreSane
  <2>4. /\ n \in Nat /\ DOMAIN old = 1..n
        /\ \A k \in 1..n :
             LET jobs == Len(w[stack[k].file])
                 decided == Cardinality(DOMAIN stack[k].needs)
             IN  /\ jobs \in Nat /\ decided \in Nat /\ Len(stack[k].path) \in Nat
                 /\ old[k] = <<jobs - decided, jobs - Len(stack[k].path)>>
                 /\ decided <= jobs /\ Len(stack[k].path) <= jobs
                 /\ IsFiniteSet(DOMAIN stack[k].needs)
    BY <2>2, RanksAreSane
  <2>5. n >= 1 /\ n \in 1..n /\ Top = stack[n]
    <3>1. n \in Nat \ {0} /\ Top = stack[n]
      BY <1>1, TopFacts
    <3> QED BY <3>1
  <2>6. \A k \in 1..(n - 1) : k \in 1..n
    BY <2>4
  <2> HIDE DEF old, new, n, w
  <2>7. \A k \in DOMAIN new : \A c \in 1..2 : new[k][c] >= 0
    <3> SUFFICES ASSUME NEW k \in DOMAIN new
                 PROVE  \A c \in 1..2 : new[k][c] >= 0
      OBVIOUS
    <3>1. k \in 1..Len(stack')
      BY <2>3
    <3> DEFINE jobs == Len(w[stack'[k].file])
               decided == Cardinality(DOMAIN stack'[k].needs)
               path == Len(stack'[k].path)
    <3>2. /\ jobs \in Nat /\ decided \in Nat /\ path \in Nat
          /\ new[k] = <<jobs - decided, jobs - path>> /\ decided <= jobs /\ path <= jobs
      BY <2>3, <3>1
    <3> HIDE DEF jobs, decided, path
    <3>3. jobs - decided >= 0 /\ jobs - path >= 0
      BY <3>2
    <3>4. new[k][1] >= 0 /\ new[k][2] >= 0
      BY <3>2, <3>3
    <3>5. \A c \in 1..2 : c = 1 \/ c = 2
      OBVIOUS
    <3> QED BY <3>4, <3>5
  <2>8. CASE /\ Len(stack') \in {n, n + 1}
             /\ \A k \in 1..(n - 1) : stack'[k] = stack[k]
             /\ Further(Top, stack'[n])
    <3>1. \A k \in 1..n : k \in 1..Len(stack')
      BY <2>4, <2>8
    <3>2. \A k \in 1..(n - 1) : new[k] = old[k]
      <4> SUFFICES ASSUME NEW k \in 1..(n - 1) PROVE new[k] = old[k]
        OBVIOUS
      <4>1. stack'[k] = stack[k] /\ k \in 1..n /\ k \in 1..Len(stack')
        BY <2>6, <2>8, <3>1
      <4> QED BY <2>3, <2>4, <4>1
    <3>3. SubSeq(new, 1, n - 1) = SubSeq(old, 1, n - 1)
      <4>1. SubSeq(new, 1, n - 1) = [k \in 1..(n - 1) |-> new[k]]
        BY <2>4, <2>5
      <4>2. SubSeq(old, 1, n - 1) = [k \in 1..(n - 1) |-> old[k]]
        BY <2>4, <2>5
      <4> QED BY <3>2, <4>1, <4>2
    <3>4. Below(new[n], old[n])
      <4> DEFINE a == stack[n]
                 b == stack'[n]
                 jobs == Len(w[a.file])
      <4>1. b.file = a.file
            /\ \/ b.needs = a.needs /\ Len(b.path) = Len(a.path) + 1
               \/ \E i : i \notin DOMAIN a.needs /\ DOMAIN b.needs = DOMAIN a.needs \cup {i}
        BY <2>5, <2>8 DEF Further
      <4>2. /\ jobs \in Nat /\ Cardinality(DOMAIN a.needs) \in Nat /\ Len(a.path) \in Nat
            /\ old[n] = <<jobs - Cardinality(DOMAIN a.needs), jobs - Len(a.path)>>
            /\ IsFiniteSet(DOMAIN a.needs)
        BY <2>4, <2>5
      <4>3. /\ Cardinality(DOMAIN b.needs) \in Nat /\ Len(b.path) \in Nat
            /\ new[n] = <<jobs - Cardinality(DOMAIN b.needs), jobs - Len(b.path)>>
        BY <2>3, <2>5, <3>1, <4>1
      <4> HIDE DEF a, b, jobs
      <4>4. CASE b.needs = a.needs /\ Len(b.path) = Len(a.path) + 1
        BY <4>2, <4>3, <4>4 DEF Below
      <4>5. ASSUME NEW i, i \notin DOMAIN a.needs, DOMAIN b.needs = DOMAIN a.needs \cup {i}
            PROVE  Below(new[n], old[n])
        <5>1. Cardinality(DOMAIN b.needs) = Cardinality(DOMAIN a.needs) + 1
          BY <4>2, <4>5, FS_AddElement
        <5> QED BY <4>2, <4>3, <5>1 DEF Below
      <4> QED BY <4>1, <4>4, <4>5
    <3>5. n \in DOMAIN old
      BY <2>4, <2>5
    <3> QED BY <2>3, <2>7, <3>3, <3>4, <3>5 DEF new, old, w
  <2>9. CASE n # 1 /\ stack' = Front(stack)
    <3>1. Len(stack') = n - 1 /\ \A k \in 1..(n - 1) : stack'[k] = stack[k]
      BY <2>2, <2>9, Returned DEF n
    <3>2. \A k \in 1..(n - 1) : new[k] = old[k]
      <4> SUFFICES ASSUME NEW k \in 1..(n - 1) PROVE new[k] = old[k]
        OBVIOUS
      <4>1. stack'[k] = stack[k] /\ k \in 1..n /\ k \in 1..Len(stack')
        BY <2>6, <3>1
      <4> QED BY <2>3, <2>4, <4>1
    <3>3. SubSeq(new, 1, n - 1) = SubSeq(old, 1, n - 1)
      <4>1. SubSeq(new, 1, n - 1) = [k \in 1..(n - 1) |-> new[k]]
        BY <2>4, <2>5
      <4>2. SubSeq(old, 1, n - 1) = [k \in 1..(n - 1) |-> old[k]]
        BY <2>4, <2>5
      <4> QED BY <3>2, <4>1, <4>2
    <3>4. n \notin DOMAIN new /\ n \in DOMAIN old
      BY <2>3, <2>4, <2>5, <3>1
    <3> QED BY <2>3, <2>7, <3>3, <3>4 DEF new, old, w
  <2> QED BY <2>1, <2>8, <2>9 DEF Moves, n
<1>2. ASSUME GraphInv, [GraphNext]_graphVars PROVE [Progress]_graphVars
  <2>0. GraphNext => Progress
    <3>1. CASE phase' = "resolving"
      BY <1>1, <1>2, <3>1
    <3>2. CASE phase' # "resolving"
      BY <3>2
    <3> QED BY <3>1, <3>2
  <2> HIDE DEF Progress
  <2>1. CASE UNCHANGED graphVars
    BY <2>1
  <2>2. CASE GraphNext
    BY <2>0, <2>2
  <2> QED BY <1>2, <2>1, <2>2
<1>3. GraphSpec => [][Progress]_graphVars
  BY <1>2, GraphInvHolds, PTL DEF GraphSpec
<1> QED BY <1>3 DEF ResolutionEnds

-----------------------------------------------------------------------------
(* The matrix. *)
StandsAlone(n) ==
  \A c \in Kept : \E k \in keys \cap DOMAIN matrix.include[n] : matrix.include[n][k] # c[k]

(* The rows are the kept combinations, grown but each once; what has been   *)
(* appended are the includes so far that agree with none of them.            *)
RowsInv ==
  /\ \A c \in Kept : \E r \in rows : Agrees(c, r)
  /\ \A r \in rows : \E c \in Kept : Agrees(c, r)
  /\ \A c \in Product : \A r, q \in rows : Agrees(c, r) /\ Agrees(c, q) => r = q
  /\ additional = Pick(matrix.include, {n \in DOMAIN matrix.include : n < next /\ StandsAlone(n)})

(* The inductive invariant. *)
MatrixInv ==
  /\ matrix \in Matrices /\ next \in Nat
  /\ next = 0 => additional = <<>>
  /\ next > 0 /\ keys # {} => RowsInv

(* A combination is a row of the product, and two that agree with one row are one. *)
LEMMA OneCombination ==
  ASSUME NEW c \in Product, NEW d \in Product, NEW r, Agrees(c, r), Agrees(d, r)
  PROVE  c = d
<1>1. /\ c \in [keys -> UNION {matrix.axes[k] : k \in keys}]
      /\ d \in [keys -> UNION {matrix.axes[k] : k \in keys}]
  BY DEF Product
<1>2. DOMAIN c = keys /\ DOMAIN d = keys
  BY <1>1
<1>3. \A k \in keys : c[k] = r[k] /\ d[k] = r[k]
  BY <1>2 DEF Agrees
<1> QED BY <1>1, <1>3

LEMMA ProductDomain ==
  ASSUME NEW c \in Product
  PROVE  DOMAIN c = keys
BY DEF Product

(* An include that matches a row leaves it in agreement with what it agreed. *)
Grown(include, row) == IF Matches(include, row) THEN Augment(include, row) ELSE row

LEMMA GrownAgrees ==
  ASSUME NEW include, NEW c \in Product, NEW d \in Product, NEW r, Agrees(d, r)
  PROVE  Agrees(c, Grown(include, r)) <=> Agrees(c, r)
<1>1. DOMAIN c = keys /\ DOMAIN d = keys
  BY ProductDomain
<1>2. \A k \in keys : k \in DOMAIN r
  BY <1>1 DEF Agrees
<1>3. CASE Matches(include, r)
  <2> DEFINE g == Augment(include, r)
  <2>1. g = [x \in (DOMAIN include) \cup (DOMAIN r) |-> IF x \in DOMAIN include THEN include[x] ELSE r[x]]
    BY DEF Augment
  <2>2. \A k \in keys : k \in DOMAIN g /\ g[k] = r[k]
    <3> SUFFICES ASSUME NEW k \in keys PROVE k \in DOMAIN g /\ g[k] = r[k]
      OBVIOUS
    <3>1. k \in DOMAIN include => include[k] = r[k]
      BY <1>3 DEF Matches
    <3>2. k \in (DOMAIN include) \cup (DOMAIN r)
      BY <1>2
    <3> HIDE DEF g
    <3> QED BY <2>1, <3>1, <3>2
  <2> HIDE DEF g
  <2>3. Grown(include, r) = g
    BY <1>3 DEF Grown, g
  <2> QED BY <1>1, <1>2, <2>2, <2>3 DEF Agrees
<1>4. CASE ~Matches(include, r)
  BY <1>4 DEF Grown
<1> QED BY <1>3, <1>4

(* Matching a row is agreeing with the combination it has grown from. *)
LEMMA MatchesKept ==
  ASSUME NEW include, NEW c \in Product, NEW r, Agrees(c, r)
  PROVE  Matches(include, r) <=> ~ \E k \in keys \cap DOMAIN include : include[k] # c[k]
<1>1. \A k \in keys : r[k] = c[k]
  BY ProductDomain DEF Agrees
<1> QED BY <1>1 DEF Matches

Appended(u, s, e) == u = Append(s, e)

LEMMA PickAppended ==
  ASSUME NEW S, NEW s, s \in Seq(S), NEW e, e \in S, NEW m, m = Len(s) + 1,
         NEW K, K \in SUBSET DOMAIN s, NEW u, Appended(u, s, e)
  PROVE  Pick(u, K) = Pick(s, K) /\ Appended(Pick(u, K \cup {m}), Pick(s, K), e)
BY PickAppend DEF Appended

(* A position more: PickAppend for a sequence that is there already. *)
LEMMA PickMore ==
  ASSUME NEW S, NEW s \in Seq(S), NEW n \in 1..Len(s), NEW K \in SUBSET (1..(n - 1))
  PROVE  Pick(s, K \cup {n}) = Append(Pick(s, K), s[n])
<1> DEFINE t == SubSeq(s, 1, n - 1)
           u == Append(t, s[n])
<1>1. Len(s) \in Nat /\ n \in Nat /\ n >= 1 /\ s[n] \in S /\ n - 1 \in Nat /\ DOMAIN s = 1..Len(s)
  OBVIOUS
<1>2. t = [k \in 1..(n - 1) |-> s[k]]
  BY <1>1
<1>3. \A k \in 1..(n - 1) : s[k] \in S
  BY <1>1
<1>4. t \in Seq(S) /\ Len(t) = n - 1 /\ DOMAIN t = 1..(n - 1)
  BY <1>1, <1>2, <1>3
<1> HIDE DEF t
<1>5. Pick(u, K) = Pick(t, K) /\ Pick(u, K \cup {n}) = Append(Pick(t, K), s[n])
  <2> DEFINE e == s[n]
  <2>1. t \in Seq(S) /\ e \in S /\ n = Len(t) + 1 /\ K \in SUBSET DOMAIN t /\ Appended(u, t, e)
    BY <1>1, <1>4 DEF Appended
  <2> HIDE DEF e, u
  <2>2. Pick(u, K) = Pick(t, K) /\ Appended(Pick(u, K \cup {n}), Pick(t, K), e)
    BY ONLY <2>1, PickAppended
  <2> QED BY <2>2 DEF e, Appended
<1>6. \A k \in 1..n : u[k] = s[k]
  <2> SUFFICES ASSUME NEW k \in 1..n PROVE u[k] = s[k]
    OBVIOUS
  <2>1. CASE k = n
    BY <1>1, <1>4, <2>1
  <2>2. CASE k # n
    <3>1. k \in 1..(n - 1)
      BY <1>1, <2>2
    <3> QED BY <1>1, <1>2, <1>4, <3>1
  <2> QED BY <2>1, <2>2
<1> HIDE DEF u
<1>7. ASSUME NEW L \in SUBSET (1..n) PROVE Pick(u, L) = Pick(s, L)
  <2>1. L \in SUBSET Nat /\ IsFiniteSet(L)
    <3>1. IsFiniteSet(1..n)
      BY <1>1, FS_Interval
    <3>2. IsFiniteSet(L)
      BY <3>1, FS_Subset
    <3> QED BY <1>1, <3>2
  <2>2. \A k \in 1..Cardinality(L) : Nth(L, k) \in L
    BY <2>1, NthListed
  <2>3. \A k \in 1..Cardinality(L) : u[Nth(L, k)] = s[Nth(L, k)]
    BY <1>6, <2>2
  <2> QED BY <2>3 DEF Pick
<1>8. K \in SUBSET (1..n) /\ K \cup {n} \in SUBSET (1..n)
  BY <1>1
<1> QED BY <1>5, <1>7, <1>8

LEMMA MatrixInvInit == MatrixInit => MatrixInv
BY DEF MatrixInit, MatrixInv

LEMMA IncludeIsList ==
  ASSUME matrix \in Matrices
  PROVE  /\ matrix.include \in Seq({matrix.include[i] : i \in DOMAIN matrix.include})
         /\ Len(matrix.include) \in Nat /\ DOMAIN matrix.include = 1..Len(matrix.include)
<1>1. matrix.include \in Seq({matrix.include[i] : i \in DOMAIN matrix.include})
  BY MatricesAssumption
<1> DEFINE S == {matrix.include[i] : i \in DOMAIN matrix.include}
<1>2. matrix.include \in Seq(S)
  BY <1>1
<1> HIDE DEF S
<1>3. Len(matrix.include) \in Nat /\ DOMAIN matrix.include = 1..Len(matrix.include)
  BY <1>2
<1> QED BY <1>1, <1>3

LEMMA KeptIsProduct == Kept \subseteq Product /\ \A c \in Product : Agrees(c, c)
BY DEF Kept, Agrees

LEMMA ExpandStep ==
  ASSUME MatrixInv, Expand
  PROVE  MatrixInv'
<1>1. /\ matrix' = matrix /\ next = 0 /\ matrix \in Matrices /\ additional = <<>>
  BY DEF Expand, MatrixInv
<1>2. keys' = keys /\ Kept' = Kept /\ Product' = Product
  BY <1>1 DEF keys, Kept, Product
<1>3. Len(matrix.include) \in Nat
  BY <1>1, IncludeIsList
<1>4. CASE keys = {} /\ next' = Len(matrix.include) + 1
  BY <1>1, <1>2, <1>3, <1>4 DEF MatrixInv
<1>5. CASE rows' = Kept /\ next' = 1 /\ additional' = additional
  <2>1. \A c \in Kept : \E r \in rows' : Agrees(c, r)
    BY <1>5, KeptIsProduct
  <2>2. \A r \in rows' : \E c \in Kept : Agrees(c, r)
    BY <1>5, KeptIsProduct
  <2>3. ASSUME NEW c \in Product, NEW r \in rows', NEW q \in rows', Agrees(c, r), Agrees(c, q)
        PROVE  r = q
    <3>1. r \in Product /\ q \in Product /\ Agrees(r, r) /\ Agrees(q, q)
      BY <1>5, KeptIsProduct
    <3>2. c = r
      BY <2>3, <3>1, OneCombination
    <3>3. c = q
      BY <2>3, <3>1, OneCombination
    <3> QED BY <3>2, <3>3
  <2>4. {n \in DOMAIN matrix.include : n < 1 /\ StandsAlone(n)'} = {}
    BY <1>1, IncludeIsList
  <2>5. Pick(matrix.include, {}) = <<>>
    <3>1. Cardinality({}) = 0
      BY FS_EmptySet
    <3> QED BY <3>1 DEF Pick
  <2>6. additional' = Pick(matrix'.include, {n \in DOMAIN matrix'.include : n < next' /\ StandsAlone(n)'})
    BY <1>1, <1>5, <2>4, <2>5
  <2>7. RowsInv'
    BY <1>2, <2>1, <2>2, <2>3, <2>6 DEF RowsInv, Agrees
  <2> QED BY <1>1, <1>2, <1>5, <2>7 DEF MatrixInv
<1> QED BY <1>1, <1>4, <1>5 DEF Expand

LEMMA IncludeStep ==
  ASSUME MatrixInv, Include
  PROVE  MatrixInv'
<1> DEFINE include == matrix.include[next]
           K == {n \in DOMAIN matrix.include : n < next /\ StandsAlone(n)}
           L == {n \in DOMAIN matrix.include : n < next + 1 /\ StandsAlone(n)}
<1>1. /\ matrix' = matrix /\ next \in 1..Len(matrix.include) /\ next' = next + 1
      /\ matrix \in Matrices /\ next \in Nat
  BY DEF Include, MatrixInv
<1>2. keys' = keys /\ Kept' = Kept /\ Product' = Product
  BY <1>1 DEF keys, Kept, Product
<1>3. /\ rows' = {Grown(include, r) : r \in rows}
      /\ additional' = IF \E r \in rows : Matches(include, r)
                       THEN additional ELSE Append(additional, include)
  BY DEF Include, Grown
<1>4. ASSUME keys # {} PROVE RowsInv'
  <2>0. RowsInv
    BY <1>1, <1>4 DEF MatrixInv
  <2>1. /\ \A c \in Kept : \E r \in rows : Agrees(c, r)
        /\ \A r \in rows : \E c \in Kept : Agrees(c, r)
        /\ \A c \in Product : \A r, q \in rows : Agrees(c, r) /\ Agrees(c, q) => r = q
        /\ additional = Pick(matrix.include, K)
    BY <2>0 DEF RowsInv
  <2>2. /\ Len(matrix.include) \in Nat /\ DOMAIN matrix.include = 1..Len(matrix.include)
        /\ matrix.include \in Seq({matrix.include[i] : i \in DOMAIN matrix.include})
    BY <1>1, IncludeIsList
  <2>3. \A c \in Product : \A r \in rows : Agrees(c, Grown(include, r)) <=> Agrees(c, r)
    <3> HIDE DEF include
    <3> QED BY <2>1, KeptIsProduct, GrownAgrees
  <2>4. \A c \in Kept : \E r \in rows' : Agrees(c, r)
    BY <1>3, <2>1, <2>3, KeptIsProduct
  <2>5. \A r \in rows' : \E c \in Kept : Agrees(c, r)
    BY <1>3, <2>1, <2>3, KeptIsProduct
  <2>6. ASSUME NEW c \in Product, NEW r \in rows', NEW q \in rows', Agrees(c, r), Agrees(c, q)
        PROVE  r = q
    <3>1. PICK a \in rows : r = Grown(include, a)
      BY <1>3
    <3>2. PICK b \in rows : q = Grown(include, b)
      BY <1>3
    <3>3. Agrees(c, a) /\ Agrees(c, b)
      BY <2>3, <2>6, <3>1, <3>2
    <3>4. a = b
      BY <2>1, <3>3
    <3> QED BY <3>1, <3>2, <3>4
  <2>7. (\E r \in rows : Matches(include, r)) <=> ~StandsAlone(next)
    <3>1. \A c \in Kept : \A r \in rows : Agrees(c, r) =>
            (Matches(include, r) <=> ~ \E k \in keys \cap DOMAIN include : include[k] # c[k])
      <4> HIDE DEF include
      <4> QED BY KeptIsProduct, MatchesKept
    <3>2. StandsAlone(next) <=>
            \A c \in Kept : \E k \in keys \cap DOMAIN include : include[k] # c[k]
      BY DEF StandsAlone
    <3> HIDE DEF include
    <3> QED BY <2>1, <3>1, <3>2
  <2>8. additional' = Pick(matrix.include, L)
    <3>1. CASE StandsAlone(next)
      <4>1. L = K \cup {next}
        BY <1>1, <2>2, <3>1
      <4>2. K \in SUBSET (1..(next - 1))
        BY <1>1, <2>2
      <4> DEFINE s == matrix.include
                 S == {s[i] : i \in DOMAIN s}
      <4>3. s \in Seq(S) /\ next \in 1..Len(s)
        BY <1>1, <2>2
      <4> HIDE DEF s, S, K, L
      <4>4. Pick(s, K \cup {next}) = Append(Pick(s, K), s[next])
        BY <4>2, <4>3, PickMore
      <4> QED BY <1>3, <2>1, <2>7, <3>1, <4>1, <4>4 DEF s
    <3>2. CASE ~StandsAlone(next)
      <4>1. L = K
        BY <1>1, <2>2, <3>2
      <4> QED BY <1>3, <2>1, <2>7, <3>2, <4>1
    <3> QED BY <3>1, <3>2
  <2>9. additional' = Pick(matrix'.include, {n \in DOMAIN matrix'.include : n < next' /\ StandsAlone(n)'})
    <3>1. \A n : StandsAlone(n)' = StandsAlone(n)
      BY <1>1, <1>2 DEF StandsAlone
    <3> QED BY <1>1, <2>8, <3>1
  <2> QED BY <1>2, <2>4, <2>5, <2>6, <2>9 DEF RowsInv, Agrees
<1> QED BY <1>1, <1>2, <1>4 DEF MatrixInv

LEMMA MatrixInvHolds == MatrixSpec => []MatrixInv
<1>1. ASSUME MatrixInv, [MatrixNext]_matrixVars PROVE MatrixInv'
  <2>1. CASE UNCHANGED matrixVars
    <3>1. UNCHANGED <<matrix, rows, additional, next>>
      BY <2>1 DEF matrixVars
    <3>2. keys' = keys /\ Kept' = Kept /\ Product' = Product
      BY <3>1 DEF keys, Kept, Product
    <3>3. \A n : StandsAlone(n)' = StandsAlone(n)
      BY <3>1, <3>2 DEF StandsAlone
    <3>4. RowsInv => RowsInv'
      BY <3>1, <3>2, <3>3 DEF RowsInv, Agrees
    <3> QED BY <1>1, <3>1, <3>2, <3>4 DEF MatrixInv
  <2> QED BY <1>1, <2>1, ExpandStep, IncludeStep DEF MatrixNext
<1> QED BY <1>1, MatrixInvInit, PTL DEF MatrixSpec

(* matrixRows (workflow-graph.mjs:117, 126) keeps every combination that no *)
(* exclusion names, once, whatever includes augment it, and appends exactly *)
(* the includes that agree with none of them, as written and in order.      *)
THEOREM IncludesCostNothing == MatrixSpec => []CombinationsKept
<1>1. ASSUME MatrixInv, keys # {}, next > 0 PROVE CombinationsKept
  <2>1. RowsInv
    BY <1>1 DEF MatrixInv
  <2>2. ASSUME NEW c \in Product
        PROVE  Cardinality({r \in rows : Agrees(c, r)})
               = IF \E e \in matrix.exclude : Agrees(e, c) THEN 0 ELSE 1
    <3> DEFINE R == {r \in rows : Agrees(c, r)}
    <3>1. CASE \E e \in matrix.exclude : Agrees(e, c)
      <4>1. ASSUME NEW r \in rows, Agrees(c, r) PROVE FALSE
        <5>1. PICK d \in Kept : Agrees(d, r)
          BY <2>1 DEF RowsInv
        <5>2. d = c
          BY <4>1, <5>1, KeptIsProduct, OneCombination
        <5> QED BY <3>1, <5>2 DEF Kept
      <4>2. R = {}
        BY <4>1
      <4> HIDE DEF R
      <4>3. Cardinality(R) = 0
        BY <4>2, FS_EmptySet
      <4> QED BY <3>1, <4>3 DEF R
    <3>2. CASE ~ \E e \in matrix.exclude : Agrees(e, c)
      <4>1. c \in Kept
        BY <3>2 DEF Kept
      <4>2. PICK r \in rows : Agrees(c, r)
        BY <2>1, <4>1 DEF RowsInv
      <4>3. R = {r}
        BY <2>1, <4>2 DEF RowsInv
      <4> HIDE DEF R
      <4>4. Cardinality(R) = 1
        BY <4>3, FS_Singleton
      <4> QED BY <3>2, <4>4 DEF R
    <3> QED BY <3>1, <3>2
  <2>3. \A r \in rows : \E c \in Product : Agrees(c, r)
    BY <2>1, KeptIsProduct DEF RowsInv
  <2>4. ASSUME Expanded
        PROVE  additional = Pick(matrix.include, {n \in DOMAIN matrix.include :
                 \A c \in Kept : \E k \in keys \cap DOMAIN matrix.include[n] :
                    matrix.include[n][k] # c[k]})
    <3>1. \A n \in DOMAIN matrix.include : n < next
      BY <1>1, <2>4, IncludeIsList DEF Expanded, MatrixInv
    <3> QED BY <2>1, <3>1 DEF RowsInv, StandsAlone
  <2> QED BY <2>2, <2>3, <2>4 DEF CombinationsKept
<1>2. MatrixInv => CombinationsKept
  <2>1. ~(keys # {} /\ next > 0) => CombinationsKept
    BY DEF CombinationsKept
  <2> QED BY <1>1, <2>1
<1> QED BY <1>2, MatrixInvHolds, PTL
=============================================================================
