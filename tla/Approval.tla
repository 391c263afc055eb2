------------------------------ MODULE Approval ------------------------------
(***************************************************************************)
(* What the whole system promises to allowlister, without plugins, sockets *)
(* or brokers: people decide, each gated command gets at most one answer,  *)
(* and that answer is a decision a person made for this very command, or   *)
(* one that leaves the command to allowlister (defer, ask).                *)
(***************************************************************************)
EXTENDS Protocol

VARIABLES
  issued,   \* the <<id, verdict>> pairs people have decided
  answer,   \* id -> what the gated command was told
  gone      \* ids whose process was killed: they are never answered

approvalVars == <<issued, answer, gone>>

ApprovalInit ==
  /\ issued = {}
  /\ answer = [i \in Ids |-> NoVerdict]
  /\ gone = {}

(* Somebody decides a request, possibly again, possibly unintelligibly. *)
Decide ==
  /\ \E i \in Ids, w \in WireVerdict : issued' = issued \cup {<<i, w>>}
  /\ UNCHANGED <<answer, gone>>

Open(i) == answer[i] = NoVerdict /\ i \notin gone

(* The command is told what was decided for it. *)
Settle(i, v) ==
  /\ Open(i)
  /\ <<i, v>> \in issued
  /\ answer' = [answer EXCEPT ![i] = v]
  /\ UNCHANGED <<issued, gone>>

(* The command is left to allowlister. *)
StepAside(i, a) ==
  /\ Open(i)
  /\ answer' = [answer EXCEPT ![i] = a]
  /\ UNCHANGED <<issued, gone>>

Vanish(i) ==
  /\ Open(i)
  /\ gone' = gone \cup {i}
  /\ UNCHANGED <<issued, answer>>

ApprovalNext ==
  \/ Decide
  \/ \E i \in Ids, v \in Verdict : Settle(i, v)
  \/ \E i \in Ids, a \in {"defer", "ask"} : StepAside(i, a)
  \/ \E i \in Ids : Vanish(i)

ApprovalSpec == ApprovalInit /\ [][ApprovalNext]_approvalVars
=============================================================================
