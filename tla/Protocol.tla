------------------------------ MODULE Protocol ------------------------------
(***************************************************************************)
(* The vocabulary of crates/allowlister-remote-protocol: the verdicts and  *)
(* the frames that the plugin, the daemon, the broker and the PWA          *)
(* exchange.  A payload (command, reason, fragments) is opaque to every    *)
(* hop, so a frame keeps only its type, the request id it names and the    *)
(* verdict it carries.                                                     *)
(***************************************************************************)
EXTENDS Naturals, FiniteSets

CONSTANTS
  Ids,    \* request ids: new_request_id never hands out the same one twice
  NoId    \* a frame without a usable id (absent, or not a string)

ASSUME NoIdAssumption == NoId \notin Ids

(* Verdict: the only two decisions that settle a request. *)
Verdict == {"allow", "deny"}

(* What the verdict field of a frame may hold on the wire: any JSON value, *)
(* or none.  "other" stands for all that Verdict::parse rejects.           *)
WireVerdict == Verdict \cup {"other"}

(* The None of Option<Verdict>. *)
NoVerdict == "none"

(* Verdict::parse. *)
ParseVerdict(w) == IF w \in Verdict THEN w ELSE NoVerdict

(* decision_verdict: the parsed verdict of a decision frame. *)
DecisionVerdict(m) == ParseVerdict(m.verdict)

-----------------------------------------------------------------------------
(* The envelopes, by the names of their builders. *)

CreateFrame(i)      == [type |-> "create", id |-> i]
DecisionFrame(i, w) == [type |-> "decision", id |-> i, verdict |-> w]
WithdrawFrame(i)    == [type |-> "withdraw", id |-> i]
SubscribeFrame      == [type |-> "subscribe"]
OtherFrame          == [type |-> "other"]
AddedFrame(i)       == [type |-> "added", id |-> i]
ResolvedFrame(i)    == [type |-> "resolved", id |-> i]
SnapshotFrame(S)    == [type |-> "snapshot", ids |-> S]

(* Frames a client can put on its WebSocket, well formed or not. *)
ClientFrame ==
  [type : {"create", "withdraw"}, id : Ids \cup {NoId}]
    \cup [type : {"decision"}, id : Ids \cup {NoId}, verdict : WireVerdict]
    \cup {SubscribeFrame, OtherFrame}

(* Frames the broker sends: added, resolved and snapshot to PWAs, decision *)
(* to the daemon that owns the request.                                    *)
ServerFrame ==
  [type : {"added", "resolved"}, id : Ids]
    \cup [type : {"decision"}, id : Ids, verdict : Verdict]
    \cup [type : {"snapshot"}, ids : SUBSET Ids]
-----------------------------------------------------------------------------
(* The order in which a HashMap yields the elements of S: any. *)
Orderings(S) ==
  {f \in [1 .. Cardinality(S) -> S] : \A x \in S : \E k \in DOMAIN f : f[k] = x}
=============================================================================
