------------------------------ MODULE MCChain -------------------------------
(* One host with one or two gated commands, and enough connections for the *)
(* link to be lost and dialed again.                                       *)
EXTENDS Chain, TLC

CONSTANTS r1, r2

OneId  == {r1}
TwoIds == {r1, r2}

(* Bound for two requests at once: people make at most one decision, so an *)
(* answer to the other request would have to be a misrouted one.           *)
OneDecision == Cardinality(issued) <= 1

MCSymmetry == Permutations(TwoIds)
=============================================================================
