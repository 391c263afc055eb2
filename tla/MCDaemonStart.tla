--------------------------- MODULE MCDaemonStart ----------------------------
(* Three plugins at once: a daemon can win, lose and be replaced. *)
EXTENDS DaemonStart, TLC

CONSTANTS a, b, c

ThreeProcs == {a, b, c}

MCSymmetry == Permutations(ThreeProcs)
=============================================================================
