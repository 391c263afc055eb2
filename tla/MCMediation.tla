---------------------------- MODULE MCMediation -----------------------------
(* One or two browsers and a daemon over a handful of connections, so that *)
(* a browser is cut off, reconnects and catches up while requests come and *)
(* go.                                                                     *)
EXTENDS Mediation, TLC

CONSTANTS r1, r2, p1, p2

OneId    == {r1}
TwoIds   == {r1, r2}
OnePwa   == {p1}
TwoPwas  == {p1, p2}

MCSymmetry == Permutations(TwoIds) \cup Permutations(TwoPwas)
=============================================================================
