------------------------------ MODULE Selection ------------------------------
(***************************************************************************)
(* Array.prototype.filter, by the positions that are kept: the elements of *)
(* a sequence at those positions, in their order.  It is SelectSeq with    *)
(* the test on the position, in a form that can be reasoned about.         *)
(***************************************************************************)
EXTENDS Naturals, Sequences, FiniteSets

(* How many members of K come no later than i, *)
Rank(K, i) == Cardinality({j \in K : j <= i})

(* and which member of K is the k-th. *)
Nth(K, k) == CHOOSE i \in K : Rank(K, i) = k

Pick(s, K) == [k \in 1 .. Cardinality(K) |-> s[Nth(K, k)]]
=============================================================================
