------------------------------- MODULE Sorting -------------------------------
(***************************************************************************)
(* Python's sorted, for rows of which no two have the same key.            *)
(***************************************************************************)
EXTENDS Naturals, FiniteSets

\* The rows of S in order: k - 1 of them come before the k-th.
InOrder(S, before(_, _)) ==
    [k \in 1..Cardinality(S) |->
        CHOOSE x \in S : Cardinality({y \in S : before(y, x)}) = k - 1]
=============================================================================
