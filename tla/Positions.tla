----------------------------- MODULE Positions ------------------------------
(***************************************************************************)
(* Taking elements out of the middle of a queue.  What remains is given by *)
(* the positions that are kept, in their order: a definition without       *)
(* recursion, about which PositionsProofs has what the proofs need.        *)
(***************************************************************************)
EXTENDS Integers, Sequences, FiniteSets

\* The place of position i among the positions K.
Rank(K, i) == Cardinality({j \in K : j <= i})

\* The elements of q at the positions K.
Picked(q, K) ==
    [k \in 1 .. Cardinality(K) |-> q[CHOOSE i \in K : Rank(K, i) = k]]
=============================================================================
