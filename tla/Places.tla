------------------------------- MODULE Places -------------------------------
(***************************************************************************)
(* Filtering a sequence by the positions that are kept.  What SelectSeq    *)
(* does for a predicate, but without recursion: so that proofs about it    *)
(* need only the cardinality of finite sets.                               *)
(***************************************************************************)
EXTENDS Naturals, Sequences, FiniteSets

\* The place of position k among the positions S, counted from 1
Place(S, k) == Cardinality({j \in S : j <= k})

\* The position that has the n-th place
Nth(S, n) == CHOOSE k \in S : Place(S, k) = n

\* The elements of s at the positions S, in their order
Picked(s, S) == [n \in 1 .. Cardinality(S) |-> s[Nth(S, n)]]
=============================================================================
