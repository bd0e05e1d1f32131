------------------------------ MODULE Sublists ------------------------------
(***************************************************************************)
(* What a loop over a slice keeps: the elements at some of its positions,  *)
(* in their order.  (Sequences!SelectSeq, said by positions.)              *)
(***************************************************************************)
EXTENDS Naturals, Sequences, FiniteSets

\* How many of the positions S come up to i.
Rank(S, i) == Cardinality({ j \in S : j <= i })

\* The k-th of the positions S.
Nth(S, k) == CHOOSE i \in S : Rank(S, i) = k

\* The elements of s at the positions S.
Pick(s, S) == [k \in 1..Cardinality(S) |-> s[Nth(S, k)]]
=============================================================================
