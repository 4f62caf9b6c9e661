---------------------------- MODULE Subsequences ----------------------------
(***************************************************************************)
(* The elements of a sequence at some of its positions, in order: the       *)
(* filtered lists that the registry and the co-author writer hand out.  A   *)
(* position is found by the number of positions up to it and not by         *)
(* recursion, as in SelectSeq, so that one can reason about it.             *)
(***************************************************************************)
EXTENDS Naturals, Sequences, FiniteSets

\* How many positions of S there are up to i.
Rank(S, i) == Cardinality({j \in S : j <= i})

\* The kth position of S.
Nth(S, k) == CHOOSE i \in S : Rank(S, i) = k

Pick(s, S) == [k \in 1..Cardinality(S) |-> s[Nth(S, k)]]

\* The elements that are in a set.
Among(s, S) == Pick(s, {i \in DOMAIN s : s[i] \in S})
=============================================================================
