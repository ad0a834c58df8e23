------------------------------ MODULE Ranking ------------------------------
(***************************************************************************)
(* What the console's lists have in common: they are sorted by a           *)
(* comparison and filtered.  Both are said by ranks, so that nothing       *)
(* recursive is needed.                                                    *)
(***************************************************************************)
EXTENDS Integers, Sequences, FiniteSets

\* The sequence that has everything ranked at its rank.
AtRank(rank) == [n \in 1..Cardinality(DOMAIN rank) |-> CHOOSE i \in DOMAIN rank : rank[i] = n] \o <<>>

\* The numbers of a set, from the least.
Ascending(S) == AtRank([i \in S |-> Cardinality({j \in S : j < i}) + 1])
=============================================================================
