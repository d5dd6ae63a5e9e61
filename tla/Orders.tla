------------------------------- MODULE Orders -------------------------------
(***************************************************************************)
(* What sorting and filtering return: ORDER BY and Array.sort, filter.     *)
(***************************************************************************)
EXTENDS Integers, Sequences, FiniteSets

\* The elements of S, each before those that Before, a set of pairs, puts after it.
InOrder(S, Before) ==
  CHOOSE s \in [1..Cardinality(S) -> S] :
    \A i, j \in 1..Cardinality(S) : i < j => <<s[i], s[j]>> \in Before

Ascending(S) == InOrder(S, {p \in S \X S : p[1] < p[2]})

\* The elements of s that are in keep, in the order of s.
Keeping(s, keep) ==
  LET at == Ascending({i \in DOMAIN s : s[i] \in keep})
  IN  [i \in DOMAIN at |-> s[at[i]]]
=============================================================================
