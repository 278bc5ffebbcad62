------------------------------- MODULE Queues -------------------------------
(***************************************************************************)
(* What the queues and lists of the components have in common.             *)
(***************************************************************************)
EXTENDS Naturals, Sequences, FiniteSets

\* The elements of s that stand at the positions at, in the order of s.
Picked(s, at) ==
  LET Place(i) == Cardinality({j \in at : j <= i})
  IN [k \in 1..Cardinality(at) |-> s[CHOOSE i \in at : Place(i) = k]]

\* Vec::retain(|x| x != e): what is left of s without e.
Retain(s, e) == Picked(s, {i \in 1..Len(s) : s[i] # e})
=============================================================================
