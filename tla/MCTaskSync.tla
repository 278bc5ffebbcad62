---- MODULE MCTaskSync ----
(* Two peers that share one task. *)
EXTENDS TaskSync, TLC

CONSTANTS a, b, c, t1

MCRank == [x \in Authors |-> CASE x = Nobody -> 0 [] x = a -> 1 [] x = b -> 2 [] x = c -> 3]
====
