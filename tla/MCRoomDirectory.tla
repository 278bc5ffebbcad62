--------------------------- MODULE MCRoomDirectory ---------------------------
(* RoomDirectory on a small instance for TLC: two names that differ in case, one *)
(* of them typed with a space before it, and one that is all space. Nothing tells *)
(* the peers apart, and of the names only whether they are the same, so each are  *)
(* a symmetry set; no property of the run is temporal.                            *)
EXTENDS RoomDirectory

CONSTANTS Dev, dev

TypedNames == {<<Dev>>, <<" ", dev>>, <<" ">>}
SanitizeTyped == [n \in TypedNames |-> IF n = <<" ">> THEN Invalid ELSE Last(n)]
LowerTyped == [n \in {Dev, dev} |-> dev]
MCSymmetry == Permutations(Peers) \cup Permutations({Dev, dev})
=============================================================================
