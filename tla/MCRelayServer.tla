--------------------------- MODULE MCRelayServer ---------------------------
(***************************************************************************)
(* Small instances of RelayServer: a client a on connection c1 and a       *)
(* client b that comes back on a second connection, c2 and c3.             *)
(***************************************************************************)
EXTENDS RelayServer, TLC

CONSTANTS a, b, c1, c2, c3

MCPeerOf == [c \in Conns |-> IF c = c1 THEN a ELSE b]

\* The two connections of b are interchangeable.
MCSymmetry == Permutations({c2, c3})
=============================================================================
