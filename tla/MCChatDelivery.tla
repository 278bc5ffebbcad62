---- MODULE MCChatDelivery ----
(* Two peers; alice writes two messages, bob one. *)
EXTENDS ChatDelivery, TLC

CONSTANTS alice, bob, m1, m2, m3

MCPeers == {alice, bob}
MCOther == (alice :> bob) @@ (bob :> alice)
MCAuthor == [m \in MessageIds |-> IF m = m3 THEN bob ELSE alice]
====
