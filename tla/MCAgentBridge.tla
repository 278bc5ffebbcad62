--------------------------- MODULE MCAgentBridge ---------------------------
(***************************************************************************)
(* Two invited agents with the same agent_id: the first talks and may      *)
(* vanish in the middle of a line; the other may fail the handshake, and   *)
(* the room may close under it.                                            *)
(***************************************************************************)
EXTENDS AgentBridge

CONSTANTS s1, s2, claude, claude2

MCAgentPeers == <<claude, claude2>>
MCLineKinds ==
  [s \in Sessions |->
     IF s = s1 THEN << {"hello"}, {"msg"}, {"msg", "task", "goodbye"} >>
               ELSE << {"hello", "junk"} >>]
MCMaxInbox == [s \in Sessions |-> IF s = s1 THEN 1 ELSE 0]
=============================================================================
