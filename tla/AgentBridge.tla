----------------------------- MODULE AgentBridge -----------------------------
(***************************************************************************)
(* AI agents in a room: the AgentBridge that accepts an agent on a Unix    *)
(* socket, the Hello/Welcome handshake, the event loop of AgentParticipant *)
(* and the RoomManager the agent is a member of.                           *)
(*                                                                         *)
(* A session is one /invite-agent: a bridge with a socket of its own, used *)
(* by one agent. The caller that connects the parts is described by the    *)
(* docs of add_member, run and CleanupContext and not written yet: Join    *)
(* and Leave are what those docs ask of it.                                *)
(*                                                                         *)
(* A stream may deliver a line in pieces: read_line then holds its first   *)
(* part in a buffer of its own and waits for the rest.                     *)
(***************************************************************************)
EXTENDS RoomManager, FiniteSets, FiniteSetsExt

CONSTANTS
  Sessions,     \* invitations
  NoPeer,       \* "no peer id yet"
  LineKinds,    \* bound: the kinds each line of each session's agent may have
  OutboundCap,  \* capacity of outbound_tx
  InboxCap,     \* capacity of room_event_rx
  MaxInbox,     \* bound: room events offered to each session's participant
  Closing,      \* bound: the sessions whose channels the application may close
  Vanishing     \* bound: the sessions whose agent may disconnect or crash

\* What a line of an agent is: "hello", a valid Hello; "bad_hello", one of another
\* version or with no usable id; "msg", a SendMessage within the limits; "unfit", an
\* empty or oversized one; "task", one of the four about tasks; "goodbye"; "pong";
\* "junk": no AgentMessage.
AllKinds == {"hello", "bad_hello", "msg", "unfit", "task", "goodbye", "pong", "junk"}

\* Once the loop runs, these are answered, or ignored, and change nothing: a task
\* message with an error or a placeholder, as the capabilities have it.
Answered == {"hello", "bad_hello", "unfit", "task", "pong"}

\* (HeartbeatTimeout is never given.)
DisconnectReason == {"Goodbye", "BrokenPipe", "RoomClosed"}

ASSUME BridgeAssumption ==
  /\ IsFiniteSet(Sessions)
  /\ LineKinds \in [Sessions -> Seq(SUBSET AllKinds)]
  /\ MaxInbox \in [Sessions -> Nat]
  /\ Closing \subseteq Sessions
  /\ Vanishing \subseteq Sessions
  /\ OutboundCap \in Nat \ {0}
  /\ InboxCap \in Nat \ {0}
  /\ NoPeer \notin RoomPeers
  /\ Len(AgentPeers) >= Cardinality(Sessions)

VARIABLES
  pc,        \* where the session stands
  gone,      \* the agent closed its end of the socket, or crashed
  wrote,     \* the kinds of the lines the agent has written, in order
  wire,      \* the lines in the socket, by number
  reading,   \* the first of them: "none" of it read yet, "begun" (in read_line's
             \* buffer) or "torn" (its first part went with a cancelled read)
  snapshot,  \* the member list handed to perform_handshake
  id,        \* the peer id the handshake assigned
  reason,    \* why the event loop ended
  holding,   \* the line whose message waits for room in outbound_tx, or 0
  outbound,  \* the outbound channel: the lines of the messages in it
  taken,     \* the lines of the messages the application layer received
  inbox,     \* room events in room_event_rx
  offered,   \* room events sent to it so far (bounding only)
  closed     \* the application layer dropped its ends of the channels

agentVars == <<gone, wrote>>
appVars   == <<taken, offered, closed>>
bridgeVars == <<pc, agentVars, wire, reading, snapshot, id, reason, holding,
                outbound, inbox, appVars>>
vars == <<bridgeVars, roomVars>>

Pcs ==
  {"listening", "connected", "hello", "welcomed", "running", "sending", "leaving", "done"}

TypeOK ==
  /\ RoomTypeOK
  /\ pc \in [Sessions -> Pcs]
  /\ gone \in [Sessions -> BOOLEAN]
  /\ wrote \in [Sessions -> Seq(AllKinds)]
  /\ wire \in [Sessions -> Seq(Nat \ {0})]
  /\ reading \in [Sessions -> {"none", "begun", "torn"}]
  /\ snapshot \in [Sessions -> SUBSET RoomPeers]
  /\ id \in [Sessions -> Agents \cup {NoPeer}]
  /\ reason \in [Sessions -> DisconnectReason \cup {"none"}]
  /\ holding \in [Sessions -> Nat]
  /\ outbound \in [Sessions -> Seq(Nat \ {0})]
  /\ taken \in [Sessions -> Seq(Nat \ {0})]
  /\ inbox \in [Sessions -> 0..InboxCap]
  /\ offered \in [Sessions -> Nat]
  /\ closed \in [Sessions -> BOOLEAN]

Init ==
  /\ RoomInit
  /\ pc = [s \in Sessions |-> "listening"]
  /\ gone = [s \in Sessions |-> FALSE]
  /\ wrote = [s \in Sessions |-> << >>]
  /\ wire = [s \in Sessions |-> << >>]
  /\ reading = [s \in Sessions |-> "none"]
  /\ snapshot = [s \in Sessions |-> {}]
  /\ id = [s \in Sessions |-> NoPeer]
  /\ reason = [s \in Sessions |-> "none"]
  /\ holding = [s \in Sessions |-> 0]
  /\ outbound = [s \in Sessions |-> << >>]
  /\ taken = [s \in Sessions |-> << >>]
  /\ inbox = [s \in Sessions |-> 0]
  /\ offered = [s \in Sessions |-> 0]
  /\ closed = [s \in Sessions |-> FALSE]

Goto(s, place) == pc' = [pc EXCEPT ![s] = place]

\* run_event_loop returns.
End(s, why) ==
  /\ Goto(s, "leaving")
  /\ reason' = [reason EXCEPT ![s] = why]

\* make_unique_agent_peer_id: the first candidate not in the list it was given.
MakeUnique(existing) ==
  AgentPeers[Min({i \in 1..Len(AgentPeers) : AgentPeers[i] \notin existing})]

LineKind(s) == wrote[s][Head(wire[s])]

\* The stream ends: the agent is gone, and so may be the rest of its last line.
EofAhead(s) == gone[s] /\ Len(wire[s]) <= 1

-----------------------------------------------------------------------------
(* AgentBridge and the handshake *)

\* accept_connection_with_timeout: nobody came.
AcceptTimeout(s) ==
  /\ pc[s] = "listening"
  /\ Goto(s, "done")
  /\ UNCHANGED <<roomVars, agentVars, wire, reading, snapshot, id, reason, holding,
                 outbound, inbox, appVars>>

\* accept_single_connection: an agent connects. (Whoever connects later is told
\* that the place is taken, and that is all.)
Accept(s) ==
  /\ pc[s] = "listening"
  /\ Goto(s, "connected")
  /\ UNCHANGED <<roomVars, agentVars, wire, reading, snapshot, id, reason, holding,
                 outbound, inbox, appVars>>

\* The caller starts perform_handshake with the members of that moment; it refuses
\* at once when they fill the room.
StartHandshake(s) ==
  /\ pc[s] = "connected"
  /\ Goto(s, IF Full THEN "done" ELSE "hello")
  /\ snapshot' = [snapshot EXCEPT ![s] = ToSet(members)]
  /\ UNCHANGED <<roomVars, agentVars, wire, reading, id, reason, holding, outbound,
                 inbox, appVars>>

\* Mutant: the end of the stream is not an answer to the wait for Hello.
RefuseHelloAwaitsLine(s) ==
  /\ pc[s] = "hello"
  /\ wire[s] # << >> /\ LineKind(s) # "hello"
  /\ Goto(s, "done")
  /\ UNCHANGED <<roomVars, agentVars, wire, reading, snapshot, id, reason, holding,
                 outbound, inbox, appVars>>

\* The first line is no valid Hello, or never comes: answered and closed.
RefuseHello(s) ==
  /\ pc[s] = "hello"
  /\ (wire[s] # << >> /\ LineKind(s) # "hello") \/ EofAhead(s)
  /\ Goto(s, "done")
  /\ UNCHANGED <<roomVars, agentVars, wire, reading, snapshot, id, reason, holding,
                 outbound, inbox, appVars>>

\* Mutant: the peer id that was chosen is not kept.
WelcomeNoId(s) ==
  /\ pc[s] = "hello"
  /\ wire[s] # << >>
  /\ LineKind(s) = "hello"
  /\ wire' = [wire EXCEPT ![s] = Tail(@)]
  /\ snapshot' = [snapshot EXCEPT ![s] = {}]
  /\ Goto(s, "welcomed") \/ (gone[s] /\ Goto(s, "done"))
  /\ UNCHANGED <<roomVars, agentVars, reading, id, reason, holding, outbound, inbox, appVars>>

\* A valid Hello: the peer id is chosen against the snapshot and Welcome is
\* written. The write to an agent that is gone may fail or go unnoticed.
Welcome(s) ==
  /\ pc[s] = "hello"
  /\ wire[s] # << >>
  /\ LineKind(s) = "hello"
  /\ wire' = [wire EXCEPT ![s] = Tail(@)]
  /\ id' = [id EXCEPT ![s] = MakeUnique(snapshot[s])]
  /\ snapshot' = [snapshot EXCEPT ![s] = {}]
  /\ Goto(s, "welcomed") \/ (gone[s] /\ Goto(s, "done"))
  /\ UNCHANGED <<roomVars, agentVars, reading, reason, holding, outbound, inbox, appVars>>

\* The caller seats the agent, marks the participant ready and runs it; it
\* closes the connection if the room has filled up in the meantime.
Join(s) ==
  /\ pc[s] = "welcomed"
  /\ AddMember(id[s])
  /\ Goto(s, IF Full /\ ~Member(id[s]) THEN "done" ELSE "running")
  /\ UNCHANGED <<agentVars, wire, reading, snapshot, id, reason, holding, outbound,
                 inbox, appVars>>

-----------------------------------------------------------------------------
(* AgentParticipant::run *)

\* read_line consumes the first part of a line and waits for the rest.
BeginLine(s) ==
  /\ pc[s] = "running"
  /\ wire[s] # << >>
  /\ reading[s] = "none"
  /\ reading' = [reading EXCEPT ![s] = "begun"]
  /\ UNCHANGED <<roomVars, pc, agentVars, wire, snapshot, id, reason, holding, outbound,
                 inbox, appVars>>

\* Mutant: a line that does not decode is skipped.
ReadLineSkipsGarbage(s) ==
  /\ pc[s] = "running"
  /\ wire[s] # << >>
  /\ LET torn == reading[s] = "torn"
         kind == LineKind(s)
     IN
     \/ /\ ~torn /\ kind = "msg"
        /\ Goto(s, "sending")
        /\ holding' = [holding EXCEPT ![s] = Head(wire[s])]
        /\ UNCHANGED reason
     \/ ~torn /\ kind = "goodbye" /\ End(s, "Goodbye") /\ UNCHANGED holding
     \/ (torn \/ kind = "junk") /\ UNCHANGED <<pc, reason, holding>>
     \/ ~torn /\ kind \in Answered /\ UNCHANGED <<pc, reason, holding>>
  /\ wire' = [wire EXCEPT ![s] = Tail(@)]
  /\ reading' = [reading EXCEPT ![s] = "none"]
  /\ UNCHANGED <<roomVars, agentVars, snapshot, id, outbound, inbox, appVars>>

\* read_line reaches the end of the line, which is decoded: handle_agent_message.
\* What is left of a torn line is no JSON, and ends the loop as junk does.
ReadLine(s) ==
  /\ pc[s] = "running"
  /\ wire[s] # << >>
  /\ LET torn == reading[s] = "torn"
         kind == LineKind(s)
     IN
     \/ /\ ~torn /\ kind = "msg"
        /\ Goto(s, "sending")
        /\ holding' = [holding EXCEPT ![s] = Head(wire[s])]
        /\ UNCHANGED reason
     \/ ~torn /\ kind = "goodbye" /\ End(s, "Goodbye") /\ UNCHANGED holding
     \/ (torn \/ kind = "junk") /\ End(s, "BrokenPipe") /\ UNCHANGED holding
     \/ ~torn /\ kind \in Answered /\ UNCHANGED <<pc, reason, holding>>
  /\ wire' = [wire EXCEPT ![s] = Tail(@)]
  /\ reading' = [reading EXCEPT ![s] = "none"]
  /\ UNCHANGED <<roomVars, agentVars, snapshot, id, outbound, inbox, appVars>>

\* read_line returns 0 bytes, or a line that was cut short and does not decode.
ReadEof(s) ==
  /\ pc[s] = "running"
  /\ EofAhead(s)
  /\ End(s, "BrokenPipe")
  /\ UNCHANGED <<roomVars, agentVars, wire, reading, snapshot, id, holding,
                 outbound, inbox, appVars>>

\* outbound_tx.send: waits for room in the channel, and fails when the receiver
\* is gone, which is answered with room_closed and does not end the loop.
SendOutbound(s) ==
  /\ pc[s] = "sending"
  /\ \/ closed[s] /\ UNCHANGED outbound
     \/ /\ ~closed[s] /\ Len(outbound[s]) < OutboundCap
        /\ outbound' = [outbound EXCEPT ![s] = Append(@, holding[s])]
  /\ holding' = [holding EXCEPT ![s] = 0]
  /\ Goto(s, "running")
  /\ UNCHANGED <<roomVars, agentVars, wire, reading, snapshot, id, reason, inbox, appVars>>

\* select! takes the other branch: the pending read_line is dropped, with what
\* it had read, and the event is written to the agent.
ForwardEvent(s) ==
  /\ pc[s] = "running"
  /\ inbox[s] > 0
  /\ inbox' = [inbox EXCEPT ![s] = @ - 1]
  /\ reading' = [reading EXCEPT ![s] = IF @ = "begun" THEN "torn" ELSE @]
  /\ UNCHANGED <<pc, reason>> \/ (gone[s] /\ End(s, "BrokenPipe"))
  /\ UNCHANGED <<roomVars, agentVars, wire, snapshot, id, holding, outbound,
                 appVars>>

\* recv() returns None: the room is closed and its last event forwarded.
RoomClosed(s) ==
  /\ pc[s] = "running"
  /\ inbox[s] = 0 /\ closed[s]
  /\ End(s, "RoomClosed")
  /\ UNCHANGED <<roomVars, agentVars, wire, reading, snapshot, id, holding,
                 outbound, inbox, appVars>>

\* Mutant: the member is kept when the room closed.
LeaveKeepsSeat(s) ==
  /\ pc[s] = "leaving"
  /\ IF closed[s] THEN UNCHANGED roomVars ELSE RemoveMember(id[s])
  /\ Goto(s, "done")
  /\ wire' = [wire EXCEPT ![s] = << >>]
  /\ reading' = [reading EXCEPT ![s] = "none"]
  /\ inbox' = [inbox EXCEPT ![s] = 0]
  /\ UNCHANGED <<agentVars, snapshot, id, reason, holding, outbound, appVars>>

\* run() has closed the connection and returned its CleanupContext; the caller
\* removes the member it names.
Leave(s) ==
  /\ pc[s] = "leaving"
  /\ RemoveMember(id[s])
  /\ Goto(s, "done")
  /\ wire' = [wire EXCEPT ![s] = << >>]
  /\ reading' = [reading EXCEPT ![s] = "none"]
  /\ inbox' = [inbox EXCEPT ![s] = 0]
  /\ UNCHANGED <<agentVars, snapshot, id, reason, holding, outbound, appVars>>

-----------------------------------------------------------------------------
(* The agents and the application layer *)

\* The agent writes a line.
WriteLine(s, k) ==
  /\ pc[s] \notin {"listening", "done"} /\ ~gone[s]
  /\ Len(wrote[s]) < Len(LineKinds[s])
  /\ k \in LineKinds[s][Len(wrote[s]) + 1]
  /\ wrote' = [wrote EXCEPT ![s] = Append(@, k)]
  /\ wire' = [wire EXCEPT ![s] = Append(@, Len(wrote'[s]))]
  /\ UNCHANGED <<roomVars, pc, gone, reading, snapshot, id, reason, holding, outbound,
                 inbox, appVars>>

\* It disconnects or crashes.
AgentGone(s) ==
  /\ s \in Vanishing
  /\ pc[s] \notin {"listening", "done"}
  /\ ~gone[s]
  /\ gone' = [gone EXCEPT ![s] = TRUE]
  /\ UNCHANGED <<roomVars, pc, wrote, wire, reading, snapshot, id, reason, holding,
                 outbound, inbox, appVars>>

\* The application layer takes a message and fans it out.
TakeOutbound(s) ==
  /\ outbound[s] # << >>
  /\ ~closed[s]
  /\ taken' = [taken EXCEPT ![s] = Append(@, Head(outbound[s]))]
  /\ outbound' = [outbound EXCEPT ![s] = Tail(@)]
  /\ UNCHANGED <<roomVars, pc, agentVars, wire, reading, snapshot, id, reason, holding,
                 inbox, offered, closed>>

\* It offers the participant a room event.
OfferEvent(s) ==
  /\ pc[s] \in {"running", "sending"}
  /\ ~closed[s]
  /\ inbox[s] < InboxCap
  /\ offered[s] < MaxInbox[s]
  /\ offered' = [offered EXCEPT ![s] = @ + 1]
  /\ inbox' = [inbox EXCEPT ![s] = @ + 1]
  /\ UNCHANGED <<roomVars, pc, agentVars, wire, reading, snapshot, id, reason, holding,
                 outbound, taken, closed>>

\* The room is deleted or the application shuts down.
CloseRoom(s) ==
  /\ s \in Closing
  /\ pc[s] \in {"running", "sending"}
  /\ ~closed[s]
  /\ closed' = [closed EXCEPT ![s] = TRUE]
  /\ outbound' = [outbound EXCEPT ![s] = << >>]
  /\ UNCHANGED <<roomVars, pc, agentVars, wire, reading, snapshot, id, reason, holding,
                 inbox, taken, offered>>

-----------------------------------------------------------------------------

Handshake(s) ==
  \/ AcceptTimeout(s) \/ Accept(s) \/ StartHandshake(s)
  \/ RefuseHello(s) \/ Welcome(s) \/ Join(s)

Participant(s) ==
  \/ BeginLine(s) \/ ReadLine(s) \/ ReadEof(s) \/ SendOutbound(s)
  \/ ForwardEvent(s) \/ RoomClosed(s) \/ Leave(s)

Environment(s) ==
  \/ \E k \in AllKinds : WriteLine(s, k)
  \/ AgentGone(s)
  \/ TakeOutbound(s) \/ OfferEvent(s) \/ CloseRoom(s)

Next ==
  \/ \E s \in Sessions : Handshake(s) \/ Participant(s) \/ Environment(s)
  \/ RoomNext /\ UNCHANGED bridgeVars

Spec == Init /\ [][Next]_vars

\* The runtime runs the session's task and the caller's clean-up, and the
\* application layer takes what is in the outbound channel. Nothing is assumed
\* of the agent, nor of select!: it may never prefer one of two ready branches.
Fairness ==
  \A s \in Sessions :
    /\ WF_vars(StartHandshake(s) \/ RefuseHello(s) \/ Welcome(s) \/ Join(s)
                \/ Participant(s))
    /\ WF_vars(TakeOutbound(s))

FairSpec == Spec /\ Fairness

-----------------------------------------------------------------------------
(* Properties *)

\* The messages the agent has written, in order, before it said goodbye.
Said(s) ==
  LET lines == 1..Len(wrote[s])
  IN Picked([i \in lines |-> i],
            {i \in lines : /\ wrote[s][i] = "msg"
                           /\ \A j \in 1..i : wrote[s][j] # "goodbye"})

\* handle_send_message and the cancelled reads: what reaches the application
\* layer is a prefix of what the agent said. A message is lost only when the
\* session ends with it; none is lost in between, doubled or overtaken, and none
\* at all if the session ended with a Goodbye.
ForwardedInOrder ==
  \A s \in Sessions :
    LET queued == taken[s] \o outbound[s]
        held   == IF holding[s] = 0 THEN << >> ELSE <<holding[s]>>
    IN ~closed[s] => /\ IsPrefix(queued \o held, Said(s))
                     /\ reason[s] = "Goodbye" => queued = Said(s)

\* CleanupContext and UC-007 failure postcondition 2: an agent in the member list
\* has a session that serves it or is about to remove it, whatever ended the
\* session and whoever left meanwhile.
NoGhostAgent ==
  \A p \in Agents :
    Member(p) => \E s \in Sessions :
                   id[s] = p /\ pc[s] \in {"running", "sending", "leaving"}

\* UC-007 failure postcondition 3: the session of an agent that is gone ends and
\* frees its place, whatever it was doing.
DepartedAgentLeaves ==
  \A s \in Sessions : gone[s] ~> pc[s] = "done"
=============================================================================
