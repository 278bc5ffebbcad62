----------------------------- MODULE RoomManager -----------------------------
(***************************************************************************)
(* The RoomManager of the peer that administers a room: its member list,   *)
(* the queue of join requests that wait for the administrator's decision,  *)
(* and the bounded channel of RoomEvents that tells the application layer  *)
(* what changed.                                                           *)
(*                                                                         *)
(* Every method takes &mut self and awaits nothing, so each is one action. *)
(* RoomManager is not yet wired into the client: its callers are the       *)
(* commands the user gives and the agent bridge, in whatever order.        *)
(***************************************************************************)
EXTENDS Naturals, Sequences, SequencesExt, Queues

CONSTANTS
  Admin,        \* the peer that created the room
  Joiners,      \* the peers that ask to join
  AgentPeers,   \* agent:<id>, agent:<id>-2, ... in the order they are tried
  MaxMembers,   \* MAX_MEMBERS
  EventCap,     \* capacity of the RoomEvent channel
  MaxRequests   \* bound: join requests that wait at a time

Agents == {AgentPeers[i] : i \in 1..Len(AgentPeers)}
RoomPeers == {Admin} \cup Joiners \cup Agents

ASSUME RoomAssumption ==
  /\ AgentPeers \in Seq(Agents)
  /\ IsInjective(AgentPeers)
  /\ Admin \notin Joiners \cup Agents
  /\ Joiners \cap Agents = {}
  /\ MaxMembers \in Nat \ {0}
  /\ EventCap \in Nat \ {0}
  /\ MaxRequests \in Nat

RoomEvent == [kind : {"request", "joined", "denied", "left"}, peer : RoomPeers]

VARIABLES
  members,    \* Room::members
  requests,   \* RoomManager::pending_join_requests of the room
  events,     \* the RoomEvent channel
  missed,     \* an event was dropped because the channel was full
  shown       \* the member list the consumer of the channel has built from it,
              \* as long as it missed nothing

roomVars == <<members, requests, events, missed, shown>>

RoomTypeOK ==
  /\ members \in Seq(RoomPeers)
  /\ requests \in Seq(RoomPeers)
  /\ events \in Seq(RoomEvent)
  /\ missed \in BOOLEAN
  /\ shown \in Seq(RoomPeers)

\* create_room: the creator is the administrator and the only member.
RoomInit ==
  /\ members = <<Admin>>
  /\ requests = << >>
  /\ events = << >>
  /\ missed = FALSE
  /\ shown = <<Admin>>

-----------------------------------------------------------------------------

Member(p) == Contains(members, p)
Full == Len(members) >= MaxMembers

\* try_send: an event that finds the channel full is dropped.
Emit(kind, p) ==
  \/ /\ Len(events) < EventCap
     /\ events' = Append(events, [kind |-> kind, peer |-> p])
     /\ UNCHANGED <<missed, shown>>
  \/ /\ Len(events) = EventCap
     /\ missed' = TRUE
     /\ shown' = << >>
     /\ UNCHANGED events

\* Seats p at the end of the list and reports it.
Seat(p) ==
  /\ members' = Append(members, p)
  /\ Emit("joined", p)

\* handle_join_request: queued whether or not p waits or is a member already.
HandleJoinRequest(p) ==
  /\ Len(requests) < MaxRequests
  /\ requests' = Append(requests, p)
  /\ Emit("request", p)
  /\ UNCHANGED members

\* Mutant: the seats are not counted on approval.
ApproveJoinUncapped(p) ==
  /\ ~Member(p)
  /\ Seat(p)
  /\ requests' = Retain(requests, p)

\* approve_join. Approving a member, or anybody when the room is full, changes
\* nothing; otherwise every request of p is answered, if it made one at all.
ApproveJoin(p) ==
  /\ ~Member(p)
  /\ ~Full
  /\ Seat(p)
  /\ requests' = Retain(requests, p)

\* deny_join: the first request of p goes, if any; the denial is reported anyway.
DenyJoin(p) ==
  /\ requests' = RemoveFirst(requests, p)
  /\ Emit("denied", p)
  /\ UNCHANGED members

\* Mutant: the event comes before the check that p is a member already.
AddMemberReportsTwice(p) ==
  /\ \/ Full /\ UNCHANGED <<members, events, missed, shown>>
     \/ ~Full /\ Member(p) /\ Emit("joined", p) /\ UNCHANGED members
     \/ ~Full /\ ~Member(p) /\ Seat(p)
  /\ UNCHANGED requests

\* add_member: nothing for a member, an error when the room is full.
AddMember(p) ==
  /\ \/ (Member(p) \/ Full) /\ UNCHANGED <<members, events, missed, shown>>
     \/ ~Member(p) /\ ~Full /\ Seat(p)
  /\ UNCHANGED requests

\* remove_member: an error for a peer that is no member.
RemoveMember(p) ==
  /\ \/ ~Member(p) /\ UNCHANGED <<members, events, missed, shown>>
     \/ /\ Member(p)
        /\ members' = RemoveFirst(members, p)
        /\ Emit("left", p)
  /\ UNCHANGED requests

\* What a consumer of the channel does to its member list.
Shown(list, e) ==
  CASE e.kind = "joined" -> Append(list, e.peer)
    [] e.kind = "left"   -> RemoveFirst(list, e.peer)
    [] OTHER             -> list

\* The application layer takes an event from the channel.
TakeEvent ==
  /\ events # << >>
  /\ shown' = IF missed THEN shown ELSE Shown(shown, Head(events))
  /\ events' = Tail(events)
  /\ UNCHANGED <<members, requests, missed>>

RoomNext ==
  \/ \E p \in Joiners : HandleJoinRequest(p) \/ ApproveJoin(p) \/ DenyJoin(p)
  \/ TakeEvent

-----------------------------------------------------------------------------
(* Properties *)

\* create_room, approve_join, add_member, remove_member: whatever the order of
\* approvals, invitations and departures, each peer has one seat, the room is
\* never over its capacity and the administrator stays.
OneSeatEach ==
  /\ IsInjective(members)
  /\ Len(members) <= MaxMembers
  /\ Member(Admin)

\* The member lists the consumer goes through as it takes the events that wait.
Told[i \in 0..Len(events)] ==
  IF i = 0 THEN shown ELSE Shown(Told[i - 1], events[i])

\* The RoomEvents tell the whole story: applied to the consumer's list, what
\* waits in the channel yields the member list, order included, unless an
\* event was dropped.
EventsTellMembers == ~missed => Told[Len(events)] = members
=============================================================================
