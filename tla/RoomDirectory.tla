---------------------------- MODULE RoomDirectory ----------------------------
(***************************************************************************)
(* Rooms between their creators, the relay's directory and the peers that  *)
(* want to join: RoomManager's creation of rooms and its queue of          *)
(* registrations at each client, the room frames on the connections, the   *)
(* relay's handling of them (RoomRegistry, routing, store-and-forward) and *)
(* the decision on a join request at the room's creator.                   *)
(*                                                                         *)
(* RelayServer has the tasks of a connection; here a connection is a pair  *)
(* of queues. RoomManager has the members of one room; here a seat is what *)
(* a granted request comes to. A room's id is its place in the sequence of *)
(* rooms, as a UUID is used once. No code calls RoomManager yet: clients   *)
(* here call it in any order, each for itself.                             *)
(***************************************************************************)
EXTENDS Naturals, Sequences, FiniteSets, Functions, SequencesExt, Queues

CONSTANTS
  Peers,
  RawNames,     \* what a user may type as a name
  Sanitize,     \* validate_room_name: the name it makes of it, or Invalid
  Invalid,
  Lower,        \* to_lowercase of a valid name
  MaxRooms,     \* bound: rooms created
  LocalCap,     \* MAX_ROOMS
  SeatCap,      \* MAX_MEMBERS
  DirectoryCap, \* MAX_REGISTRY_ROOMS
  QueueCap,     \* MessageStore: frames kept for an absent peer
  MaxFrames,    \* bound: frames sent by the clients
  MaxFaults     \* bound: connections that break, and restarts of the relay

RoomNames == {Sanitize[n] : n \in RawNames} \ {Invalid}
Ids == 1..MaxRooms

ASSUME DirectoryAssumption ==
  /\ DOMAIN Sanitize = RawNames
  /\ DOMAIN Lower = RoomNames
  /\ {MaxRooms, LocalCap, SeatCap, DirectoryCap, QueueCap, MaxFrames, MaxFaults} \subseteq Nat
  /\ MaxRooms # 0

\* room, and the peer a frame is about: the requester or the peer answered.
ClientKinds == {"register", "unregister", "list", "join", "approved", "denied"}
Frame == [kind : ClientKinds \cup {"confirmed", "error"}, room : Ids, peer : Peers]
           \cup [kind : {"listing"}, rooms : SUBSET Ids]
           \cup [kind : {"opaque"}, room : Ids, peer : Peers]

VARIABLES
  rooms,      \* the rooms created: owner and name
  unsent,     \* RoomManager::pending_registrations of each peer
  requests,   \* pending_join_requests of each room
  seated,     \* the peers that were let in, for each room
  link,       \* "off"; "on"; "stale": registered, its channel is closed
  up, down,   \* frames on the way to the relay, and to the peer
  store,      \* the relay's queue for each peer
  directory,  \* RoomRegistry::rooms
  known,      \* the rooms the last listing told a peer of
  asked,      \* <<peer, room>>: asked to join, and not answered since
  unread,     \* <<peer, room>>: a frame about that request came as a payload
  hit,        \* <<peer, room>>: a frame about that request was on a connection that
              \* broke, in a full queue or in a relay that stopped
  frames, faults

clientVars == <<rooms, unsent, requests, seated>>
wireVars == <<link, up, down, store>>
peerVars == <<known, asked, unread>>
bounds == <<frames, faults>>
vars == <<clientVars, wireVars, directory, peerVars, hit, bounds>>

Entry == [name : RoomNames, admin : Peers]

TypeOK ==
  /\ rooms \in Seq([owner : Peers, name : RoomNames]) /\ Len(rooms) <= MaxRooms
  /\ unsent \in [Peers -> Seq(Ids)]
  /\ requests \in [Ids -> Seq(Peers)] /\ seated \in [Ids -> SUBSET Peers]
  /\ link \in [Peers -> {"off", "on", "stale"}]
  /\ up \in [Peers -> Seq(Frame)] /\ down \in [Peers -> Seq(Frame)]
  /\ store \in [Peers -> Seq(Frame)]
  /\ \A p \in Peers : Len(store[p]) <= QueueCap
  /\ DOMAIN directory \subseteq Ids /\ Range(directory) \subseteq Entry
  /\ Cardinality(DOMAIN directory) <= DirectoryCap
  /\ known \in [Peers -> SUBSET Ids]
  /\ {asked, unread, hit} \subseteq SUBSET (Peers \X Ids)
  /\ frames \in 0..MaxFrames /\ faults \in 0..MaxFaults

Init ==
  /\ rooms = << >>
  /\ unsent = [p \in Peers |-> << >>]
  /\ requests = [i \in Ids |-> << >>] /\ seated = [i \in Ids |-> {}]
  /\ link = [p \in Peers |-> "off"]
  /\ up = [p \in Peers |-> << >>] /\ down = [p \in Peers |-> << >>]
  /\ store = [p \in Peers |-> << >>]
  /\ directory = << >>
  /\ known = [p \in Peers |-> {}] /\ asked = {} /\ unread = {} /\ hit = {}
  /\ frames = 0 /\ faults = 0

OwnRooms(p) == {i \in DOMAIN rooms : rooms[i].owner = p}

-----------------------------------------------------------------------------
(* The clients *)

SendFrames(p, list) ==
  /\ link[p] = "on"
  /\ frames + Len(list) <= MaxFrames
  /\ frames' = frames + Len(list)
  /\ up' = [up EXCEPT ![p] = @ \o list]
  /\ UNCHANGED <<link, down, store, faults>>

SendFrame(p, k, i, q) == SendFrames(p, <<[kind |-> k, room |-> i, peer |-> q]>>)

\* create_room: a valid name no other room of this client has, if there is room.
CreateRoom(p, raw) ==
  /\ Len(rooms) < MaxRooms
  /\ Sanitize[raw] # Invalid
  /\ \A i \in OwnRooms(p) : rooms[i].name # Sanitize[raw]
  /\ Cardinality(OwnRooms(p)) < LocalCap
  /\ rooms' = Append(rooms, [owner |-> p, name |-> Sanitize[raw]])
  /\ seated' = [seated EXCEPT ![Len(rooms')] = {p}]
  /\ UNCHANGED <<unsent, requests, wireVars, directory, peerVars, hit, bounds>>

\* queue_registration, for a room that waits for the connection.
QueueRegistration(p, i) ==
  /\ i \in OwnRooms(p) /\ link[p] = "off"
  /\ ~Contains(unsent[p], i)
  /\ unsent' = [unsent EXCEPT ![p] = Append(@, i)]
  /\ UNCHANGED <<rooms, requests, seated, wireVars, directory, peerVars, hit, bounds>>

\* drain_pending_registrations, and the RegisterRoom messages it returns are sent.
DrainRegistrations(p) ==
  /\ unsent[p] # << >>
  /\ SendFrames(p, [n \in DOMAIN unsent[p] |->
                      [kind |-> "register", room |-> unsent[p][n], peer |-> p]])
  /\ unsent' = [unsent EXCEPT ![p] = << >>]
  /\ UNCHANGED <<rooms, requests, seated, directory, peerVars, hit>>

\* A creator takes its room out of the directory, any peer asks for the list.
Unregister(p, i) ==
  /\ i \in OwnRooms(p)
  /\ SendFrame(p, "unregister", i, p)
  /\ UNCHANGED <<clientVars, directory, peerVars, hit>>

ListRooms(p) ==
  /\ SendFrames(p, <<[kind |-> "list", room |-> 1, peer |-> p]>>)
  /\ UNCHANGED <<clientVars, directory, peerVars, hit>>

\* Asks to join a room of the last listing.
AskToJoin(p, i) ==
  /\ i \in known[p] /\ rooms[i].owner # p
  /\ <<p, i>> \notin asked
  /\ SendFrame(p, "join", i, p)
  /\ asked' = asked \cup {<<p, i>>}
  /\ UNCHANGED <<clientVars, directory, known, unread, hit>>

\* approve_join of any peer, waiting or not, and the answer to it. A member is
\* approved again and what it asked stays; RoomFull is an error and not answered.
Approve(p, i, q) ==
  /\ i \in OwnRooms(p)
  /\ \/ q \in seated[i] /\ UNCHANGED <<requests, seated>>
     \/ /\ q \notin seated[i] /\ Cardinality(seated[i]) < SeatCap
        /\ seated' = [seated EXCEPT ![i] = @ \cup {q}]
        /\ requests' = [requests EXCEPT ![i] = Retain(@, q)]
  /\ SendFrame(p, "approved", i, q)
  /\ UNCHANGED <<rooms, unsent, directory, peerVars, hit>>

\* deny_join of any peer: its first request goes, if it made one.
Deny(p, i, q) ==
  /\ i \in OwnRooms(p)
  /\ requests' = [requests EXCEPT ![i] = RemoveFirst(@, q)]
  /\ SendFrame(p, "denied", i, q)
  /\ UNCHANGED <<rooms, unsent, seated, directory, peerVars, hit>>

\* What a peer does with the next frame it gets. A frame that was stored comes
\* as the payload of a RelayPayload; no envelope can be decoded from it.
ReadFrame(p) ==
  /\ link[p] = "on" /\ down[p] # << >>
  /\ down' = [down EXCEPT ![p] = Tail(@)]
  /\ LET f == Head(down[p]) IN
     /\ requests' = IF f.kind = "join"   \* handle_join_request
                    THEN [requests EXCEPT ![f.room] = Append(@, f.peer)] ELSE requests
     /\ known' = IF f.kind = "listing" THEN [known EXCEPT ![p] = f.rooms] ELSE known
     /\ unread' = IF f.kind = "opaque" THEN unread \cup {<<f.peer, f.room>>} ELSE unread
     /\ asked' = IF f.kind \in {"approved", "denied", "error"}
                 THEN asked \ {<<p, f.room>>} ELSE asked
  /\ UNCHANGED <<rooms, unsent, seated, link, up, store, directory, hit, bounds>>

-----------------------------------------------------------------------------
(* Connections *)

\* The requests the frames of s are about.
Requests(s) == {<<s[n].peer, s[n].room>> :
                  n \in {m \in DOMAIN s : s[m].kind \notin {"list", "listing"}}}

Opaque(f) == [kind |-> "opaque", room |-> f.room, peer |-> f.peer]

\* A peer connects: what was stored is delivered, as payloads.
Connect(p) ==
  /\ link[p] = "off"
  /\ link' = [link EXCEPT ![p] = "on"]
  /\ down' = [down EXCEPT ![p] = [n \in DOMAIN store[p] |-> Opaque(store[p][n])]]
  /\ store' = [store EXCEPT ![p] = << >>]
  /\ UNCHANGED <<clientVars, up, directory, peerVars, hit, bounds>>

\* Its connection breaks, and what is on it is lost; then the relay notices.
LinkBreaks(p) ==
  /\ \/ link[p] = "on" /\ faults < MaxFaults
        /\ link' = [link EXCEPT ![p] = "stale"] /\ faults' = faults + 1
     \/ link[p] = "stale" /\ link' = [link EXCEPT ![p] = "off"] /\ UNCHANGED faults
  /\ up' = [up EXCEPT ![p] = << >>] /\ down' = [down EXCEPT ![p] = << >>]
  /\ hit' = hit \cup Requests(up[p]) \cup Requests(down[p])
  /\ UNCHANGED <<clientVars, store, directory, peerVars, frames>>

\* The relay restarts: it has nothing on disk.
RelayRestarts ==
  /\ faults < MaxFaults
  /\ faults' = faults + 1
  /\ link' = [p \in Peers |-> "off"]
  /\ up' = [p \in Peers |-> << >>] /\ down' = [p \in Peers |-> << >>]
  /\ store' = [p \in Peers |-> << >>]
  /\ directory' = << >>
  /\ hit' = asked
  /\ UNCHANGED <<clientVars, peerVars, frames>>

-----------------------------------------------------------------------------
(* The relay: handle_room_message *)

\* Mutant: names are compared as they are written.
NameTakenAsWritten(i, name) ==
  \E j \in DOMAIN directory : j # i /\ directory[j].name = name

NameTaken(i, name) ==
  \E j \in DOMAIN directory : j # i /\ Lower[directory[j].name] = Lower[name]

\* RoomRegistry::register refuses, because of the capacity or of the name.
Refused(i, name) ==
  \/ Cardinality(DOMAIN directory) >= DirectoryCap /\ i \notin DOMAIN directory
  \/ NameTaken(i, name)

\* f goes to p, if the channel of p is open.
Deliver(p, f) ==
  \/ link[p] = "on" /\ down' = [down EXCEPT ![p] = Append(@, f)] /\ UNCHANGED hit
  \/ link[p] # "on" /\ hit' = hit \cup Requests(<<f>>) /\ UNCHANGED down

\* Mutant: the cap is tested before the push.
StoreLate(p, f) ==
  /\ store' = [store EXCEPT ![p] = LET q == Append(@, f) IN
                                   IF Len(@) > QueueCap THEN Tail(q) ELSE q]
  /\ UNCHANGED hit

\* MessageStore::enqueue: the oldest frame goes when the cap is passed.
Store(p, f) ==
  LET q == Append(store[p], f) IN
  \/ /\ Len(q) <= QueueCap
     /\ store' = [store EXCEPT ![p] = q]
     /\ UNCHANGED hit
  \/ /\ Len(q) > QueueCap
     /\ store' = [store EXCEPT ![p] = Tail(q)]
     /\ hit' = hit \cup Requests(SubSeq(q, 1, 1))

RegisterRoom(p, f) ==
  LET name == rooms[f.room].name IN
  /\ \/ /\ Refused(f.room, name)
        /\ Deliver(p, [f EXCEPT !.kind = "error"])
        /\ UNCHANGED directory
     \/ /\ ~Refused(f.room, name)
        /\ Deliver(p, [f EXCEPT !.kind = "confirmed"])
        /\ directory' = [i \in DOMAIN directory \cup {f.room} |->
                           IF i = f.room THEN [name |-> name, admin |-> f.peer]
                                         ELSE directory[i]]
  /\ UNCHANGED <<link, store>>

UnregisterRoom(f) ==
  /\ directory' = [i \in DOMAIN directory \ {f.room} |-> directory[i]]
  /\ UNCHANGED <<link, down, store, hit>>

RoomList(p) ==
  /\ Deliver(p, [kind |-> "listing", rooms |-> DOMAIN directory])
  /\ UNCHANGED <<link, store, directory>>

\* route_join_request: to the administrator the directory names, ignoring a
\* failed send, or into its queue; RoomNotFound is answered with an Error.
RouteJoinRequest(p, f) ==
  /\ \/ /\ f.room \notin DOMAIN directory
        /\ Deliver(p, [f EXCEPT !.kind = "error"])
        /\ UNCHANGED store
     \/ /\ f.room \in DOMAIN directory
        /\ LET a == directory[f.room].admin IN
           \/ link[a] = "off" /\ Store(a, f) /\ UNCHANGED down
           \/ link[a] # "off" /\ Deliver(a, f) /\ UNCHANGED store
  /\ UNCHANGED <<link, directory>>

\* Mutant: the answer to a peer whose channel is closed is dropped.
RouteRoomToPeerLossy(f) ==
  /\ \/ link[f.peer] = "on" /\ Deliver(f.peer, f) /\ UNCHANGED store
     \/ link[f.peer] = "stale" /\ UNCHANGED <<store, down, hit>>
     \/ link[f.peer] = "off" /\ Store(f.peer, f) /\ UNCHANGED down
  /\ link' = [link EXCEPT ![f.peer] = IF @ = "stale" THEN "off" ELSE @]
  /\ UNCHANGED directory

\* route_room_to_peer: an answer, to the peer it is for; if that is absent, or
\* turns out to be and is unregistered, into its queue.
RouteRoomToPeer(f) ==
  /\ \/ link[f.peer] = "on" /\ Deliver(f.peer, f) /\ UNCHANGED store
     \/ link[f.peer] # "on" /\ Store(f.peer, f) /\ UNCHANGED down
  /\ link' = [link EXCEPT ![f.peer] = IF @ = "stale" THEN "off" ELSE @]
  /\ UNCHANGED directory

\* The next room frame of p.
HandleRoomMessage(p) ==
  /\ up[p] # << >>
  /\ up' = [up EXCEPT ![p] = Tail(@)]
  /\ LET f == Head(up[p]) IN
     \/ f.kind = "register" /\ RegisterRoom(p, f)
     \/ f.kind = "unregister" /\ UnregisterRoom(f)
     \/ f.kind = "list" /\ RoomList(p)
     \/ f.kind = "join" /\ RouteJoinRequest(p, f)
     \/ f.kind \in {"approved", "denied"} /\ RouteRoomToPeer(f)
  /\ UNCHANGED <<clientVars, peerVars, bounds>>

-----------------------------------------------------------------------------

Client(p) ==
  \/ \E n \in RawNames : CreateRoom(p, n)
  \/ \E i \in DOMAIN rooms :
       \/ QueueRegistration(p, i) \/ Unregister(p, i) \/ AskToJoin(p, i)
       \/ \E q \in Peers \ {p} : Approve(p, i, q) \/ Deny(p, i, q)
  \/ DrainRegistrations(p) \/ ListRooms(p) \/ ReadFrame(p)

Next ==
  \/ \E p \in Peers : Client(p) \/ Connect(p) \/ LinkBreaks(p) \/ HandleRoomMessage(p)
  \/ RelayRestarts

Spec == Init /\ [][Next]_vars

-----------------------------------------------------------------------------
(* Properties *)

\* RoomRegistry: whatever the order of registrations, withdrawals and restarts,
\* two listed rooms never have the same name but for case, and an entry leads to
\* the peer that created the room.
DirectoryIsTrue ==
  /\ \A i, j \in DOMAIN directory :
       Lower[directory[i].name] = Lower[directory[j].name] => i = j
  /\ \A i \in DOMAIN directory :
       /\ i \in DOMAIN rooms
       /\ directory[i] = [name |-> rooms[i].name, admin |-> rooms[i].owner]

\* A frame about the request of p for room i is in s.
About(s, p, i, kinds) ==
  \E n \in DOMAIN s : s[n].kind \in kinds /\ s[n].room = i /\ s[n].peer = p

\* route_join_request, approve_join, deny_join, route_room_to_peer: unless a
\* connection with a frame about it broke, a queue was full or the relay stopped,
\* a request to join is on its way to the creator, waits for the decision, or the
\* answer is on its way, whoever came, went and withdrew the room in between. (A
\* frame that had to be stored arrives in a form its receiver cannot decode.)
RequestsAreKept ==
  \A r \in asked \ (hit \cup unread) :
    LET p == r[1]  i == r[2]  a == rooms[i].owner
        answers == {"approved", "denied", "error"}
    IN \/ About(up[p], p, i, {"join"})
       \/ About(down[a] \o store[a], p, i, {"join", "opaque"})
       \/ Contains(requests[i], p)
       \/ About(up[a], p, i, answers)
       \/ About(down[p] \o store[p], p, i, answers \cup {"opaque"})
=============================================================================
