------------------------- MODULE RoomDirectoryProofs -------------------------
(***************************************************************************)
(* Proofs about RoomDirectory, for any peers, names and bounds: the types, *)
(* that the relay's directory tells the truth, and that no request to join *)
(* is lost. A request leaves a trace from the peer that asked to the       *)
(* creator and back (Trace); the invariant says which frames can be where, *)
(* so that each step hands the trace on to the next place.                 *)
(***************************************************************************)
EXTENDS RoomDirectory, SequenceLemmas, SequenceTheorems, FiniteSetTheorems, TLAPS

RoomKinds == ClientKinds \cup {"confirmed", "error"}

Answers == {"approved", "denied", "error"}

Owner(i) == rooms[i].owner

\* A client registers rooms of its own.
OwnQueues == \A p \in Peers : Elems(unsent[p]) \subseteq OwnRooms(p)

\* What a client sends; it registers its own rooms, in its own name.
SentShape ==
  \A p \in Peers : \A f \in Elems(up[p]) :
    /\ f.kind \in ClientKinds
    /\ f.kind = "register" => f.room \in OwnRooms(p) /\ f.peer = p

\* The relay stores requests and the decisions on them, nothing else.
StoredShape ==
  \A p \in Peers : \A f \in Elems(store[p]) : f.kind \in {"join", "approved", "denied"}

\* There is nothing on the way to a peer without a connection.
ClosedIsEmpty == \A p \in Peers : link[p] # "on" => down[p] = << >>

\* A request is for a room that exists.
AskedShape == \A r \in asked : r[2] \in DOMAIN rooms

-----------------------------------------------------------------------------
(* Frames *)

LEMMA FrameFields ==
  ASSUME NEW f \in Frame
  PROVE  /\ f.kind \in RoomKinds \cup {"listing", "opaque"}
         /\ f.kind # "listing" => f.room \in Ids /\ f.peer \in Peers
         /\ f.kind = "listing" => f.rooms \in SUBSET Ids
  BY DEF Frame, RoomKinds, ClientKinds

LEMMA FrameMade ==
  ASSUME NEW k \in RoomKinds \cup {"opaque"}, NEW i \in Ids, NEW q \in Peers
  PROVE  [kind |-> k, room |-> i, peer |-> q] \in Frame
  BY DEF Frame, RoomKinds

LEMMA FrameRenamed ==
  ASSUME NEW f \in Frame, f.kind \in ClientKinds, NEW k \in RoomKinds
  PROVE  /\ [f EXCEPT !.kind = k] \in Frame
         /\ [f EXCEPT !.kind = k].kind = k
         /\ [f EXCEPT !.kind = k].room = f.room
         /\ [f EXCEPT !.kind = k].peer = f.peer
  BY DEF Frame, RoomKinds, ClientKinds

\* A frame is about a request unless it is a list, or asks for one.
IsAbout(f) == f.kind \notin {"list", "listing"}

LEMMA RequestsOf ==
  ASSUME NEW s \in Seq(Frame)
  PROVE  /\ Requests(s) \in SUBSET (Peers \X Ids)
         /\ \A f \in Elems(s) : IsAbout(f) => <<f.peer, f.room>> \in Requests(s)
<1>1. \A n \in 1..Len(s) : s[n] \in Frame
  BY ElementOfSeq
<1>2. DOMAIN s = 1..Len(s)
  BY LenProperties
<1>3. \A n \in 1..Len(s) : IsAbout(s[n]) => s[n].peer \in Peers /\ s[n].room \in Ids
  BY <1>1, FrameFields DEF IsAbout
<1> QED
  BY <1>2, <1>3 DEF Requests, Elems, IsAbout

LEMMA RoomIds ==
  ASSUME TypeOK
  PROVE  /\ DOMAIN rooms = 1..Len(rooms) /\ DOMAIN rooms \subseteq Ids
         /\ \A i \in DOMAIN rooms : rooms[i].owner \in Peers /\ rooms[i].name \in RoomNames
<1>1. rooms \in Seq([owner : Peers, name : RoomNames]) /\ Len(rooms) <= MaxRooms
  BY DEF TypeOK
<1>2. DOMAIN rooms = 1..Len(rooms) /\ Len(rooms) \in Nat
  BY <1>1, LenProperties
<1>3. \A i \in 1..Len(rooms) : rooms[i] \in [owner : Peers, name : RoomNames]
  BY <1>1, ElementOfSeq
<1> QED
  BY <1>1, <1>2, <1>3, DirectoryAssumption DEF Ids

-----------------------------------------------------------------------------
(* What a step does to the queues *)

\* Frames are sent.
LEMMA SendMoves ==
  ASSUME TypeOK, NEW p \in Peers, NEW list \in Seq(Frame), SendFrames(p, list)
  PROVE  /\ up' \in [Peers -> Seq(Frame)] /\ frames' \in 0..MaxFrames
         /\ Elems(up'[p]) = Elems(up[p]) \cup Elems(list)
         /\ \A q \in Peers : q # p => up'[q] = up[q]
         /\ link[p] = "on"
<1>1. up \in [Peers -> Seq(Frame)] /\ frames \in 0..MaxFrames
  BY DEF TypeOK
<1>2. Len(list) \in Nat
  BY LenProperties
<1>3. up[p] \in Seq(Frame)
  BY <1>1
<1> DEFINE q == up[p] \o list
<1>4. q \in Seq(Frame) /\ Elems(q) = Elems(up[p]) \cup Elems(list)
  BY <1>3, ConcatElems
<1>5. up' = [up EXCEPT ![p] = q]
  BY DEF SendFrames
<1> HIDE DEF q
<1>6. up' \in [Peers -> Seq(Frame)] /\ up'[p] = q /\ \A z \in Peers : z # p => up'[z] = up[z]
  BY <1>1, <1>4, <1>5
<1>7. frames' \in 0..MaxFrames
  BY <1>1, <1>2, DirectoryAssumption DEF SendFrames
<1> QED
  BY <1>4, <1>6, <1>7 DEF SendFrames

LEMMA OneElem ==
  ASSUME NEW S, NEW e \in S
  PROVE  <<e>> \in Seq(S) /\ Elems(<<e>>) = {e}
<1> DEFINE s == <<e>>
<1>1. s \in Seq(S) /\ Len(s) = 1 /\ s[1] = e
  OBVIOUS
<1> HIDE DEF s
<1>2. Elems(s) = {e}
  BY <1>1 DEF Elems
<1> QED
  BY <1>1, <1>2 DEF s

LEMMA SendOneMoves ==
  ASSUME TypeOK, NEW p \in Peers, NEW k \in RoomKinds, NEW i \in Ids, NEW q \in Peers,
         SendFrame(p, k, i, q)
  PROVE  /\ up' \in [Peers -> Seq(Frame)] /\ frames' \in 0..MaxFrames
         /\ Elems(up'[p]) = Elems(up[p]) \cup {[kind |-> k, room |-> i, peer |-> q]}
         /\ \A z \in Peers : z # p => up'[z] = up[z]
         /\ link[p] = "on" /\ UNCHANGED <<link, down, store, faults>>
<1> DEFINE f == [kind |-> k, room |-> i, peer |-> q]
           list == <<f>>
<1>1. f \in Frame
  BY FrameMade
<1>2. SendFrames(p, list)
  BY DEF SendFrame
<1>3. UNCHANGED <<link, down, store, faults>>
  BY <1>2 DEF SendFrames
<1> HIDE DEF f
<1>4. list \in Seq(Frame) /\ Elems(list) = {f}
  BY <1>1, OneElem
<1> HIDE DEF list
<1>5. /\ up' \in [Peers -> Seq(Frame)] /\ frames' \in 0..MaxFrames
      /\ Elems(up'[p]) = Elems(up[p]) \cup Elems(list)
      /\ \A z \in Peers : z # p => up'[z] = up[z]
      /\ link[p] = "on"
  BY <1>2, <1>4, SendMoves
<1> QED
  BY <1>3, <1>4, <1>5 DEF f

\* A queue loses its first frame.
LEMMA TakeFirst ==
  ASSUME NEW s \in Seq(Frame), s # << >>
  PROVE  /\ Tail(s) \in Seq(Frame) /\ Head(s) \in Frame /\ Head(s) \in Elems(s)
         /\ Elems(s) = {Head(s)} \cup Elems(Tail(s))
  BY TailElems

LEMMA DeliverMoves ==
  ASSUME TypeOK, ClosedIsEmpty, NEW p \in Peers, NEW f \in Frame, Deliver(p, f)
  PROVE  /\ down' \in [Peers -> Seq(Frame)]
         /\ hit' \in SUBSET (Peers \X Ids) /\ hit \subseteq hit'
         /\ \A q \in Peers : q # p => down'[q] = down[q]
         /\ Elems(down[p]) \subseteq Elems(down'[p])
         /\ IsAbout(f) => f \in Elems(down'[p]) \/ <<f.peer, f.room>> \in hit'
         /\ link[p] # "on" => down' = down
<1>1. down \in [Peers -> Seq(Frame)] /\ hit \in SUBSET (Peers \X Ids) /\ down[p] \in Seq(Frame)
  BY DEF TypeOK
<1>2. CASE link[p] = "on"
  <2> DEFINE q == Append(down[p], f)
  <2>1. q \in Seq(Frame) /\ Elems(q) = Elems(down[p]) \cup {f}
    BY <1>1, AppendElems
  <2>2. down' = [down EXCEPT ![p] = q] /\ hit' = hit
    BY <1>2 DEF Deliver
  <2> HIDE DEF q
  <2>3. /\ down' \in [Peers -> Seq(Frame)] /\ down'[p] = q
        /\ \A z \in Peers : z # p => down'[z] = down[z]
    BY <1>1, <2>1, <2>2
  <2> QED
    BY <1>1, <1>2, <2>1, <2>2, <2>3
<1>3. CASE link[p] # "on"
  <2> DEFINE s == <<f>>
  <2>1. s \in Seq(Frame) /\ Elems(s) = {f}
    BY OneElem
  <2>2. down' = down /\ hit' = hit \cup Requests(s)
    BY <1>3 DEF Deliver
  <2> HIDE DEF s
  <2>3. /\ Requests(s) \in SUBSET (Peers \X Ids)
        /\ IsAbout(f) => <<f.peer, f.room>> \in Requests(s)
    BY <2>1, RequestsOf
  <2> QED
    BY <1>1, <2>2, <2>3
<1> QED
  BY <1>2, <1>3

LEMMA StoreMoves ==
  ASSUME TypeOK, NEW p \in Peers, NEW f \in Frame, Store(p, f)
  PROVE  /\ store' \in [Peers -> Seq(Frame)] /\ Len(store'[p]) <= QueueCap
         /\ hit' \in SUBSET (Peers \X Ids) /\ hit \subseteq hit'
         /\ \A q \in Peers : q # p => store'[q] = store[q]
         /\ Elems(store'[p]) \subseteq Elems(store[p]) \cup {f}
         /\ \A g \in Elems(store[p]) \cup {f} :
              IsAbout(g) => g \in Elems(store'[p]) \/ <<g.peer, g.room>> \in hit'
<1>1. /\ store \in [Peers -> Seq(Frame)] /\ hit \in SUBSET (Peers \X Ids)
      /\ store[p] \in Seq(Frame) /\ Len(store[p]) <= QueueCap
  BY DEF TypeOK
<1>2. QueueCap \in Nat /\ Len(store[p]) \in Nat
  BY <1>1, LenProperties, DirectoryAssumption
<1> DEFINE q == Append(store[p], f)
<1>3. /\ q \in Seq(Frame) /\ Elems(q) = Elems(store[p]) \cup {f}
      /\ Len(q) = Len(store[p]) + 1
  BY <1>1, AppendElems, AppendProperties
<1>4. \/ Len(q) <= QueueCap /\ store' = [store EXCEPT ![p] = q] /\ hit' = hit
      \/ /\ Len(q) > QueueCap /\ store' = [store EXCEPT ![p] = Tail(q)]
         /\ hit' = hit \cup Requests(SubSeq(q, 1, 1))
  BY DEF Store
<1> HIDE DEF q
<1>5. CASE Len(q) <= QueueCap /\ store' = [store EXCEPT ![p] = q] /\ hit' = hit
  <2>1. /\ store' \in [Peers -> Seq(Frame)] /\ store'[p] = q
        /\ \A z \in Peers : z # p => store'[z] = store[z]
    BY <1>1, <1>3, <1>5
  <2> QED
    BY <1>1, <1>3, <1>5, <2>1
<1>6. CASE /\ Len(q) > QueueCap /\ store' = [store EXCEPT ![p] = Tail(q)]
           /\ hit' = hit \cup Requests(SubSeq(q, 1, 1))
  <2> DEFINE t == Tail(q)  s == SubSeq(q, 1, 1)
  <2>1. q # << >>
    BY <1>2, <1>3, EmptySeq
  <2>2. /\ t \in Seq(Frame) /\ Head(q) \in Frame /\ Head(q) = q[1]
        /\ Elems(q) = {Head(q)} \cup Elems(t)
    BY <1>3, <2>1, TailElems, HeadTailProperties
  <2>3. Len(t) = Len(store[p])
    BY <1>2, <1>3, <2>1, HeadTailProperties
  <2>4. s \in Seq(Frame) /\ Len(s) = 1 /\ s[1] = q[1]
    <3>1. \A i \in 1..1 : q[i] \in Frame
      BY <2>2
    <3> QED
      BY <3>1, SubSeqProperties
  <2>5. store' = [store EXCEPT ![p] = t] /\ hit' = hit \cup Requests(s)
    BY <1>6
  <2> HIDE DEF t, s
  <2>6. /\ store' \in [Peers -> Seq(Frame)] /\ store'[p] = t
        /\ \A z \in Peers : z # p => store'[z] = store[z]
    BY <1>1, <2>2, <2>5
  <2>7. Head(q) \in Elems(s)
    BY <2>2, <2>4 DEF Elems
  <2>8. /\ Requests(s) \in SUBSET (Peers \X Ids)
        /\ \A g \in Elems(s) : IsAbout(g) => <<g.peer, g.room>> \in Requests(s)
    BY <2>4, RequestsOf
  <2> QED
    BY <1>1, <1>3, <2>2, <2>3, <2>5, <2>6, <2>7, <2>8
<1> QED
  BY <1>4, <1>5, <1>6

-----------------------------------------------------------------------------
(* The shape of the state *)

RoomShape ==
  /\ TypeOK /\ OwnQueues /\ SentShape /\ StoredShape /\ ClosedIsEmpty
  /\ AskedShape /\ DirectoryIsTrue

LEMMA ShapeInit == Init => RoomShape
<1> SUFFICES ASSUME Init PROVE RoomShape
  OBVIOUS
<1>1. DOMAIN directory = {} /\ IsFiniteSet({}) /\ Cardinality({}) = 0
  BY FS_EmptySet DEF Init
<1>2. \A p \in Peers : unsent[p] = << >> /\ up[p] = << >> /\ store[p] = << >> /\ down[p] = << >>
  BY DEF Init
<1>3. TypeOK
  BY <1>1, DirectoryAssumption DEF Init, TypeOK, Range
<1>4. OwnQueues /\ SentShape /\ StoredShape /\ ClosedIsEmpty
  BY <1>2, EmptyElems DEF OwnQueues, SentShape, StoredShape, ClosedIsEmpty
<1>5. AskedShape /\ DirectoryIsTrue
  BY <1>1 DEF Init, AskedShape, DirectoryIsTrue
<1> QED
  BY <1>3, <1>4, <1>5 DEF RoomShape

LEMMA ShapeStutter == RoomShape /\ UNCHANGED vars => RoomShape'
<1> SUFFICES ASSUME RoomShape, UNCHANGED vars PROVE RoomShape'
  OBVIOUS
<1> USE DEF RoomShape, vars, clientVars, wireVars, peerVars, bounds
<1>1. TypeOK'
  BY DEF TypeOK
<1>2. OwnQueues' /\ SentShape'
  BY DEF OwnQueues, SentShape, OwnRooms
<1>3. StoredShape' /\ ClosedIsEmpty' /\ AskedShape' /\ DirectoryIsTrue'
  BY DEF StoredShape, ClosedIsEmpty, AskedShape, DirectoryIsTrue
<1> QED
  BY <1>1, <1>2, <1>3

LEMMA ShapeCreateRoom ==
  ASSUME RoomShape, NEW p \in Peers, NEW raw \in RawNames, CreateRoom(p, raw)
  PROVE  RoomShape'
<1> USE DEF RoomShape
<1>1. /\ rooms \in Seq([owner : Peers, name : RoomNames]) /\ Len(rooms) \in Nat
      /\ DOMAIN rooms = 1..Len(rooms)
  BY LenProperties DEF TypeOK
<1> DEFINE e == [owner |-> p, name |-> Sanitize[raw]]  r == Append(rooms, e)
<1>2. e \in [owner : Peers, name : RoomNames]
  BY DEF CreateRoom, RoomNames
<1>3. /\ r \in Seq([owner : Peers, name : RoomNames]) /\ Len(r) = Len(rooms) + 1
      /\ DOMAIN r = 1..Len(r)
      /\ \A i \in 1..Len(rooms) : r[i] = rooms[i]
  BY <1>1, <1>2, AppendProperties, LenProperties
<1>4. rooms' = r /\ Len(rooms) < MaxRooms /\ seated' = [seated EXCEPT ![Len(rooms')] = {p}]
      /\ UNCHANGED <<unsent, requests, wireVars, directory, peerVars, hit, bounds>>
  BY DEF CreateRoom
<1> HIDE DEF r, e
<1> USE DEF wireVars, peerVars, bounds
<1>5. Len(rooms') \in Ids
  BY <1>1, <1>3, <1>4, DirectoryAssumption DEF Ids
<1>6. seated' \in [Ids -> SUBSET Peers]
  BY <1>4, <1>5 DEF TypeOK
<1>7. Len(rooms') <= MaxRooms
  BY <1>1, <1>3, <1>4, DirectoryAssumption
<1>8. TypeOK'
  BY <1>3, <1>4, <1>6, <1>7 DEF TypeOK
<1>9. DOMAIN rooms \subseteq DOMAIN rooms' /\ \A i \in DOMAIN rooms : rooms'[i] = rooms[i]
  BY <1>1, <1>3, <1>4
<1>10. \A q \in Peers : OwnRooms(q) \subseteq OwnRooms(q)'
  BY <1>9 DEF OwnRooms
<1>11. OwnQueues' /\ SentShape'
  BY <1>4, <1>10 DEF OwnQueues, SentShape
<1>12. StoredShape' /\ ClosedIsEmpty' /\ AskedShape'
  BY <1>4, <1>9 DEF StoredShape, ClosedIsEmpty, AskedShape
<1>13. DirectoryIsTrue'
  BY <1>4, <1>9 DEF DirectoryIsTrue
<1> QED
  BY <1>8, <1>11, <1>12, <1>13

LEMMA ShapeQueueRegistration ==
  ASSUME RoomShape, NEW p \in Peers, NEW i, QueueRegistration(p, i)
  PROVE  RoomShape'
<1> USE DEF RoomShape
<1>1. i \in OwnRooms(p) /\ i \in Ids
  BY RoomIds DEF QueueRegistration, OwnRooms
<1>2. unsent \in [Peers -> Seq(Ids)] /\ unsent[p] \in Seq(Ids)
  BY DEF TypeOK
<1> DEFINE q == Append(unsent[p], i)
<1>3. q \in Seq(Ids) /\ Elems(q) = Elems(unsent[p]) \cup {i}
  BY <1>1, <1>2, AppendElems
<1>4. /\ unsent' = [unsent EXCEPT ![p] = q]
      /\ UNCHANGED <<rooms, requests, seated, wireVars, directory, peerVars, hit, bounds>>
  BY DEF QueueRegistration
<1> HIDE DEF q
<1> USE DEF wireVars, peerVars, bounds
<1>5. /\ unsent' \in [Peers -> Seq(Ids)] /\ unsent'[p] = q
      /\ \A z \in Peers : z # p => unsent'[z] = unsent[z]
  BY <1>2, <1>3, <1>4
<1>6. TypeOK'
  BY <1>4, <1>5 DEF TypeOK
<1>7. OwnQueues' /\ SentShape'
  BY <1>1, <1>3, <1>4, <1>5 DEF OwnQueues, SentShape, OwnRooms
<1>8. StoredShape' /\ ClosedIsEmpty' /\ AskedShape' /\ DirectoryIsTrue'
  BY <1>4 DEF StoredShape, ClosedIsEmpty, AskedShape, DirectoryIsTrue
<1> QED
  BY <1>6, <1>7, <1>8

\* The registrations a client sends.
Registrations(p) ==
  [n \in DOMAIN unsent[p] |-> [kind |-> "register", room |-> unsent[p][n], peer |-> p]]

LEMMA RegistrationsSent ==
  ASSUME RoomShape, NEW p \in Peers
  PROVE  /\ Registrations(p) \in Seq(Frame)
         /\ \A f \in Elems(Registrations(p)) :
              f.kind = "register" /\ f.room \in OwnRooms(p) /\ f.peer = p
<1>1. unsent[p] \in Seq(Ids) /\ Elems(unsent[p]) \subseteq OwnRooms(p)
  BY DEF RoomShape, TypeOK, OwnQueues
<1>2. /\ Len(unsent[p]) \in Nat /\ DOMAIN unsent[p] = 1..Len(unsent[p])
      /\ \A n \in 1..Len(unsent[p]) : unsent[p][n] \in Ids
  BY <1>1, LenProperties, ElementOfSeq
<1>3. \A n \in 1..Len(unsent[p]) : unsent[p][n] \in OwnRooms(p)
  BY <1>1 DEF Elems
<1> DEFINE k == Len(unsent[p])
           At(n) == [kind |-> "register", room |-> unsent[p][n], peer |-> p]
           s == [n \in 1..k |-> At(n)]
<1>4. \A n \in 1..k : At(n) \in Frame
  BY <1>2, FrameMade DEF RoomKinds, ClientKinds
<1>5. s = Registrations(p)
  BY <1>2 DEF Registrations
<1>6. \A n \in 1..k : At(n).kind = "register" /\ At(n).room \in OwnRooms(p) /\ At(n).peer = p
  BY <1>3
<1> HIDE DEF At, k
<1>7. k \in Nat
  BY <1>2 DEF k
<1>8. s \in Seq(Frame) /\ Len(s) = k
  BY <1>4, <1>7, IsASeq, LenProperties
<1>9. \A n \in 1..k : s[n] = At(n)
  OBVIOUS
<1> HIDE DEF s
<1>10. \A f \in Elems(s) : f.kind = "register" /\ f.room \in OwnRooms(p) /\ f.peer = p
  BY <1>6, <1>8, <1>9 DEF Elems
<1> QED
  BY <1>5, <1>8, <1>10

LEMMA ShapeDrainRegistrations ==
  ASSUME RoomShape, NEW p \in Peers, DrainRegistrations(p)
  PROVE  RoomShape'
<1> USE DEF RoomShape
<1> DEFINE list == Registrations(p)
<1>1. /\ list \in Seq(Frame)
      /\ \A f \in Elems(list) : f.kind = "register" /\ f.room \in OwnRooms(p) /\ f.peer = p
  BY RegistrationsSent
<1>2. SendFrames(p, list) /\ unsent' = [unsent EXCEPT ![p] = << >>]
      /\ UNCHANGED <<rooms, requests, seated, directory, peerVars, hit>>
  BY DEF DrainRegistrations, Registrations
<1> HIDE DEF list
<1>3. /\ up' \in [Peers -> Seq(Frame)] /\ frames' \in 0..MaxFrames
      /\ Elems(up'[p]) = Elems(up[p]) \cup Elems(list)
      /\ \A q \in Peers : q # p => up'[q] = up[q]
  BY <1>1, <1>2, SendMoves
<1>4. UNCHANGED <<link, down, store, faults>>
  BY <1>2 DEF SendFrames
<1>5. /\ unsent' \in [Peers -> Seq(Ids)] /\ unsent'[p] = << >>
      /\ \A z \in Peers : z # p => unsent'[z] = unsent[z]
  BY <1>2 DEF TypeOK
<1> USE DEF peerVars
<1>6. TypeOK'
  BY <1>2, <1>3, <1>4, <1>5 DEF TypeOK
<1>7. OwnQueues'
  BY <1>2, <1>5, EmptyElems DEF OwnQueues, OwnRooms
<1>8. SentShape'
  BY <1>1, <1>2, <1>3 DEF SentShape, OwnRooms, ClientKinds
<1>9. StoredShape' /\ ClosedIsEmpty' /\ AskedShape' /\ DirectoryIsTrue'
  BY <1>2, <1>4 DEF StoredShape, ClosedIsEmpty, AskedShape, DirectoryIsTrue
<1> QED
  BY <1>6, <1>7, <1>8, <1>9

\* A client sends one frame, which is not a registration.
LEMMA ShapeSendOne ==
  ASSUME RoomShape, NEW p \in Peers, NEW k \in ClientKinds \ {"register"},
         NEW i \in Ids, NEW q \in Peers, SendFrame(p, k, i, q),
         UNCHANGED <<rooms, unsent, directory, known, unread, hit>>,
         requests' \in [Ids -> Seq(Peers)], seated' \in [Ids -> SUBSET Peers],
         asked' = asked \/ (i \in DOMAIN rooms /\ asked' = asked \cup {<<p, i>>})
  PROVE  RoomShape'
<1> USE DEF RoomShape
<1> DEFINE f == [kind |-> k, room |-> i, peer |-> q]
<1>1. k \in RoomKinds /\ f.kind = k
  BY DEF RoomKinds
<1>2. /\ up' \in [Peers -> Seq(Frame)] /\ frames' \in 0..MaxFrames
      /\ Elems(up'[p]) = Elems(up[p]) \cup {f}
      /\ \A z \in Peers : z # p => up'[z] = up[z]
      /\ UNCHANGED <<link, down, store, faults>>
  BY <1>1, SendOneMoves
<1> HIDE DEF f
<1>3. asked' \in SUBSET (Peers \X Ids)
  <2>1. asked \in SUBSET (Peers \X Ids)
    BY DEF TypeOK
  <2> DEFINE r == <<p, i>>
  <2>2. r \in Peers \X Ids /\ (asked' = asked \/ asked' = asked \cup {r})
    OBVIOUS
  <2> HIDE DEF r, RoomShape
  <2> QED
    BY <2>1, <2>2
<1>4. TypeOK'
  <2>1. UNCHANGED <<rooms, unsent, link, down, store, directory, known, unread, hit, faults>>
    BY <1>2
  <2>2. hit \in SUBSET (Peers \X Ids) /\ unread \in SUBSET (Peers \X Ids)
    BY DEF TypeOK
  <2>3. up' \in [Peers -> Seq(Frame)] /\ frames' \in 0..MaxFrames
    BY <1>2
  <2> QED
    BY <1>3, <2>1, <2>2, <2>3 DEF TypeOK
<1>5. OwnQueues'
  BY DEF OwnQueues, OwnRooms
<1>6. SentShape'
  BY <1>1, <1>2 DEF SentShape, OwnRooms
<1>7. AskedShape'
  BY DEF AskedShape
<1>8. StoredShape' /\ ClosedIsEmpty' /\ DirectoryIsTrue'
  BY <1>2 DEF StoredShape, ClosedIsEmpty, DirectoryIsTrue
<1> QED
  BY <1>4, <1>5, <1>6, <1>7, <1>8

LEMMA ShapeUnregister ==
  ASSUME RoomShape, NEW p \in Peers, NEW i, Unregister(p, i)
  PROVE  RoomShape'
<1>1. i \in Ids /\ "unregister" \in ClientKinds \ {"register"}
  BY RoomIds DEF RoomShape, Unregister, OwnRooms, ClientKinds
<1>2. SendFrame(p, "unregister", i, p) /\ UNCHANGED <<clientVars, directory, peerVars, hit>>
  BY DEF Unregister
<1>3. requests \in [Ids -> Seq(Peers)] /\ seated \in [Ids -> SUBSET Peers]
  BY DEF RoomShape, TypeOK
<1> QED
  BY <1>1, <1>2, <1>3, ShapeSendOne DEF clientVars, peerVars

LEMMA ShapeAskToJoin ==
  ASSUME RoomShape, NEW p \in Peers, NEW i \in DOMAIN rooms, AskToJoin(p, i)
  PROVE  RoomShape'
<1>1. i \in Ids /\ "join" \in ClientKinds \ {"register"}
  BY RoomIds DEF RoomShape, ClientKinds
<1>2. /\ SendFrame(p, "join", i, p) /\ asked' = asked \cup {<<p, i>>}
      /\ UNCHANGED <<clientVars, directory, known, unread, hit>>
  BY DEF AskToJoin
<1>3. requests \in [Ids -> Seq(Peers)] /\ seated \in [Ids -> SUBSET Peers]
  BY DEF RoomShape, TypeOK
<1> QED
  BY <1>1, <1>2, <1>3, ShapeSendOne DEF clientVars

LEMMA ShapeListRooms ==
  ASSUME RoomShape, NEW p \in Peers, ListRooms(p)
  PROVE  RoomShape'
<1>1. 1 \in Ids /\ "list" \in ClientKinds \ {"register"}
  BY DirectoryAssumption DEF Ids, ClientKinds
<1>2. SendFrame(p, "list", 1, p) /\ UNCHANGED <<clientVars, directory, peerVars, hit>>
  BY DEF ListRooms, SendFrame
<1>3. requests \in [Ids -> Seq(Peers)] /\ seated \in [Ids -> SUBSET Peers]
  BY DEF RoomShape, TypeOK
<1> QED
  BY <1>1, <1>2, <1>3, ShapeSendOne DEF clientVars, peerVars

\* Whoever waited and is not the peer q that is answered still waits.
Answered(p, i, v, q) ==
  /\ q \in Peers /\ i \in Ids /\ Owner(i) = p
  /\ requests' \in [Ids -> Seq(Peers)] /\ seated' \in [Ids -> SUBSET Peers]
  /\ Elems(requests[i]) \subseteq Elems(requests'[i]) \cup {q}
  /\ \A j \in Ids : j # i => requests'[j] = requests[j]
  /\ SendFrame(p, v, i, q)
  /\ UNCHANGED <<rooms, unsent, directory, peerVars, hit>>

\* q is answered by p.
Answer(p, i, v, q) == (v = "approved" /\ Approve(p, i, q)) \/ (v = "denied" /\ Deny(p, i, q))

LEMMA AnswerMoves ==
  ASSUME RoomShape, NEW p \in Peers, NEW i \in DOMAIN rooms, NEW q \in Peers,
         NEW v \in {"approved", "denied"}, Answer(p, i, v, q)
  PROVE  Answered(p, i, v, q)
<1> DEFINE t == RemoveFirst(requests[i], q)
           l == Retain(requests[i], q)
<1>1. /\ requests \in [Ids -> Seq(Peers)] /\ seated \in [Ids -> SUBSET Peers]
      /\ i \in Ids /\ requests[i] \in Seq(Peers)
  BY RoomIds DEF RoomShape, TypeOK
<1>2. i \in OwnRooms(p)
  BY DEF Answer, Approve, Deny
<1>3. t \in Seq(Peers) /\ Elems(requests[i]) \subseteq Elems(t) \cup {q}
  BY <1>1, RemoveFirstProperties
<1>4. l \in Seq(Peers) /\ Elems(l) = Elems(requests[i]) \ {q}
  BY <1>1, RetainProperties
<1>5. /\ \/ requests' = [requests EXCEPT ![i] = l]
         \/ requests' = [requests EXCEPT ![i] = t]
         \/ requests' = requests
      /\ \/ seated' = [seated EXCEPT ![i] = @ \cup {q}]
         \/ seated' = seated
      /\ SendFrame(p, v, i, q)
      /\ UNCHANGED <<rooms, unsent, directory, peerVars, hit>>
  BY DEF Answer, Approve, Deny
<1> HIDE DEF t, l
<1>6. seated' \in [Ids -> SUBSET Peers]
  BY <1>1, <1>5
<1>7. PICK s \in Seq(Peers) : /\ requests' = [requests EXCEPT ![i] = s]
                              /\ Elems(requests[i]) \subseteq Elems(s) \cup {q}
  <2>1. CASE requests' = [requests EXCEPT ![i] = l]
    BY <1>4, <2>1
  <2>2. CASE requests' = [requests EXCEPT ![i] = t]
    BY <1>3, <2>2
  <2>3. CASE requests' = requests
    BY <1>1, <2>3
  <2> QED
    BY <1>5, <2>1, <2>2, <2>3
<1>8. /\ requests' \in [Ids -> Seq(Peers)] /\ requests'[i] = s
      /\ \A j \in Ids : j # i => requests'[j] = requests[j]
  BY <1>1, <1>7
<1>9. Owner(i) = p
  BY <1>2 DEF OwnRooms, Owner
<1> QED
  BY <1>1, <1>5, <1>6, <1>7, <1>8, <1>9 DEF Answered

LEMMA ShapeAnswer ==
  ASSUME RoomShape, NEW p \in Peers, NEW i \in DOMAIN rooms, NEW q \in Peers,
         NEW v \in {"approved", "denied"}, Answer(p, i, v, q)
  PROVE  RoomShape'
<1>0. Answered(p, i, v, q)
  BY AnswerMoves
<1>1. /\ q \in Peers /\ i \in Ids
      /\ requests' \in [Ids -> Seq(Peers)] /\ seated' \in [Ids -> SUBSET Peers]
      /\ SendFrame(p, v, i, q)
      /\ UNCHANGED <<rooms, unsent, directory, peerVars, hit>>
  BY <1>0 DEF Answered
<1>2. v \in ClientKinds \ {"register"}
  BY DEF ClientKinds
<1> QED
  BY <1>1, <1>2, ShapeSendOne DEF peerVars

LEMMA ShapeReadFrame ==
  ASSUME RoomShape, NEW p \in Peers, ReadFrame(p)
  PROVE  RoomShape'
<1> USE DEF RoomShape
<1> DEFINE f == Head(down[p])  t == Tail(down[p])
<1>1. down \in [Peers -> Seq(Frame)] /\ down[p] \in Seq(Frame) /\ down[p] # << >>
      /\ link[p] = "on"
  BY DEF TypeOK, ReadFrame
<1>2. t \in Seq(Frame) /\ f \in Frame
  BY <1>1, TakeFirst
<1>3. /\ f.kind \in RoomKinds \cup {"listing", "opaque"}
      /\ f.kind # "listing" => f.room \in Ids /\ f.peer \in Peers
      /\ f.kind = "listing" => f.rooms \in SUBSET Ids
  BY <1>2, FrameFields
<1>4. /\ down' = [down EXCEPT ![p] = t]
      /\ requests' = IF f.kind = "join"
                     THEN [requests EXCEPT ![f.room] = Append(@, f.peer)] ELSE requests
      /\ known' = IF f.kind = "listing" THEN [known EXCEPT ![p] = f.rooms] ELSE known
      /\ unread' = IF f.kind = "opaque" THEN unread \cup {<<f.peer, f.room>>} ELSE unread
      /\ asked' = IF f.kind \in {"approved", "denied", "error"}
                  THEN asked \ {<<p, f.room>>} ELSE asked
      /\ UNCHANGED <<rooms, unsent, seated, link, up, store, directory, hit, bounds>>
  BY DEF ReadFrame
<1> HIDE DEF f, t
<1>5. down' \in [Peers -> Seq(Frame)] /\ \A z \in Peers : z # p => down'[z] = down[z]
  BY <1>1, <1>2, <1>4
<1>6. requests' \in [Ids -> Seq(Peers)]
  <2>1. requests \in [Ids -> Seq(Peers)]
    BY DEF TypeOK
  <2>2. CASE f.kind = "join"
    <3> DEFINE s == Append(requests[f.room], f.peer)
    <3>1. f.room \in Ids /\ s \in Seq(Peers)
      BY <1>3, <2>1, <2>2, AppendProperties
    <3>2. requests' = [requests EXCEPT ![f.room] = s]
      BY <1>4, <2>2
    <3> HIDE DEF s, RoomShape
    <3> QED
      BY <2>1, <3>1, <3>2
  <2> QED
    BY <1>4, <2>1, <2>2
<1>7. known' \in [Peers -> SUBSET Ids]
  BY <1>3, <1>4 DEF TypeOK
<1>8. unread' \in SUBSET (Peers \X Ids) /\ asked' \in SUBSET (Peers \X Ids)
  <2>1. unread \in SUBSET (Peers \X Ids) /\ asked \in SUBSET (Peers \X Ids)
    BY DEF TypeOK
  <2>2. asked' \subseteq asked
    BY <1>4
  <2>3. f.kind = "opaque" => <<f.peer, f.room>> \in Peers \X Ids
    BY <1>3
  <2>4. unread' \subseteq Peers \X Ids
    BY <1>4, <2>1, <2>3
  <2> QED
    BY <2>1, <2>2, <2>4
<1>9. TypeOK'
  BY <1>4, <1>5, <1>6, <1>7, <1>8 DEF TypeOK, bounds
<1>10. OwnQueues' /\ SentShape' /\ StoredShape' /\ DirectoryIsTrue'
  BY <1>4 DEF OwnQueues, SentShape, OwnRooms, StoredShape, DirectoryIsTrue
<1>11. ClosedIsEmpty'
  BY <1>1, <1>4, <1>5 DEF ClosedIsEmpty
<1>12. AskedShape'
  BY <1>4 DEF AskedShape
<1> QED
  BY <1>9, <1>10, <1>11, <1>12

\* What was stored for p, as it is delivered.
Payloads(p) == [n \in DOMAIN store[p] |-> Opaque(store[p][n])]

LEMMA PayloadsDelivered ==
  ASSUME TypeOK, StoredShape, NEW p \in Peers
  PROVE  /\ Payloads(p) \in Seq(Frame)
         /\ \A f \in Elems(store[p]) : \E g \in Elems(Payloads(p)) :
              g.kind = "opaque" /\ g.room = f.room /\ g.peer = f.peer
<1>1. store[p] \in Seq(Frame)
  BY DEF TypeOK
<1>2. /\ Len(store[p]) \in Nat /\ DOMAIN store[p] = 1..Len(store[p])
      /\ \A n \in 1..Len(store[p]) : store[p][n] \in Frame /\ store[p][n] \in Elems(store[p])
  BY <1>1, LenProperties, ElementOfSeq DEF Elems
<1>3. \A n \in 1..Len(store[p]) : store[p][n].room \in Ids /\ store[p][n].peer \in Peers
  BY <1>2, FrameFields DEF StoredShape
<1> DEFINE k == Len(store[p])
           At(n) == Opaque(store[p][n])
           s == [n \in 1..k |-> At(n)]
<1>4. \A n \in 1..k : At(n) \in Frame
  BY <1>3, FrameMade DEF Opaque
<1>5. s = Payloads(p)
  BY <1>2 DEF Payloads
<1>6. \A n \in 1..k : /\ At(n).kind = "opaque" /\ At(n).room = store[p][n].room
                      /\ At(n).peer = store[p][n].peer
  BY DEF Opaque
<1> HIDE DEF At
<1>7. s \in Seq(Frame) /\ Len(s) = k
  <2> HIDE DEF k
  <2>1. k \in Nat
    BY <1>2 DEF k
  <2> QED
    BY <1>4, <2>1, IsASeq, LenProperties
<1>8. \A n \in 1..k : s[n] = At(n)
  OBVIOUS
<1> HIDE DEF s
<1>9. \A n \in 1..k : s[n] \in Elems(s)
  BY <1>7 DEF Elems
<1>10. \A f \in Elems(store[p]) : \E g \in Elems(s) :
         g.kind = "opaque" /\ g.room = f.room /\ g.peer = f.peer
  BY <1>6, <1>8, <1>9 DEF Elems
<1> QED
  BY <1>5, <1>7, <1>10

LEMMA ShapeConnect ==
  ASSUME RoomShape, NEW p \in Peers, Connect(p)
  PROVE  RoomShape'
<1> USE DEF RoomShape
<1> DEFINE s == Payloads(p)
<1>1. s \in Seq(Frame)
  BY PayloadsDelivered
<1>2. /\ link' = [link EXCEPT ![p] = "on"] /\ down' = [down EXCEPT ![p] = s]
      /\ store' = [store EXCEPT ![p] = << >>]
      /\ UNCHANGED <<clientVars, up, directory, peerVars, hit, bounds>>
  BY DEF Connect, Payloads
<1> HIDE DEF s
<1> USE DEF clientVars, peerVars, bounds
<1>3. /\ link \in [Peers -> {"off", "on", "stale"}]
      /\ down \in [Peers -> Seq(Frame)] /\ store \in [Peers -> Seq(Frame)]
      /\ \A z \in Peers : Len(store[z]) <= QueueCap
  BY DEF TypeOK
<1>4. /\ link' \in [Peers -> {"off", "on", "stale"}]
      /\ down' \in [Peers -> Seq(Frame)] /\ store' \in [Peers -> Seq(Frame)]
      /\ link'[p] = "on" /\ store'[p] = << >>
      /\ \A z \in Peers : z # p => /\ link'[z] = link[z] /\ down'[z] = down[z]
                                   /\ store'[z] = store[z]
  BY <1>1, <1>2, <1>3
<1>5. \A z \in Peers : Len(store'[z]) <= QueueCap
  <2>1. Len(<< >>) = 0 /\ QueueCap \in Nat
    BY DirectoryAssumption
  <2>2. Len(store'[p]) <= QueueCap
    BY <1>4, <2>1
  <2> QED
    BY <1>3, <1>4, <2>2
<1>6. TypeOK'
  BY <1>2, <1>4, <1>5 DEF TypeOK
<1>7. OwnQueues' /\ SentShape' /\ AskedShape' /\ DirectoryIsTrue'
  BY <1>2 DEF OwnQueues, SentShape, OwnRooms, AskedShape, DirectoryIsTrue
<1>8. StoredShape' /\ ClosedIsEmpty'
  BY <1>4, EmptyElems DEF StoredShape, ClosedIsEmpty
<1> QED
  BY <1>6, <1>7, <1>8

LEMMA ShapeLinkBreaks ==
  ASSUME RoomShape, NEW p \in Peers, LinkBreaks(p)
  PROVE  RoomShape'
<1> USE DEF RoomShape
<1>1. /\ link' \in [Peers -> {"off", "on", "stale"}] /\ faults' \in 0..MaxFaults
      /\ \A z \in Peers : z # p => link'[z] = link[z]
  <2>1. /\ link \in [Peers -> {"off", "on", "stale"}] /\ faults \in 0..MaxFaults
        /\ MaxFaults \in Nat
    BY DirectoryAssumption DEF TypeOK
  <2>2. \/ faults < MaxFaults /\ link' = [link EXCEPT ![p] = "stale"] /\ faults' = faults + 1
        \/ link' = [link EXCEPT ![p] = "off"] /\ faults' = faults
    BY DEF LinkBreaks
  <2> HIDE DEF RoomShape
  <2> QED
    BY <2>1, <2>2
<1>2. /\ up' = [up EXCEPT ![p] = << >>] /\ down' = [down EXCEPT ![p] = << >>]
      /\ hit' = hit \cup Requests(up[p]) \cup Requests(down[p])
      /\ UNCHANGED <<clientVars, store, directory, peerVars, frames>>
  BY DEF LinkBreaks
<1> USE DEF clientVars, peerVars
<1>3. up[p] \in Seq(Frame) /\ down[p] \in Seq(Frame) /\ hit \in SUBSET (Peers \X Ids)
  BY DEF TypeOK
<1>4. /\ Requests(up[p]) \in SUBSET (Peers \X Ids)
      /\ Requests(down[p]) \in SUBSET (Peers \X Ids)
  BY <1>3, RequestsOf
<1>5. hit' \in SUBSET (Peers \X Ids)
  BY <1>2, <1>3, <1>4
<1>6. /\ up' \in [Peers -> Seq(Frame)] /\ down' \in [Peers -> Seq(Frame)]
      /\ up'[p] = << >> /\ down'[p] = << >>
      /\ \A z \in Peers : z # p => up'[z] = up[z] /\ down'[z] = down[z]
  BY <1>2 DEF TypeOK
<1>7. TypeOK'
  <2>1. UNCHANGED <<rooms, unsent, requests, seated, store, directory, known, asked, unread, frames>>
    BY <1>2
  <2>2. asked \in SUBSET (Peers \X Ids) /\ unread \in SUBSET (Peers \X Ids)
    BY DEF TypeOK
  <2> QED
    BY <1>1, <1>5, <1>6, <2>1, <2>2 DEF TypeOK
<1>8. OwnQueues' /\ StoredShape' /\ AskedShape' /\ DirectoryIsTrue'
  BY <1>2 DEF OwnQueues, OwnRooms, StoredShape, AskedShape, DirectoryIsTrue
<1>9. SentShape' /\ ClosedIsEmpty'
  BY <1>1, <1>2, <1>6, EmptyElems DEF SentShape, OwnRooms, ClosedIsEmpty
<1> QED
  BY <1>7, <1>8, <1>9

LEMMA ShapeRelayRestarts ==
  ASSUME RoomShape, RelayRestarts
  PROVE  RoomShape'
<1> USE DEF RoomShape
<1>1. DOMAIN directory' = {} /\ Cardinality({}) = 0
  BY FS_EmptySet DEF RelayRestarts
<1>2. /\ faults' \in 0..MaxFaults /\ link' = [q \in Peers |-> "off"]
      /\ up' = [q \in Peers |-> << >>] /\ down' = [q \in Peers |-> << >>]
      /\ store' = [q \in Peers |-> << >>] /\ hit' = asked
      /\ UNCHANGED <<clientVars, peerVars, frames>>
  BY DirectoryAssumption DEF RelayRestarts, TypeOK
<1> USE DEF clientVars, peerVars
<1>3. \A z \in Peers : Len(store'[z]) <= QueueCap
  BY <1>2, EmptySeq, DirectoryAssumption
<1>4. TypeOK'
  <2>1. /\ link' \in [Peers -> {"off", "on", "stale"}]
        /\ up' \in [Peers -> Seq(Frame)] /\ down' \in [Peers -> Seq(Frame)]
        /\ store' \in [Peers -> Seq(Frame)]
    BY <1>2
  <2>2. /\ DOMAIN directory' \subseteq Ids /\ Range(directory') \subseteq Entry
        /\ Cardinality(DOMAIN directory') <= DirectoryCap
    BY <1>1, DirectoryAssumption DEF Range
  <2> QED
    BY <1>2, <1>3, <2>1, <2>2 DEF TypeOK
<1>5. OwnQueues' /\ AskedShape' /\ DirectoryIsTrue'
  BY <1>1, <1>2 DEF OwnQueues, OwnRooms, AskedShape, DirectoryIsTrue
<1>6. SentShape' /\ StoredShape' /\ ClosedIsEmpty'
  BY <1>2, EmptyElems DEF SentShape, StoredShape, ClosedIsEmpty
<1> QED
  BY <1>4, <1>5, <1>6

-----------------------------------------------------------------------------
(* The relay handles a frame *)

DirectoryShape ==
  /\ DOMAIN directory \subseteq Ids /\ Range(directory) \subseteq Entry
  /\ Cardinality(DOMAIN directory) <= DirectoryCap
  /\ DirectoryIsTrue

LEMMA DirectoryKept ==
  ASSUME RoomShape, UNCHANGED <<rooms, directory>>
  PROVE  DirectoryShape'
  BY DEF RoomShape, TypeOK, DirectoryShape, DirectoryIsTrue, Entry, RoomNames, Ids

LEMMA AdminIsOwner ==
  ASSUME RoomShape, NEW i \in DOMAIN directory
  PROVE  i \in DOMAIN rooms /\ directory[i].admin = rooms[i].owner /\ rooms[i].owner \in Peers
<1>1. i \in DOMAIN rooms /\ directory[i].admin = rooms[i].owner
  BY DEF RoomShape, DirectoryIsTrue
<1> QED
  BY <1>1, RoomIds DEF RoomShape

\* The frame that is handled.
LEMMA TakenFrame ==
  ASSUME RoomShape, NEW p \in Peers, HandleRoomMessage(p)
  PROVE  LET f == Head(up[p]) IN
         /\ f \in Frame /\ f.kind \in ClientKinds /\ f.room \in Ids /\ f.peer \in Peers
         /\ f.kind = "register" => f.room \in OwnRooms(p) /\ f.peer = p
         /\ up' \in [Peers -> Seq(Frame)]
         /\ Elems(up[p]) = {f} \cup Elems(up'[p])
         /\ \A z \in Peers : z # p => up'[z] = up[z]
         /\ UNCHANGED <<clientVars, peerVars, bounds>>
<1> DEFINE f == Head(up[p])  t == Tail(up[p])
<1>1. up \in [Peers -> Seq(Frame)] /\ up[p] \in Seq(Frame) /\ up[p] # << >>
  BY DEF RoomShape, TypeOK, HandleRoomMessage
<1>2. /\ t \in Seq(Frame) /\ f \in Frame /\ f \in Elems(up[p])
      /\ Elems(up[p]) = {f} \cup Elems(t)
  BY <1>1, TakeFirst
<1>3. up' = [up EXCEPT ![p] = t] /\ UNCHANGED <<clientVars, peerVars, bounds>>
  BY DEF HandleRoomMessage
<1> HIDE DEF f, t
<1>4. f.kind \in ClientKinds /\ (f.kind = "register" => f.room \in OwnRooms(p) /\ f.peer = p)
  BY <1>2 DEF RoomShape, SentShape
<1>5. f.room \in Ids /\ f.peer \in Peers
  BY <1>2, <1>4, FrameFields DEF ClientKinds
<1>6. /\ up' \in [Peers -> Seq(Frame)] /\ up'[p] = t
      /\ \A z \in Peers : z # p => up'[z] = up[z]
  BY <1>1, <1>2, <1>3
<1> QED
  BY <1>2, <1>3, <1>4, <1>5, <1>6 DEF f

LEMMA ShapeHandled ==
  ASSUME RoomShape, NEW p \in Peers, HandleRoomMessage(p),
         link' \in [Peers -> {"off", "on", "stale"}],
         down' \in [Peers -> Seq(Frame)], store' \in [Peers -> Seq(Frame)],
         \A z \in Peers : Len(store'[z]) <= QueueCap,
         hit' \in SUBSET (Peers \X Ids),
         StoredShape', ClosedIsEmpty', DirectoryShape'
  PROVE  RoomShape'
<1> USE DEF RoomShape
<1>1. /\ up' \in [Peers -> Seq(Frame)]
      /\ \A z \in Peers : Elems(up'[z]) \subseteq Elems(up[z])
      /\ UNCHANGED <<clientVars, peerVars, bounds>>
  BY TakenFrame
<1> USE DEF clientVars, peerVars, bounds
<1>a. UNCHANGED <<rooms, unsent, requests, seated, known, asked, unread, frames, faults>>
  BY <1>1
<1>b. DOMAIN directory' \subseteq Ids /\ Range(directory') \subseteq Entry
      /\ Cardinality(DOMAIN directory') <= DirectoryCap
  BY DEF DirectoryShape
<1>2. TypeOK'
  BY <1>1, <1>a, <1>b DEF TypeOK
<1>3. OwnQueues' /\ SentShape' /\ AskedShape'
  BY <1>1 DEF OwnQueues, SentShape, OwnRooms, AskedShape
<1> QED
  BY <1>2, <1>3 DEF DirectoryShape

\* A frame goes to q.
LEMMA DeliverShape ==
  ASSUME RoomShape, NEW q \in Peers, NEW f \in Frame, Deliver(q, f), UNCHANGED <<link, store>>
  PROVE  /\ link' \in [Peers -> {"off", "on", "stale"}]
         /\ down' \in [Peers -> Seq(Frame)] /\ store' \in [Peers -> Seq(Frame)]
         /\ \A z \in Peers : Len(store'[z]) <= QueueCap
         /\ hit' \in SUBSET (Peers \X Ids)
         /\ StoredShape' /\ ClosedIsEmpty'
<1> USE DEF RoomShape
<1>1. /\ down' \in [Peers -> Seq(Frame)] /\ hit' \in SUBSET (Peers \X Ids)
      /\ \A z \in Peers : z # q => down'[z] = down[z]
      /\ link[q] # "on" => down' = down
  BY DeliverMoves
<1>2. StoredShape' /\ ClosedIsEmpty'
  BY <1>1 DEF StoredShape, ClosedIsEmpty
<1> QED
  BY <1>1, <1>2 DEF TypeOK

\* A frame is stored for q; if q had lost its connection, the relay now knows.
LEMMA StoreShape ==
  ASSUME RoomShape, NEW q \in Peers, NEW f \in Frame, Store(q, f), UNCHANGED down,
         f.kind \in {"join", "approved", "denied"}, link[q] # "on",
         link' = [link EXCEPT ![q] = "off"]
  PROVE  /\ link' \in [Peers -> {"off", "on", "stale"}]
         /\ down' \in [Peers -> Seq(Frame)] /\ store' \in [Peers -> Seq(Frame)]
         /\ \A z \in Peers : Len(store'[z]) <= QueueCap
         /\ hit' \in SUBSET (Peers \X Ids)
         /\ StoredShape' /\ ClosedIsEmpty'
<1> USE DEF RoomShape
<1>1. /\ store' \in [Peers -> Seq(Frame)] /\ Len(store'[q]) <= QueueCap
      /\ hit' \in SUBSET (Peers \X Ids)
      /\ \A z \in Peers : z # q => store'[z] = store[z]
      /\ Elems(store'[q]) \subseteq Elems(store[q]) \cup {f}
  BY StoreMoves
<1>2. /\ link' \in [Peers -> {"off", "on", "stale"}]
      /\ \A z \in Peers : link'[z] = "on" => link[z] = "on"
      /\ \A z \in Peers : link'[z] # "on" => link[z] # "on"
  BY DEF TypeOK
<1>3. StoredShape' /\ ClosedIsEmpty'
  BY <1>1, <1>2 DEF StoredShape, ClosedIsEmpty
<1> QED
  BY <1>1, <1>2, <1>3 DEF TypeOK

LEMMA DirectoryMade ==
  ASSUME \A j \in DOMAIN directory' :
           /\ j \in DOMAIN rooms'
           /\ directory'[j] = [name |-> rooms'[j].name, admin |-> rooms'[j].owner],
         \A j, k \in DOMAIN directory' :
           Lower[directory'[j].name] = Lower[directory'[k].name] => j = k
  PROVE  DirectoryIsTrue'
  BY DEF DirectoryIsTrue

LEMMA DirectoryRegisters ==
  ASSUME RoomShape, NEW p \in Peers, NEW i \in OwnRooms(p), ~Refused(i, rooms[i].name),
         UNCHANGED rooms,
         directory' = [j \in DOMAIN directory \cup {i} |->
                         IF j = i THEN [name |-> rooms[i].name, admin |-> p]
                                  ELSE directory[j]]
  PROVE  DirectoryShape'
<1> USE DEF RoomShape
<1>1. /\ i \in DOMAIN rooms /\ i \in Ids /\ rooms[i].owner = p
      /\ rooms[i].name \in RoomNames
  BY RoomIds DEF OwnRooms
<1> DEFINE D == DOMAIN directory  E == D \cup {i}
<1>2. D \subseteq Ids /\ Range(directory) \subseteq Entry /\ Cardinality(D) <= DirectoryCap
  BY DEF TypeOK
<1>3. IsFiniteSet(D)
  <2>1. IsFiniteSet(Ids)
    BY FS_Interval, DirectoryAssumption DEF Ids
  <2> HIDE DEF D
  <2> QED
    BY <1>2, <2>1, FS_Subset
<1>4. Cardinality(E) <= DirectoryCap
  <2>1. Cardinality(E) = IF i \in D THEN Cardinality(D) ELSE Cardinality(D) + 1
    <3> HIDE DEF D
    <3> QED
      BY <1>3, FS_AddElement
  <2>2. i \in D \/ Cardinality(D) < DirectoryCap
    <3>1. Cardinality(D) \in Nat
      <4> HIDE DEF D
      <4> QED
        BY <1>3, FS_CardinalityType
    <3> QED
      BY <3>1, DirectoryAssumption DEF Refused
  <2>3. Cardinality(D) \in Nat
    <3> HIDE DEF D
    <3> QED
      BY <1>3, FS_CardinalityType
  <2> HIDE DEF D, E
  <2> QED
    BY <1>2, <2>1, <2>2, <2>3, DirectoryAssumption
<1>5. /\ DOMAIN directory' = E
      /\ \A j \in E : directory'[j] = IF j = i THEN [name |-> rooms[i].name, admin |-> p]
                                               ELSE directory[j]
  OBVIOUS
<1>6. \A j \in E : j # i => j \in D
  OBVIOUS
<1>7. /\ \A j \in D : directory[j] \in Entry
      /\ \A j \in D : j \in DOMAIN rooms
                      /\ directory[j] = [name |-> rooms[j].name, admin |-> rooms[j].owner]
      /\ \A j, k \in D : Lower[directory[j].name] = Lower[directory[k].name] => j = k
  BY <1>2 DEF DirectoryIsTrue, Range
<1>8. \A j \in D : j # i => Lower[directory[j].name] # Lower[rooms[i].name]
  BY DEF Refused, NameTaken
<1>9. E \subseteq Ids
  BY <1>1, <1>2
<1> HIDE DEF D, E
<1>10. \A j \in E : directory'[j] \in Entry
  BY <1>1, <1>5, <1>6, <1>7 DEF Entry
<1>11. \A j \in E : /\ j \in DOMAIN rooms
                    /\ directory'[j] = [name |-> rooms[j].name, admin |-> rooms[j].owner]
  BY <1>1, <1>5, <1>6, <1>7
<1>12. \A j, k \in E : Lower[directory'[j].name] = Lower[directory'[k].name] => j = k
  BY <1>5, <1>6, <1>7, <1>8
<1>13. Range(directory') \subseteq Entry
  BY <1>5, <1>10 DEF Range
<1>14. DirectoryIsTrue'
  <2>1. \A j \in DOMAIN directory' :
          /\ j \in DOMAIN rooms'
          /\ directory'[j] = [name |-> rooms'[j].name, admin |-> rooms'[j].owner]
    BY <1>5, <1>11
  <2>2. \A j, k \in DOMAIN directory' :
          Lower[directory'[j].name] = Lower[directory'[k].name] => j = k
    BY <1>5, <1>12
  <2> QED
    BY <2>1, <2>2, DirectoryMade
<1> QED
  BY <1>4, <1>5, <1>9, <1>13, <1>14 DEF DirectoryShape

LEMMA DirectoryUnregisters ==
  ASSUME RoomShape, NEW i, UNCHANGED rooms,
         directory' = [j \in DOMAIN directory \ {i} |-> directory[j]]
  PROVE  DirectoryShape'
<1> USE DEF RoomShape
<1> DEFINE D == DOMAIN directory  E == D \ {i}
<1>1. D \subseteq Ids /\ Range(directory) \subseteq Entry /\ Cardinality(D) <= DirectoryCap
  BY DEF TypeOK
<1>2. Cardinality(E) <= DirectoryCap
  <2>1. IsFiniteSet(Ids)
    BY FS_Interval, DirectoryAssumption DEF Ids
  <2>2. E \subseteq D
    OBVIOUS
  <2> HIDE DEF D, E
  <2>3. IsFiniteSet(D)
    BY <1>1, <2>1, FS_Subset
  <2>4. Cardinality(E) <= Cardinality(D) /\ IsFiniteSet(E)
    BY <2>2, <2>3, FS_Subset
  <2>5. Cardinality(E) \in Nat /\ Cardinality(D) \in Nat
    BY <2>3, <2>4, FS_CardinalityType
  <2> QED
    BY <1>1, <2>4, <2>5, DirectoryAssumption
<1>3. DOMAIN directory' = E /\ \A j \in E : j \in D /\ directory'[j] = directory[j]
  OBVIOUS
<1>4. E \subseteq Ids
  BY <1>1
<1>5. Range(directory') \subseteq Entry
  BY <1>1, <1>3 DEF Range
<1>6. DirectoryIsTrue'
  BY <1>3 DEF DirectoryIsTrue
<1> HIDE DEF E, D
<1> QED
  BY <1>2, <1>3, <1>4, <1>5, <1>6 DEF DirectoryShape

LEMMA ShapeHandleRoomMessage ==
  ASSUME RoomShape, NEW p \in Peers, HandleRoomMessage(p)
  PROVE  RoomShape'
<1> DEFINE f == Head(up[p])
<1>1. /\ f \in Frame /\ f.kind \in ClientKinds /\ f.room \in Ids /\ f.peer \in Peers
      /\ f.kind = "register" => f.room \in OwnRooms(p) /\ f.peer = p
      /\ UNCHANGED <<clientVars, peerVars, bounds>>
  BY TakenFrame
<1>2. \/ f.kind = "register" /\ RegisterRoom(p, f)
      \/ f.kind = "unregister" /\ UnregisterRoom(f)
      \/ f.kind = "list" /\ RoomList(p)
      \/ f.kind = "join" /\ RouteJoinRequest(p, f)
      \/ f.kind \in {"approved", "denied"} /\ RouteRoomToPeer(f)
  BY DEF HandleRoomMessage
<1>3. rooms' = rooms
  BY <1>1 DEF clientVars
<1>4. link \in [Peers -> {"off", "on", "stale"}]
  BY DEF RoomShape, TypeOK
<1>5. /\ [f EXCEPT !.kind = "error"] \in Frame
      /\ [f EXCEPT !.kind = "confirmed"] \in Frame
  BY <1>1, FrameRenamed DEF RoomKinds
<1> HIDE DEF f
<1>6. CASE f.kind = "register" /\ RegisterRoom(p, f)
  <2>1. (\E k \in {"error", "confirmed"} : Deliver(p, [f EXCEPT !.kind = k]))
        /\ UNCHANGED <<link, store>>
    BY <1>6 DEF RegisterRoom
  <2>2. PICK g \in Frame : Deliver(p, g)
    BY <1>5, <2>1
  <2>3. DirectoryShape'
    <3>1. CASE directory' = directory
      BY <1>3, <3>1, DirectoryKept
    <3>2. CASE /\ ~Refused(f.room, rooms[f.room].name)
               /\ directory' = [i \in DOMAIN directory \cup {f.room} |->
                                  IF i = f.room
                                  THEN [name |-> rooms[f.room].name, admin |-> f.peer]
                                  ELSE directory[i]]
      <4> DEFINE i == f.room
      <4>1. i \in OwnRooms(p) /\ f.peer = p
        BY <1>1, <1>6
      <4>2. ~Refused(i, rooms[i].name) /\
            directory' = [j \in DOMAIN directory \cup {i} |->
                            IF j = i THEN [name |-> rooms[i].name, admin |-> p]
                                     ELSE directory[j]]
        BY <3>2, <4>1
      <4> HIDE DEF i
      <4> QED
        BY <1>3, <4>1, <4>2, DirectoryRegisters
    <3> QED
      BY <1>6, <3>1, <3>2 DEF RegisterRoom
  <2> QED
    BY <2>1, <2>2, <2>3, DeliverShape, ShapeHandled
<1>7. CASE f.kind = "unregister" /\ UnregisterRoom(f)
  <2>1. /\ directory' = [i \in DOMAIN directory \ {f.room} |-> directory[i]]
        /\ UNCHANGED <<link, down, store, hit>>
    BY <1>7 DEF UnregisterRoom
  <2>2. DirectoryShape'
    BY <1>3, <2>1, DirectoryUnregisters
  <2>3. StoredShape' /\ ClosedIsEmpty'
    BY <2>1 DEF RoomShape, StoredShape, ClosedIsEmpty
  <2>4. /\ link' \in [Peers -> {"off", "on", "stale"}]
        /\ down' \in [Peers -> Seq(Frame)] /\ store' \in [Peers -> Seq(Frame)]
        /\ \A z \in Peers : Len(store'[z]) <= QueueCap
        /\ hit' \in SUBSET (Peers \X Ids)
    BY <2>1 DEF RoomShape, TypeOK
  <2> QED
    BY <2>2, <2>3, <2>4, ShapeHandled
<1>8. CASE f.kind = "list" /\ RoomList(p)
  <2>1. [kind |-> "listing", rooms |-> DOMAIN directory] \in Frame
    BY DEF RoomShape, TypeOK, Frame
  <2>2. PICK g \in Frame : Deliver(p, g)
    BY <1>8, <2>1 DEF RoomList
  <2>3. UNCHANGED <<link, store, directory>>
    BY <1>8 DEF RoomList
  <2> QED
    BY <1>3, <2>2, <2>3, DirectoryKept, DeliverShape, ShapeHandled
<1>9. CASE f.kind = "join" /\ RouteJoinRequest(p, f)
  <2>1. link' = link /\ directory' = directory
    BY <1>9 DEF RouteJoinRequest
  <2>2. CASE Deliver(p, [f EXCEPT !.kind = "error"]) /\ store' = store
    BY <1>3, <1>5, <2>1, <2>2, DirectoryKept, DeliverShape, ShapeHandled
  <2>3. CASE f.room \in DOMAIN directory
    <3> DEFINE a == directory[f.room].admin
    <3>1. a \in Peers
      BY <2>3, AdminIsOwner
    <3>2. \/ link[a] = "off" /\ Store(a, f) /\ UNCHANGED down
          \/ link[a] # "off" /\ Deliver(a, f) /\ UNCHANGED store
          \/ Deliver(p, [f EXCEPT !.kind = "error"]) /\ store' = store
      BY <1>9, <2>3 DEF RouteJoinRequest
    <3> HIDE DEF a
    <3>3. CASE link[a] = "off" /\ Store(a, f) /\ UNCHANGED down
      <4>1. link' = [link EXCEPT ![a] = "off"] /\ link[a] # "on"
        BY <1>4, <2>1, <3>1, <3>3
      <4>2. f.kind \in {"join", "approved", "denied"}
        BY <1>9
      <4> QED
        BY <1>1, <1>3, <2>1, <3>1, <3>3, <4>1, <4>2, DirectoryKept, StoreShape, ShapeHandled
    <3>4. CASE link[a] # "off" /\ Deliver(a, f) /\ UNCHANGED store
      BY <1>1, <1>3, <2>1, <3>1, <3>4, DirectoryKept, DeliverShape, ShapeHandled
    <3> QED
      BY <2>2, <3>2, <3>3, <3>4
  <2> QED
    BY <1>9, <2>2, <2>3 DEF RouteJoinRequest
<1>10. CASE f.kind \in {"approved", "denied"} /\ RouteRoomToPeer(f)
  <2> DEFINE a == f.peer
  <2>1. a \in Peers
    BY <1>1
  <2>2. /\ \/ link[a] = "on" /\ Deliver(a, f) /\ UNCHANGED store
           \/ link[a] # "on" /\ Store(a, f) /\ UNCHANGED down
        /\ link' = [link EXCEPT ![a] = IF @ = "stale" THEN "off" ELSE @]
        /\ directory' = directory
    BY <1>10 DEF RouteRoomToPeer
  <2> HIDE DEF a
  <2>3. CASE link[a] = "on" /\ Deliver(a, f) /\ UNCHANGED store
    <3>1. link' = link
      BY <1>4, <2>1, <2>2, <2>3
    <3> QED
      BY <1>1, <1>3, <2>1, <2>2, <2>3, <3>1, DirectoryKept, DeliverShape, ShapeHandled
  <2>4. CASE link[a] # "on" /\ Store(a, f) /\ UNCHANGED down
    <3>1. link' = [link EXCEPT ![a] = "off"]
      BY <1>4, <2>1, <2>2, <2>4
    <3>2. f.kind \in {"join", "approved", "denied"}
      BY <1>10
    <3> QED
      BY <1>1, <1>3, <2>1, <2>2, <2>4, <3>1, <3>2, DirectoryKept, StoreShape, ShapeHandled
  <2> QED
    BY <2>2, <2>3, <2>4
<1> QED
  BY <1>2, <1>6, <1>7, <1>8, <1>9, <1>10

-----------------------------------------------------------------------------
(* The trace of a request *)

Asks(f, p, i) == f.kind = "join" /\ f.room = i /\ f.peer = p
Sealed(f, p, i) == f.kind = "opaque" /\ f.room = i /\ f.peer = p
Tells(f, p, i) == f.kind \in Answers /\ f.room = i /\ f.peer = p

\* Where the request of p for room i has got to, or the answer of the creator a.
Trace(p, i, a) ==
  \/ \E f \in Elems(up[p]) : Asks(f, p, i)
  \/ \E f \in Elems(down[a]) : Asks(f, p, i) \/ Sealed(f, p, i)
  \/ \E f \in Elems(store[a]) : Asks(f, p, i) \/ Sealed(f, p, i)
  \/ p \in Elems(requests[i])
  \/ \E f \in Elems(up[a]) : Tells(f, p, i)
  \/ \E f \in Elems(down[p]) : Tells(f, p, i) \/ Sealed(f, p, i)
  \/ \E f \in Elems(store[p]) : Tells(f, p, i) \/ Sealed(f, p, i)

TracesKept == \A r \in asked \ (hit \cup unread) : Trace(r[1], r[2], Owner(r[2]))

LEMMA AboutElems ==
  ASSUME NEW s \in Seq(Frame), NEW p, NEW i, NEW K
  PROVE  About(s, p, i, K) <=> \E f \in Elems(s) : f.kind \in K /\ f.room = i /\ f.peer = p
<1>1. DOMAIN s = 1..Len(s)
  BY LenProperties
<1> QED
  BY <1>1 DEF About, Elems

LEMMA TraceMeaning ==
  ASSUME TypeOK, NEW p \in Peers, NEW i \in Ids, NEW a \in Peers
  PROVE  Trace(p, i, a) <=>
           \/ About(up[p], p, i, {"join"})
           \/ About(down[a] \o store[a], p, i, {"join", "opaque"})
           \/ Contains(requests[i], p)
           \/ About(up[a], p, i, Answers)
           \/ About(down[p] \o store[p], p, i, Answers \cup {"opaque"})
<1>1. /\ up[p] \in Seq(Frame) /\ up[a] \in Seq(Frame)
      /\ down[p] \in Seq(Frame) /\ down[a] \in Seq(Frame)
      /\ store[p] \in Seq(Frame) /\ store[a] \in Seq(Frame)
  BY DEF TypeOK
<1> DEFINE s == down[a] \o store[a]  t == down[p] \o store[p]
<1>2. /\ s \in Seq(Frame) /\ Elems(s) = Elems(down[a]) \cup Elems(store[a])
      /\ t \in Seq(Frame) /\ Elems(t) = Elems(down[p]) \cup Elems(store[p])
  BY <1>1, ConcatElems
<1> HIDE DEF s, t
<1>3. About(up[p], p, i, {"join"}) <=> \E f \in Elems(up[p]) : Asks(f, p, i)
  <2> DEFINE K == {"join"}
  <2>1. \A f \in Elems(up[p]) : f.kind \in K <=> f.kind = "join"
    OBVIOUS
  <2> HIDE DEF K
  <2>2. About(up[p], p, i, K) <=>
          \E f \in Elems(up[p]) : f.kind \in K /\ f.room = i /\ f.peer = p
    BY <1>1, AboutElems
  <2>3. About(up[p], p, i, K) <=> \E f \in Elems(up[p]) : Asks(f, p, i)
    BY <2>1, <2>2 DEF Asks
  <2> QED
    BY <2>3 DEF K
<1>4. About(s, p, i, {"join", "opaque"}) <=>
        \/ \E f \in Elems(down[a]) : Asks(f, p, i) \/ Sealed(f, p, i)
        \/ \E f \in Elems(store[a]) : Asks(f, p, i) \/ Sealed(f, p, i)
  BY <1>2, AboutElems DEF Asks, Sealed
<1>5. About(up[a], p, i, Answers) <=> \E f \in Elems(up[a]) : Tells(f, p, i)
  BY <1>1, AboutElems DEF Tells
<1>6. About(t, p, i, Answers \cup {"opaque"}) <=>
        \/ \E f \in Elems(down[p]) : Tells(f, p, i) \/ Sealed(f, p, i)
        \/ \E f \in Elems(store[p]) : Tells(f, p, i) \/ Sealed(f, p, i)
  BY <1>2, AboutElems DEF Tells, Sealed
<1>7. Contains(requests[i], p) <=> p \in Elems(requests[i])
  BY DEF Contains, Elems
<1> QED
  BY <1>3, <1>4, <1>5, <1>6, <1>7 DEF Trace, s, t

LEMMA KeptMeansTraced ==
  ASSUME TypeOK, AskedShape
  PROVE  RequestsAreKept <=> TracesKept
<1>1. ASSUME NEW r \in asked PROVE r[1] \in Peers /\ r[2] \in Ids /\ Owner(r[2]) \in Peers
  <2>1. r \in Peers \X Ids
    BY <1>1 DEF TypeOK
  <2>2. r[2] \in DOMAIN rooms
    BY <1>1 DEF AskedShape
  <2> QED
    BY <2>1, <2>2, RoomIds DEF Owner
<1>2. ASSUME NEW r \in asked \ (hit \cup unread)
      PROVE  Trace(r[1], r[2], Owner(r[2])) <=>
               LET p == r[1]  i == r[2]  a == rooms[i].owner
                   answers == {"approved", "denied", "error"}
               IN \/ About(up[p], p, i, {"join"})
                  \/ About(down[a] \o store[a], p, i, {"join", "opaque"})
                  \/ Contains(requests[i], p)
                  \/ About(up[a], p, i, answers)
                  \/ About(down[p] \o store[p], p, i, answers \cup {"opaque"})
  <2> DEFINE p == r[1]  i == r[2]  a == Owner(i)
  <2>1. p \in Peers /\ i \in Ids /\ a \in Peers
    BY <1>1, <1>2
  <2>2. Trace(p, i, a) <=>
           \/ About(up[p], p, i, {"join"})
           \/ About(down[a] \o store[a], p, i, {"join", "opaque"})
           \/ Contains(requests[i], p)
           \/ About(up[a], p, i, Answers)
           \/ About(down[p] \o store[p], p, i, Answers \cup {"opaque"})
    <3> HIDE DEF p, i, a
    <3> QED
      BY <2>1, TraceMeaning
  <2> QED
    BY <2>2 DEF Owner, Answers
<1> QED
  BY <1>2 DEF RequestsAreKept, TracesKept

-----------------------------------------------------------------------------
(* No step loses a trace *)

\* The facts about a request that is still to be traced after a step.
LEMMA AskedFacts ==
  ASSUME RoomShape, NEW r \in asked
  PROVE  /\ r = <<r[1], r[2]>> /\ r[1] \in Peers /\ r[2] \in Ids /\ r[2] \in DOMAIN rooms
         /\ Owner(r[2]) \in Peers
<1>1. r \in Peers \X Ids
  BY DEF RoomShape, TypeOK
<1>2. r[2] \in DOMAIN rooms
  BY DEF RoomShape, AskedShape
<1> QED
  BY <1>1, <1>2, RoomIds DEF RoomShape, Owner

\* Every trace that is not given up is there after the step.
TracesMove ==
  \A p, a \in Peers : \A i \in DOMAIN rooms :
    /\ a = Owner(i) /\ <<p, i>> \in asked' \ (hit' \cup unread')
    /\ Trace(p, i, a)
    => Trace(p, i, a)'

LEMMA TracesMoved ==
  ASSUME RoomShape, TracesKept, TracesMove,
         \A i \in DOMAIN rooms : Owner(i)' = Owner(i),
         hit \subseteq hit', unread \subseteq unread',
         \A r \in asked' : r \in asked \/ \E f \in Elems(up'[r[1]]) : Asks(f, r[1], r[2])
  PROVE  TracesKept'
<1> SUFFICES ASSUME NEW r \in asked' \ (hit' \cup unread')
             PROVE  Trace(r[1], r[2], Owner(r[2]))'
  BY DEF TracesKept
<1>1. CASE r \in asked
  <2>1. r \in asked \ (hit \cup unread)
    BY <1>1
  <2> DEFINE p == r[1]  i == r[2]
  <2>2. p \in Peers /\ i \in DOMAIN rooms /\ Owner(i) \in Peers /\ r = <<p, i>>
    BY <2>1, AskedFacts
  <2>3. PICK a \in Peers : a = Owner(i)
    BY <2>2
  <2>4. Trace(p, i, a)
    BY <2>1, <2>3 DEF TracesKept
  <2>5. Owner(i)' = a
    BY <2>2, <2>3
  <2> HIDE DEF p, i
  <2>6. Trace(p, i, a)'
    BY <2>2, <2>3, <2>4 DEF TracesMove
  <2> QED
    BY <2>5, <2>6 DEF p, i
<1>2. CASE \E f \in Elems(up'[r[1]]) : Asks(f, r[1], r[2])
  BY <1>2 DEF Trace
<1> QED
  BY <1>1, <1>2

\* A step that takes nothing from the queues.
LEMMA TracesGrow ==
  ASSUME RoomShape, TracesKept,
         \A i \in DOMAIN rooms : Owner(i)' = Owner(i),
         UNCHANGED <<down, store, requests, hit, unread>>,
         \A p \in Peers : Elems(up[p]) \subseteq Elems(up'[p]),
         \A r \in asked' : r \in asked \/ \E f \in Elems(up'[r[1]]) : Asks(f, r[1], r[2])
  PROVE  TracesKept'
<1>1. TracesMove
  BY DEF TracesMove, Trace
<1> QED
  BY <1>1, TracesMoved

LEMMA TracesCreateRoom ==
  ASSUME RoomShape, TracesKept, NEW p \in Peers, NEW raw \in RawNames, CreateRoom(p, raw)
  PROVE  TracesKept'
<1>1. /\ rooms \in Seq([owner : Peers, name : RoomNames]) /\ DOMAIN rooms = 1..Len(rooms)
  BY LenProperties DEF RoomShape, TypeOK
<1> DEFINE e == [owner |-> p, name |-> Sanitize[raw]]
<1>2. e \in [owner : Peers, name : RoomNames]
  BY DEF CreateRoom, RoomNames
<1>3. /\ rooms' = Append(rooms, e)
      /\ UNCHANGED <<requests, wireVars, peerVars, hit>>
  BY DEF CreateRoom
<1> HIDE DEF e
<1>4. \A i \in DOMAIN rooms : rooms'[i] = rooms[i]
  BY <1>1, <1>2, <1>3, AppendProperties
<1>5. \A i \in DOMAIN rooms : Owner(i)' = Owner(i)
  BY <1>4 DEF Owner
<1> QED
  BY <1>3, <1>5, TracesGrow DEF wireVars, peerVars

LEMMA TracesSend ==
  ASSUME RoomShape, TracesKept, NEW p \in Peers, NEW list \in Seq(Frame),
         SendFrames(p, list), UNCHANGED <<rooms, requests, hit, unread>>,
         \A r \in asked' : r \in asked \/ \E f \in Elems(list) : Asks(f, r[1], r[2]) /\ r[1] = p
  PROVE  TracesKept'
<1>1. /\ Elems(up'[p]) = Elems(up[p]) \cup Elems(list)
      /\ \A q \in Peers : q # p => up'[q] = up[q]
  BY SendMoves DEF RoomShape
<1>2. UNCHANGED <<down, store>>
  BY DEF SendFrames
<1>3. \A i \in DOMAIN rooms : Owner(i)' = Owner(i)
  BY DEF Owner
<1>4. \A q \in Peers : Elems(up[q]) \subseteq Elems(up'[q])
  BY <1>1
<1>5. \A r \in asked' : r \in asked \/ \E f \in Elems(up'[r[1]]) : Asks(f, r[1], r[2])
  BY <1>1
<1> QED
  BY <1>2, <1>3, <1>4, <1>5, TracesGrow

LEMMA TracesDrain ==
  ASSUME RoomShape, TracesKept, NEW p \in Peers, DrainRegistrations(p)
  PROVE  TracesKept'
<1> DEFINE list == Registrations(p)
<1>1. list \in Seq(Frame)
  BY RegistrationsSent
<1>2. SendFrames(p, list) /\ UNCHANGED <<rooms, requests, hit, peerVars>>
  BY DEF DrainRegistrations, Registrations
<1> HIDE DEF list
<1> QED
  BY <1>1, <1>2, TracesSend DEF peerVars

\* The sequence of the one frame that SendFrame sends.
LEMMA SentOne ==
  ASSUME NEW p \in Peers, NEW k \in RoomKinds, NEW i \in Ids, NEW q \in Peers,
         SendFrame(p, k, i, q)
  PROVE  \E list \in Seq(Frame) :
           SendFrames(p, list) /\ Elems(list) = {[kind |-> k, room |-> i, peer |-> q]}
<1> DEFINE f == [kind |-> k, room |-> i, peer |-> q]
<1>1. f \in Frame /\ SendFrames(p, <<f>>)
  BY FrameMade DEF SendFrame
<1> HIDE DEF f
<1>2. <<f>> \in Seq(Frame) /\ Elems(<<f>>) = {f}
  BY <1>1, OneElem
<1> QED
  BY <1>1, <1>2 DEF f

LEMMA TracesUnregister ==
  ASSUME RoomShape, TracesKept, NEW p \in Peers, NEW i, Unregister(p, i)
  PROVE  TracesKept'
<1>1. i \in Ids /\ "unregister" \in RoomKinds
  BY RoomIds DEF RoomShape, Unregister, OwnRooms, RoomKinds, ClientKinds
<1>2. SendFrame(p, "unregister", i, p) /\ UNCHANGED <<clientVars, directory, peerVars, hit>>
  BY DEF Unregister
<1>3. PICK list \in Seq(Frame) : SendFrames(p, list)
  BY <1>1, <1>2, SentOne
<1> QED
  BY <1>2, <1>3, TracesSend DEF clientVars, peerVars

LEMMA TracesListRooms ==
  ASSUME RoomShape, TracesKept, NEW p \in Peers, ListRooms(p)
  PROVE  TracesKept'
<1>1. 1 \in Ids /\ "list" \in RoomKinds
  BY DirectoryAssumption DEF Ids, RoomKinds, ClientKinds
<1>2. SendFrame(p, "list", 1, p) /\ UNCHANGED <<clientVars, directory, peerVars, hit>>
  BY DEF ListRooms, SendFrame
<1>3. PICK list \in Seq(Frame) : SendFrames(p, list)
  BY <1>1, <1>2, SentOne
<1> QED
  BY <1>2, <1>3, TracesSend DEF clientVars, peerVars

LEMMA TracesAskToJoin ==
  ASSUME RoomShape, TracesKept, NEW p \in Peers, NEW i \in DOMAIN rooms, AskToJoin(p, i)
  PROVE  TracesKept'
<1>1. i \in Ids /\ "join" \in RoomKinds
  BY RoomIds DEF RoomShape, RoomKinds, ClientKinds
<1>2. /\ SendFrame(p, "join", i, p) /\ asked' = asked \cup {<<p, i>>}
      /\ UNCHANGED <<clientVars, directory, known, unread, hit>>
  BY DEF AskToJoin
<1> DEFINE f == [kind |-> "join", room |-> i, peer |-> p]
<1>3. PICK list \in Seq(Frame) : SendFrames(p, list) /\ Elems(list) = {f}
  BY <1>1, <1>2, SentOne
<1>4. Asks(f, p, i)
  BY DEF Asks
<1> HIDE DEF f
<1>5. \A r \in asked' : r \in asked \/ \E g \in Elems(list) : Asks(g, r[1], r[2]) /\ r[1] = p
  BY <1>2, <1>3, <1>4
<1> QED
  BY <1>2, <1>3, <1>5, TracesSend DEF clientVars

\* A request that goes from those that wait is answered.
LEMMA TracesAnswer ==
  ASSUME RoomShape, TracesKept, NEW p \in Peers, NEW i \in DOMAIN rooms, NEW q \in Peers,
         NEW v \in {"approved", "denied"}, Answer(p, i, v, q)
  PROVE  TracesKept'
<1>0. Answered(p, i, v, q)
  BY AnswerMoves
<1>1. /\ q \in Peers /\ i \in Ids /\ Owner(i) = p
      /\ Elems(requests[i]) \subseteq Elems(requests'[i]) \cup {q}
      /\ \A j \in Ids : j # i => requests'[j] = requests[j]
      /\ SendFrame(p, v, i, q)
      /\ UNCHANGED <<rooms, unsent, directory, peerVars, hit>>
  BY <1>0 DEF Answered
<1>2. v \in RoomKinds /\ v \in Answers
  BY DEF RoomKinds, ClientKinds, Answers
<1> DEFINE f == [kind |-> v, room |-> i, peer |-> q]
<1>3. /\ Elems(up'[p]) = Elems(up[p]) \cup {f}
      /\ \A z \in Peers : z # p => up'[z] = up[z]
      /\ UNCHANGED <<down, store>>
  BY <1>1, <1>2, SendOneMoves DEF RoomShape
<1>4. Tells(f, q, i)
  BY <1>2 DEF Tells
<1> HIDE DEF f
<1>5. DOMAIN rooms \subseteq Ids
  BY RoomIds DEF RoomShape
<1>6. TracesMove
  <2> SUFFICES ASSUME NEW b \in Peers, NEW a \in Peers, NEW j \in DOMAIN rooms,
                      a = Owner(j), Trace(b, j, a)
               PROVE  Trace(b, j, a)'
    BY DEF TracesMove
  <2>1. CASE b \in Elems(requests[j])
    <3>1. b \in Elems(requests'[j]) \/ (j = i /\ b = q)
      BY <1>1, <1>5, <2>1
    <3>2. CASE j = i /\ b = q
      BY <1>1, <1>3, <1>4, <3>2 DEF Trace
    <3> QED
      BY <3>1, <3>2 DEF Trace
  <2>2. CASE b \notin Elems(requests[j])
    BY <1>3, <2>2 DEF Trace
  <2> QED
    BY <2>1, <2>2
<1>7. \A j \in DOMAIN rooms : Owner(j)' = Owner(j)
  BY <1>1 DEF Owner
<1> QED
  BY <1>1, <1>6, <1>7, TracesMoved DEF peerVars

\* The frame that is read: a request now waits, an answer is had, a payload unread.
LEMMA TracesReadFrame ==
  ASSUME RoomShape, TracesKept, NEW p \in Peers, ReadFrame(p)
  PROVE  TracesKept'
<1> DEFINE f == Head(down[p])  t == Tail(down[p])
<1>1. /\ down \in [Peers -> Seq(Frame)] /\ down[p] \in Seq(Frame) /\ down[p] # << >>
      /\ requests \in [Ids -> Seq(Peers)]
  BY DEF RoomShape, TypeOK, ReadFrame
<1>2. /\ t \in Seq(Frame) /\ f \in Frame
      /\ Elems(down[p]) = {f} \cup Elems(t)
  BY <1>1, TakeFirst
<1>3. f.kind # "listing" => f.room \in Ids /\ f.peer \in Peers
  BY <1>2, FrameFields
<1>4. /\ down' = [down EXCEPT ![p] = t]
      /\ requests' = IF f.kind = "join"
                     THEN [requests EXCEPT ![f.room] = Append(@, f.peer)] ELSE requests
      /\ unread' = IF f.kind = "opaque" THEN unread \cup {<<f.peer, f.room>>} ELSE unread
      /\ asked' = IF f.kind \in {"approved", "denied", "error"}
                  THEN asked \ {<<p, f.room>>} ELSE asked
      /\ UNCHANGED <<rooms, up, store, hit>>
  BY DEF ReadFrame
<1> HIDE DEF f, t
<1>5. /\ down'[p] = t /\ \A z \in Peers : z # p => down'[z] = down[z]
  BY <1>1, <1>2, <1>4
<1>6. /\ \A i \in Ids : Elems(requests[i]) \subseteq Elems(requests'[i])
      /\ f.kind = "join" => f.peer \in Elems(requests'[f.room])
  <2>1. CASE f.kind = "join"
    <3>1. f.room \in Ids /\ f.peer \in Peers
      BY <1>3, <2>1
    <3> DEFINE s == Append(requests[f.room], f.peer)
    <3>2. s \in Seq(Peers) /\ Elems(s) = Elems(requests[f.room]) \cup {f.peer}
      BY <1>1, <3>1, AppendElems
    <3>3. requests' = [requests EXCEPT ![f.room] = s]
      BY <1>4, <2>1
    <3> HIDE DEF s
    <3> QED
      BY <1>1, <3>1, <3>2, <3>3
  <2>2. CASE f.kind # "join"
    BY <1>4, <2>2
  <2> QED
    BY <2>1, <2>2
<1>7. TracesMove
  <2> SUFFICES ASSUME NEW q \in Peers, NEW a \in Peers, NEW i \in DOMAIN rooms,
                      a = Owner(i), <<q, i>> \in asked', <<q, i>> \notin unread',
                      Trace(q, i, a)
               PROVE  Trace(q, i, a)'
    BY DEF TracesMove
  <2>1. i \in Ids
    BY RoomIds DEF RoomShape
  <2>2. ~Sealed(f, q, i)
    BY <1>4 DEF Sealed
  <2>3. Asks(f, q, i) => q \in Elems(requests'[i])
    BY <1>6 DEF Asks
  <2>4. q = p => ~Tells(f, q, i)
    BY <1>4 DEF Tells, Answers
  <2>5. CASE \E g \in Elems(down[a]) : Asks(g, q, i) \/ Sealed(g, q, i)
    BY <1>2, <1>5, <2>2, <2>3, <2>5 DEF Trace
  <2>6. CASE \E g \in Elems(down[q]) : Tells(g, q, i) \/ Sealed(g, q, i)
    BY <1>2, <1>5, <2>2, <2>4, <2>6 DEF Trace
  <2>7. CASE q \in Elems(requests[i])
    BY <1>6, <2>1, <2>7 DEF Trace
  <2> QED
    BY <1>4, <2>5, <2>6, <2>7 DEF Trace
<1>8. \A i \in DOMAIN rooms : Owner(i)' = Owner(i)
  BY <1>4 DEF Owner
<1>9. asked' \subseteq asked /\ unread \subseteq unread'
  BY <1>4
<1> QED
  BY <1>4, <1>7, <1>8, <1>9, TracesMoved

\* What was stored is delivered, sealed.
LEMMA TracesConnect ==
  ASSUME RoomShape, TracesKept, NEW p \in Peers, Connect(p)
  PROVE  TracesKept'
<1> DEFINE s == Payloads(p)
<1>1. \A f \in Elems(store[p]) : \E g \in Elems(s) :
        g.kind = "opaque" /\ g.room = f.room /\ g.peer = f.peer
  BY PayloadsDelivered DEF RoomShape
<1>2. /\ down' = [down EXCEPT ![p] = s] /\ store' = [store EXCEPT ![p] = << >>]
      /\ link[p] = "off" /\ UNCHANGED <<clientVars, up, peerVars, hit>>
  BY DEF Connect, Payloads
<1> HIDE DEF s
<1>3. /\ down'[p] = s /\ store'[p] = << >>
      /\ \A z \in Peers : z # p => down'[z] = down[z] /\ store'[z] = store[z]
  BY <1>2 DEF RoomShape, TypeOK
<1>4. Elems(down[p]) = {}
  BY <1>2, EmptyElems DEF RoomShape, ClosedIsEmpty
<1>5. \A q, i : \A f \in Elems(store[p]) :
        Asks(f, q, i) \/ Tells(f, q, i) \/ Sealed(f, q, i)
          => \E g \in Elems(down'[p]) : Sealed(g, q, i)
  BY <1>1, <1>3 DEF Asks, Tells, Sealed
<1>6. TracesMove
  <2> SUFFICES ASSUME NEW q \in Peers, NEW a \in Peers, NEW i \in DOMAIN rooms,
                      Trace(q, i, a)
               PROVE  Trace(q, i, a)'
    BY DEF TracesMove
  <2>1. CASE \E g \in Elems(down[a]) \cup Elems(store[a]) : Asks(g, q, i) \/ Sealed(g, q, i)
    BY <1>3, <1>4, <1>5, <2>1 DEF Trace
  <2>2. CASE \E g \in Elems(down[q]) \cup Elems(store[q]) : Tells(g, q, i) \/ Sealed(g, q, i)
    BY <1>3, <1>4, <1>5, <2>2 DEF Trace
  <2>3. UNCHANGED <<up, requests>>
    BY <1>2 DEF clientVars
  <2> QED
    BY <2>1, <2>2, <2>3 DEF Trace
<1>7. \A i \in DOMAIN rooms : Owner(i)' = Owner(i)
  BY <1>2 DEF Owner, clientVars
<1> QED
  BY <1>2, <1>6, <1>7, TracesMoved DEF peerVars

\* What was on the connection is given up.
LEMMA TracesLinkBreaks ==
  ASSUME RoomShape, TracesKept, NEW p \in Peers, LinkBreaks(p)
  PROVE  TracesKept'
<1>1. /\ up' = [up EXCEPT ![p] = << >>] /\ down' = [down EXCEPT ![p] = << >>]
      /\ hit' = hit \cup Requests(up[p]) \cup Requests(down[p])
      /\ UNCHANGED <<clientVars, store, peerVars>>
  BY DEF LinkBreaks
<1>2. /\ up[p] \in Seq(Frame) /\ down[p] \in Seq(Frame)
      /\ \A z \in Peers : z # p => up'[z] = up[z] /\ down'[z] = down[z]
  BY <1>1 DEF RoomShape, TypeOK
<1>3. \A f \in Elems(up[p]) \cup Elems(down[p]) : IsAbout(f) => <<f.peer, f.room>> \in hit'
  BY <1>1, <1>2, RequestsOf
<1>4. \A q, i : \A f \in Elems(up[p]) \cup Elems(down[p]) :
        Asks(f, q, i) \/ Tells(f, q, i) \/ Sealed(f, q, i) => <<q, i>> \in hit'
  BY <1>3 DEF IsAbout, Asks, Tells, Sealed, Answers
<1>5. TracesMove
  <2> SUFFICES ASSUME NEW q \in Peers, NEW a \in Peers, NEW i \in DOMAIN rooms,
                      <<q, i>> \notin hit', Trace(q, i, a)
               PROVE  Trace(q, i, a)'
    BY DEF TracesMove
  <2>1. UNCHANGED <<store, requests>>
    BY <1>1 DEF clientVars
  <2> QED
    BY <1>2, <1>4, <2>1 DEF Trace
<1>6. \A i \in DOMAIN rooms : Owner(i)' = Owner(i)
  BY <1>1 DEF Owner, clientVars
<1> QED
  BY <1>1, <1>5, <1>6, TracesMoved DEF peerVars

LEMMA TracesRelayRestarts ==
  ASSUME RelayRestarts
  PROVE  TracesKept'
<1>1. asked' \ (hit' \cup unread') = {}
  BY DEF RelayRestarts, peerVars
<1> QED
  BY <1>1 DEF TracesKept

\* The relay passes on what is in the frame it handles, or gives it up.
LEMMA TracesHandled ==
  ASSUME RoomShape, TracesKept, NEW p \in Peers, HandleRoomMessage(p),
         hit \subseteq hit',
         \A z \in Peers : Elems(down[z]) \subseteq Elems(down'[z]),
         \A z \in Peers : \A g \in Elems(store[z]) :
            IsAbout(g) => g \in Elems(store'[z]) \/ <<g.peer, g.room>> \in hit',
         \A i \in DOMAIN rooms :
            /\ Asks(Head(up[p]), p, i) /\ <<p, i>> \notin hit' =>
                 \/ \E g \in Elems(down'[p]) : Tells(g, p, i)
                 \/ Head(up[p]) \in Elems(down'[Owner(i)]) \cup Elems(store'[Owner(i)])
            /\ \A q \in Peers : Tells(Head(up[p]), q, i) /\ <<q, i>> \notin hit' =>
                 Head(up[p]) \in Elems(down'[q]) \cup Elems(store'[q])
  PROVE  TracesKept'
<1> DEFINE f == Head(up[p])
<1>1. /\ Elems(up[p]) = {f} \cup Elems(up'[p])
      /\ \A z \in Peers : z # p => up'[z] = up[z]
      /\ UNCHANGED <<clientVars, peerVars>>
  BY TakenFrame
<1>2. \A i \in DOMAIN rooms :
            /\ Asks(f, p, i) /\ <<p, i>> \notin hit' =>
                 \/ \E g \in Elems(down'[p]) : Tells(g, p, i)
                 \/ f \in Elems(down'[Owner(i)]) \cup Elems(store'[Owner(i)])
            /\ \A q \in Peers : Tells(f, q, i) /\ <<q, i>> \notin hit' =>
                 f \in Elems(down'[q]) \cup Elems(store'[q])
  OBVIOUS
<1> HIDE DEF f
<1>3. \A z \in Peers : \A g \in Elems(store[z]) : \A q, i :
        Asks(g, q, i) \/ Tells(g, q, i) \/ Sealed(g, q, i)
          => g \in Elems(store'[z]) \/ <<q, i>> \in hit'
  BY DEF IsAbout, Asks, Tells, Sealed, Answers
<1>4. TracesMove
  <2> SUFFICES ASSUME NEW q \in Peers, NEW a \in Peers, NEW i \in DOMAIN rooms,
                      a = Owner(i), <<q, i>> \notin hit', Trace(q, i, a)
               PROVE  Trace(q, i, a)'
    BY DEF TracesMove
  <2>1. UNCHANGED requests
    BY <1>1 DEF clientVars
  <2>2. CASE \E g \in Elems(up[q]) : Asks(g, q, i)
    <3>1. PICK g \in Elems(up[q]) : Asks(g, q, i)
      BY <2>2
    <3>2. CASE g \in Elems(up'[q])
      BY <3>1, <3>2 DEF Trace
    <3>3. CASE q = p /\ g = f
      BY <1>2, <3>1, <3>3 DEF Trace
    <3> QED
      BY <1>1, <3>1, <3>2, <3>3
  <2>3. CASE \E g \in Elems(up[a]) : Tells(g, q, i)
    <3>1. PICK g \in Elems(up[a]) : Tells(g, q, i)
      BY <2>3
    <3>2. CASE g \in Elems(up'[a])
      BY <3>1, <3>2 DEF Trace
    <3>3. CASE g = f
      BY <1>2, <3>1, <3>3 DEF Trace
    <3> QED
      BY <1>1, <3>1, <3>2, <3>3
  <2>4. CASE \/ \E g \in Elems(down[a]) \cup Elems(store[a]) : Asks(g, q, i) \/ Sealed(g, q, i)
             \/ \E g \in Elems(down[q]) \cup Elems(store[q]) : Tells(g, q, i) \/ Sealed(g, q, i)
    BY <1>3, <2>4 DEF Trace
  <2>5. CASE q \in Elems(requests[i])
    BY <2>1, <2>5 DEF Trace
  <2> QED
    BY <2>2, <2>3, <2>4, <2>5 DEF Trace
<1>5. \A i \in DOMAIN rooms : Owner(i)' = Owner(i)
  BY <1>1 DEF Owner, clientVars
<1> QED
  BY <1>1, <1>4, <1>5, TracesMoved DEF peerVars

\* A frame that is delivered or stored is not lost, nor is any other.
LEMMA TracesDelivered ==
  ASSUME RoomShape, NEW q \in Peers, NEW f \in Frame, Deliver(q, f), UNCHANGED store
  PROVE  /\ hit \subseteq hit'
         /\ \A z \in Peers : Elems(down[z]) \subseteq Elems(down'[z])
         /\ \A z \in Peers : \A g \in Elems(store[z]) :
              IsAbout(g) => g \in Elems(store'[z]) \/ <<g.peer, g.room>> \in hit'
         /\ IsAbout(f) => f \in Elems(down'[q]) \/ <<f.peer, f.room>> \in hit'
<1>1. /\ hit \subseteq hit'
      /\ \A z \in Peers : z # q => down'[z] = down[z]
      /\ Elems(down[q]) \subseteq Elems(down'[q])
      /\ IsAbout(f) => f \in Elems(down'[q]) \/ <<f.peer, f.room>> \in hit'
  BY DeliverMoves DEF RoomShape
<1> QED
  BY <1>1

LEMMA TracesStored ==
  ASSUME RoomShape, NEW q \in Peers, NEW f \in Frame, Store(q, f), UNCHANGED down
  PROVE  /\ hit \subseteq hit'
         /\ \A z \in Peers : Elems(down[z]) \subseteq Elems(down'[z])
         /\ \A z \in Peers : \A g \in Elems(store[z]) :
              IsAbout(g) => g \in Elems(store'[z]) \/ <<g.peer, g.room>> \in hit'
         /\ IsAbout(f) => f \in Elems(store'[q]) \/ <<f.peer, f.room>> \in hit'
<1>1. /\ hit \subseteq hit'
      /\ \A z \in Peers : z # q => store'[z] = store[z]
      /\ \A g \in Elems(store[q]) \cup {f} :
           IsAbout(g) => g \in Elems(store'[q]) \/ <<g.peer, g.room>> \in hit'
  BY StoreMoves DEF RoomShape
<1> QED
  BY <1>1

LEMMA TracesHandleRoomMessage ==
  ASSUME RoomShape, TracesKept, NEW p \in Peers, HandleRoomMessage(p)
  PROVE  TracesKept'
<1> DEFINE f == Head(up[p])
           Passed ==
             \A i \in DOMAIN rooms :
               /\ Asks(f, p, i) /\ <<p, i>> \notin hit' =>
                    \/ \E g \in Elems(down'[p]) : Tells(g, p, i)
                    \/ f \in Elems(down'[Owner(i)]) \cup Elems(store'[Owner(i)])
               /\ \A q \in Peers : Tells(f, q, i) /\ <<q, i>> \notin hit' =>
                    f \in Elems(down'[q]) \cup Elems(store'[q])
           Queues ==
             /\ hit \subseteq hit'
             /\ \A z \in Peers : Elems(down[z]) \subseteq Elems(down'[z])
             /\ \A z \in Peers : \A g \in Elems(store[z]) :
                  IsAbout(g) => g \in Elems(store'[z]) \/ <<g.peer, g.room>> \in hit'
<1>1. f \in Frame /\ f.kind \in ClientKinds /\ f.room \in Ids /\ f.peer \in Peers
  BY TakenFrame
<1>2. \/ f.kind = "register" /\ RegisterRoom(p, f)
      \/ f.kind = "unregister" /\ UnregisterRoom(f)
      \/ f.kind = "list" /\ RoomList(p)
      \/ f.kind = "join" /\ RouteJoinRequest(p, f)
      \/ f.kind \in {"approved", "denied"} /\ RouteRoomToPeer(f)
  BY DEF HandleRoomMessage
<1>3. /\ [f EXCEPT !.kind = "error"] \in Frame
      /\ [f EXCEPT !.kind = "confirmed"] \in Frame
      /\ [f EXCEPT !.kind = "error"].kind = "error"
      /\ [f EXCEPT !.kind = "error"].room = f.room
      /\ [f EXCEPT !.kind = "error"].peer = f.peer
  BY <1>1, FrameRenamed DEF RoomKinds
<1>4. SUFFICES Queues /\ Passed
  BY TracesHandled
<1> HIDE DEF f
<1>5. f.kind \in {"register", "unregister", "list"} => Passed
  BY DEF Asks, Tells, Answers
<1>6. CASE f.kind = "register" /\ RegisterRoom(p, f)
  <2>1. \E k \in {"error", "confirmed"} : Deliver(p, [f EXCEPT !.kind = k])
    BY <1>6 DEF RegisterRoom
  <2>2. PICK g \in Frame : Deliver(p, g)
    BY <1>3, <2>1
  <2>3. UNCHANGED store
    BY <1>6 DEF RegisterRoom
  <2>4. Queues
    BY <2>2, <2>3, TracesDelivered
  <2> QED
    BY <1>5, <1>6, <2>4
<1>7. CASE f.kind = "unregister" /\ UnregisterRoom(f)
  <2>1. UNCHANGED <<down, store, hit>>
    BY <1>7 DEF UnregisterRoom
  <2>2. Queues
    BY <2>1
  <2> QED
    BY <1>5, <1>7, <2>2
<1>8. CASE f.kind = "list" /\ RoomList(p)
  <2>1. [kind |-> "listing", rooms |-> DOMAIN directory] \in Frame
    BY DEF RoomShape, TypeOK, Frame
  <2>2. PICK g \in Frame : Deliver(p, g)
    BY <1>8, <2>1 DEF RoomList
  <2>3. UNCHANGED store
    BY <1>8 DEF RoomList
  <2>4. Queues
    BY <2>2, <2>3, TracesDelivered
  <2> QED
    BY <1>5, <1>8, <2>4
<1>9. CASE f.kind = "join" /\ RouteJoinRequest(p, f)
  <2>1. \A q \in Peers, i \in DOMAIN rooms : ~Tells(f, q, i)
    BY <1>9 DEF Tells, Answers
  <2>2. CASE Deliver(p, [f EXCEPT !.kind = "error"]) /\ UNCHANGED store
    <3> DEFINE g == [f EXCEPT !.kind = "error"]
    <3>1. g \in Frame /\ g.kind = "error" /\ g.room = f.room /\ g.peer = f.peer
      BY <1>3
    <3>2. Deliver(p, g) /\ UNCHANGED store
      BY <2>2
    <3> HIDE DEF g
    <3>3. Queues /\ (IsAbout(g) => g \in Elems(down'[p]) \/ <<g.peer, g.room>> \in hit')
      BY <3>1, <3>2, TracesDelivered
    <3>4. Passed
      BY <2>1, <3>1, <3>3 DEF IsAbout, Asks, Tells, Answers
    <3> QED
      BY <3>3, <3>4
  <2>3. CASE f.room \in DOMAIN directory
    <3> DEFINE a == Owner(f.room)
    <3>1. a \in Peers /\ a = directory[f.room].admin
      BY <2>3, AdminIsOwner DEF Owner
    <3>2. \/ Store(a, f) /\ UNCHANGED down
          \/ Deliver(a, f) /\ UNCHANGED store
          \/ Deliver(p, [f EXCEPT !.kind = "error"]) /\ UNCHANGED store
      BY <1>9, <2>3, <3>1 DEF RouteJoinRequest
    <3>3. \A i : Asks(f, p, i) => i = f.room /\ f.peer = p
      BY DEF Asks
    <3>4. ASSUME \/ f \in Elems(down'[Owner(f.room)]) \cup Elems(store'[Owner(f.room)])
                 \/ <<f.peer, f.room>> \in hit'
          PROVE  Passed
      BY <2>1, <3>3, <3>4
    <3>5. IsAbout(f)
      BY <1>9 DEF IsAbout
    <3>6. ASSUME NEW b \in Peers, b = a, Store(b, f) /\ UNCHANGED down
          PROVE  Queues /\ Passed
      <4>1. Queues /\ (f \in Elems(store'[b]) \/ <<f.peer, f.room>> \in hit')
        BY <1>1, <3>5, <3>6, TracesStored
      <4>2. f \in Elems(store'[Owner(f.room)]) \/ <<f.peer, f.room>> \in hit'
        BY <3>6, <4>1
      <4> QED
        BY <3>4, <4>1, <4>2
    <3>7. ASSUME NEW b \in Peers, b = a, Deliver(b, f) /\ UNCHANGED store
          PROVE  Queues /\ Passed
      <4>1. Queues /\ (f \in Elems(down'[b]) \/ <<f.peer, f.room>> \in hit')
        BY <1>1, <3>5, <3>7, TracesDelivered
      <4>2. f \in Elems(down'[Owner(f.room)]) \/ <<f.peer, f.room>> \in hit'
        BY <3>7, <4>1
      <4> QED
        BY <3>4, <4>1, <4>2
    <3> QED
      BY <2>2, <3>1, <3>2, <3>6, <3>7
  <2> QED
    BY <1>9, <2>2, <2>3 DEF RouteJoinRequest
<1>10. CASE f.kind \in {"approved", "denied"} /\ RouteRoomToPeer(f)
  <2> DEFINE a == f.peer
  <2>1. a \in Peers /\ IsAbout(f)
    BY <1>1, <1>10 DEF IsAbout
  <2>2. \/ Deliver(a, f) /\ UNCHANGED store
        \/ Store(a, f) /\ UNCHANGED down
    BY <1>10 DEF RouteRoomToPeer
  <2>3. \A i \in DOMAIN rooms : ~Asks(f, p, i)
    BY <1>10 DEF Asks
  <2>4. \A q, i : Tells(f, q, i) => q = a /\ i = f.room
    BY DEF Tells
  <2> HIDE DEF a
  <2>5. CASE Deliver(a, f) /\ UNCHANGED store
    <3>1. Queues /\ (f \in Elems(down'[a]) \/ <<f.peer, f.room>> \in hit')
      BY <1>1, <2>1, <2>5, TracesDelivered
    <3> QED
      BY <2>3, <2>4, <3>1 DEF a
  <2>6. CASE Store(a, f) /\ UNCHANGED down
    <3>1. Queues /\ (f \in Elems(store'[a]) \/ <<f.peer, f.room>> \in hit')
      BY <1>1, <2>1, <2>6, TracesStored
    <3> QED
      BY <2>3, <2>4, <3>1 DEF a
  <2> QED
    BY <2>2, <2>5, <2>6
<1> QED
  BY <1>2, <1>6, <1>7, <1>8, <1>9, <1>10

-----------------------------------------------------------------------------
(* The theorems *)

LEMMA TracesQueueRegistration ==
  ASSUME RoomShape, TracesKept, NEW p \in Peers, NEW i, QueueRegistration(p, i)
  PROVE  TracesKept'
<1>1. UNCHANGED <<rooms, requests, wireVars, peerVars, hit>>
  BY DEF QueueRegistration
<1>2. \A j \in DOMAIN rooms : Owner(j)' = Owner(j)
  BY <1>1 DEF Owner
<1> QED
  BY <1>1, <1>2, TracesGrow DEF wireVars, peerVars

LEMMA TracesStutter == TracesKept /\ UNCHANGED vars => TracesKept'
  BY DEF TracesKept, Trace, Owner, vars, clientVars, wireVars, peerVars

LEMMA ShapeStep == RoomShape /\ [Next]_vars => RoomShape'
<1> SUFFICES ASSUME RoomShape, [Next]_vars PROVE RoomShape'
  OBVIOUS
<1>1. CASE UNCHANGED vars
  BY <1>1, ShapeStutter
<1>2. CASE RelayRestarts
  BY <1>2, ShapeRelayRestarts
<1>3. ASSUME NEW p \in Peers, Connect(p) \/ LinkBreaks(p) \/ HandleRoomMessage(p)
      PROVE  RoomShape'
  BY <1>3, ShapeConnect, ShapeLinkBreaks, ShapeHandleRoomMessage
<1>4. ASSUME NEW p \in Peers, Client(p)
      PROVE  RoomShape'
  <2>1. CASE \E n \in RawNames : CreateRoom(p, n)
    BY <2>1, ShapeCreateRoom
  <2>2. ASSUME NEW i \in DOMAIN rooms,
               QueueRegistration(p, i) \/ Unregister(p, i) \/ AskToJoin(p, i)
        PROVE  RoomShape'
    BY <2>2, ShapeQueueRegistration, ShapeUnregister, ShapeAskToJoin
  <2>3. ASSUME NEW i \in DOMAIN rooms, NEW q \in Peers, NEW v \in {"approved", "denied"},
               Answer(p, i, v, q)
        PROVE  RoomShape'
    BY <2>3, ShapeAnswer
  <2>4. CASE DrainRegistrations(p) \/ ListRooms(p) \/ ReadFrame(p)
    BY <2>4, ShapeDrainRegistrations, ShapeListRooms, ShapeReadFrame
  <2> QED
    BY <1>4, <2>1, <2>2, <2>3, <2>4 DEF Client, Answer
<1> QED
  BY <1>1, <1>2, <1>3, <1>4 DEF Next

LEMMA TracesStep == RoomShape /\ TracesKept /\ [Next]_vars => TracesKept'
<1> SUFFICES ASSUME RoomShape, TracesKept, [Next]_vars PROVE TracesKept'
  OBVIOUS
<1>1. CASE UNCHANGED vars
  BY <1>1, TracesStutter
<1>2. CASE RelayRestarts
  BY <1>2, TracesRelayRestarts
<1>3. ASSUME NEW p \in Peers, Connect(p) \/ LinkBreaks(p) \/ HandleRoomMessage(p)
      PROVE  TracesKept'
  BY <1>3, TracesConnect, TracesLinkBreaks, TracesHandleRoomMessage
<1>4. ASSUME NEW p \in Peers, Client(p)
      PROVE  TracesKept'
  <2>1. CASE \E n \in RawNames : CreateRoom(p, n)
    BY <2>1, TracesCreateRoom
  <2>2. ASSUME NEW i \in DOMAIN rooms,
               QueueRegistration(p, i) \/ Unregister(p, i) \/ AskToJoin(p, i)
        PROVE  TracesKept'
    BY <2>2, TracesQueueRegistration, TracesUnregister, TracesAskToJoin
  <2>3. ASSUME NEW i \in DOMAIN rooms, NEW q \in Peers, NEW v \in {"approved", "denied"},
               Answer(p, i, v, q)
        PROVE  TracesKept'
    BY <2>3, TracesAnswer
  <2>4. CASE DrainRegistrations(p) \/ ListRooms(p) \/ ReadFrame(p)
    BY <2>4, TracesDrain, TracesListRooms, TracesReadFrame
  <2> QED
    BY <1>4, <2>1, <2>2, <2>3, <2>4 DEF Client, Answer
<1> QED
  BY <1>1, <1>2, <1>3, <1>4 DEF Next

\* The inductive invariant holds: in every state the directory, the frames and the
\* lists of the clients have their shape, and every request has left its trace.
THEOREM RoomInvHolds == Spec => [](RoomShape /\ TracesKept)
<1>1. Init => RoomShape /\ TracesKept
  <2>1. Init => TracesKept
    BY DEF Init, TracesKept
  <2> QED
    BY <2>1, ShapeInit
<1>2. RoomShape /\ TracesKept /\ [Next]_vars => (RoomShape /\ TracesKept)'
  BY ShapeStep, TracesStep
<1> QED
  BY <1>1, <1>2, PTL DEF Spec

\* Every variable of the clients, the connections and the relay keeps its type; the
\* directory and the relay's queues keep their caps.
THEOREM RoomTypeCorrect == Spec => []TypeOK
<1>1. RoomShape => TypeOK
  BY DEF RoomShape
<1> QED
  BY <1>1, RoomInvHolds, PTL

\* RoomRegistry: two listed rooms never have the same name but for case, and an entry
\* leads to the peer that created the room.
THEOREM DirectoryTellsTheTruth == Spec => []DirectoryIsTrue
<1>1. RoomShape => DirectoryIsTrue
  BY DEF RoomShape
<1> QED
  BY <1>1, RoomInvHolds, PTL

\* route_join_request, approve_join, deny_join, route_room_to_peer: a request to join
\* is not lost between the peer that asks, the relay and the creator of the room.
THEOREM NoRequestIsLost == Spec => []RequestsAreKept
<1>1. RoomShape /\ TracesKept => RequestsAreKept
  BY KeptMeansTraced DEF RoomShape
<1> QED
  BY <1>1, RoomInvHolds, PTL
=============================================================================
