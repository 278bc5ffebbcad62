-------------------------- MODULE AgentBridgeProofs --------------------------
(***************************************************************************)
(* Proofs about AgentBridge and the RoomManager its agents are members of, *)
(* for any sessions, lines, capacities and bounds: the types, the seats    *)
(* and who holds them, what the room events tell, and what of an agent's   *)
(* lines reaches the application layer. Every step is classed three times, *)
(* by what it does to the room, to the seats of the agents and to the      *)
(* lines of one session, and each part of the invariant is shown for the   *)
(* classes it is about.                                                    *)
(***************************************************************************)
EXTENDS AgentBridge, SequenceLemmas, SequenceTheorems, FiniteSetTheorems, TLAPS

\* The peer id is chosen by the handshake, from the agents' ids, and stays.
IdShape ==
  \A s \in Sessions :
    /\ pc[s] \in {"listening", "connected", "hello"} => id[s] = NoPeer
    /\ pc[s] \in {"welcomed", "running", "sending", "leaving"} => id[s] \in Agents

\* The agents in the member list a handshake works with have sessions of their own,
\* so that there are fewer of them than candidates.
SnapshotShape ==
  \A s \in Sessions :
    pc[s] = "hello" =>
      \A p \in snapshot[s] \cap Agents : \E t \in Sessions \ {s} : id[t] = p

\* What a session holds back, and why it ended.
HoldShape ==
  \A s \in Sessions :
    /\ pc[s] = "sending" <=> holding[s] # 0
    /\ pc[s] \notin {"leaving", "done"} => reason[s] = "none"

\* The lines q in the socket are the last ones of those, w, that were written.
LastOf(q, w) ==
  /\ Len(q) <= Len(w)
  /\ \A i \in 1..Len(q) : q[i] = Len(w) - Len(q) + i

LinesRead(s) == Len(wrote[s]) - Len(wire[s])

WireShape == \A s \in Sessions : pc[s] # "done" => LastOf(wire[s], wrote[s])

\* The messages among the first n lines an agent has written, up to its goodbye.
SaidBy(list, n) ==
  {i \in 1..n : list[i] = "msg" /\ \A j \in 1..i : list[j] # "goodbye"}

Held(h) == IF h = 0 THEN << >> ELSE <<h>>
Passed(s) == (taken[s] \o outbound[s]) \o Held(holding[s])

\* What the application layer has, or will have, are the messages among the first n
\* lines.
PassedThrough(s, n) == Enumerates(Passed(s), Len(Passed(s)), SaidBy(wrote[s], n))

\* While the session runs these are the lines that were read, and none was a goodbye;
\* when it has ended they are the lines up to some point, and all if it ended with a
\* goodbye.
Serving(s) ==
  /\ PassedThrough(s, LinesRead(s))
  /\ \A i \in 1..LinesRead(s) : wrote[s][i] # "goodbye"

Served(s) ==
  \E n \in 0..Len(wrote[s]) :
    /\ PassedThrough(s, n)
    /\ reason[s] = "Goodbye" => n # 0 /\ wrote[s][n] = "goodbye"

PassedShape ==
  \A s \in Sessions :
    ~closed[s] => IF pc[s] \in {"leaving", "done"} THEN Served(s) ELSE Serving(s)

\* f is Told: the lists the consumer goes through as it takes what waits.
Story(f) ==
  /\ f = [i \in 0..Len(events) |-> f[i]]
  /\ f[0] = shown
  /\ \A i \in 1..Len(events) : f[i] = Shown(f[i - 1], events[i])

StoryShape == ~missed => \E f : Story(f) /\ f[Len(events)] = members

-----------------------------------------------------------------------------
(* The room *)

\* p takes a seat, or leaves it.
Seats(p) == ~Member(p) /\ ~Full /\ Seat(p)

Unseats(p) ==
  /\ Member(p)
  /\ members' = RemoveFirst(members, p)
  /\ Emit("left", p)

\* A join request or a denial.
Notes ==
  /\ \E kind \in {"request", "denied"}, p \in Joiners : Emit(kind, p)
  /\ UNCHANGED members

RoomStep ==
  /\ requests' \in Seq(RoomPeers)
  /\ \/ UNCHANGED <<members, events, missed, shown>>
     \/ Notes
     \/ \E p \in Joiners \cup Agents : Seats(p)
     \/ \E p \in Agents : Unseats(p)
     \/ TakeEvent

LEMMA PeersApart ==
  /\ Joiners \cup Agents \subseteq RoomPeers
  /\ Admin \in RoomPeers /\ Admin \notin Joiners \cup Agents
  /\ Joiners \cap Agents = {}
  BY RoomAssumption DEF RoomPeers

LEMMA MemberIsElem ==
  ASSUME NEW p
  PROVE  Member(p) <=> p \in Elems(members)
  BY DEF Member, Contains, Elems

LEMMA EventMade ==
  ASSUME NEW kind \in {"request", "joined", "denied", "left"}, NEW p \in RoomPeers
  PROVE  /\ [kind |-> kind, peer |-> p] \in RoomEvent
         /\ [kind |-> kind, peer |-> p].kind = kind
         /\ [kind |-> kind, peer |-> p].peer = p
  BY DEF RoomEvent

LEMMA EmitType ==
  ASSUME RoomTypeOK, NEW kind \in {"request", "joined", "denied", "left"},
         NEW p \in RoomPeers, Emit(kind, p)
  PROVE  events' \in Seq(RoomEvent) /\ missed' \in BOOLEAN /\ shown' \in Seq(RoomPeers)
<1> DEFINE e == [kind |-> kind, peer |-> p]
<1>1. e \in RoomEvent
  BY EventMade
<1> HIDE DEF e
<1>2. Append(events, e) \in Seq(RoomEvent)
  BY <1>1, AppendProperties DEF RoomTypeOK
<1>3. << >> \in Seq(RoomPeers)
  BY EmptySeq
<1>4. \/ events' = Append(events, e) /\ UNCHANGED <<missed, shown>>
      \/ missed' = TRUE /\ shown' = << >> /\ UNCHANGED events
  BY DEF Emit, e
<1> QED
  BY <1>2, <1>3, <1>4 DEF RoomTypeOK

LEMMA ShownType ==
  ASSUME NEW list \in Seq(RoomPeers), NEW e \in RoomEvent
  PROVE  Shown(list, e) \in Seq(RoomPeers)
<1>1. e.peer \in RoomPeers
  BY DEF RoomEvent
<1>2. Append(list, e.peer) \in Seq(RoomPeers)
  BY <1>1, AppendProperties
<1>3. RemoveFirst(list, e.peer) \in Seq(RoomPeers)
  BY RemoveFirstProperties
<1> QED
  BY <1>2, <1>3 DEF Shown

LEMMA RoomTypeStep ==
  ASSUME RoomTypeOK, RoomStep
  PROVE  RoomTypeOK'
<1>1. CASE UNCHANGED <<members, events, missed, shown>>
  BY <1>1 DEF RoomTypeOK, RoomStep
<1>2. CASE Notes
  <2>1. PICK kind \in {"request", "denied"}, p \in Joiners : Emit(kind, p)
    BY <1>2 DEF Notes
  <2>2. events' \in Seq(RoomEvent) /\ missed' \in BOOLEAN /\ shown' \in Seq(RoomPeers)
    BY <2>1, EmitType, PeersApart
  <2>3. members' = members
    BY <1>2 DEF Notes
  <2> QED
    BY <2>2, <2>3 DEF RoomTypeOK, RoomStep
<1>3. ASSUME NEW p \in Joiners \cup Agents, Seats(p) PROVE RoomTypeOK'
  <2>1. Emit("joined", p) /\ members' = Append(members, p) /\ p \in RoomPeers
    BY <1>3, PeersApart DEF Seats, Seat
  <2>2. events' \in Seq(RoomEvent) /\ missed' \in BOOLEAN /\ shown' \in Seq(RoomPeers)
    BY <2>1, EmitType
  <2>3. Append(members, p) \in Seq(RoomPeers)
    BY <2>1, AppendProperties DEF RoomTypeOK
  <2> QED
    BY <2>1, <2>2, <2>3 DEF RoomTypeOK, RoomStep
<1>4. ASSUME NEW p \in Agents, Unseats(p) PROVE RoomTypeOK'
  <2>1. Emit("left", p) /\ members' = RemoveFirst(members, p) /\ p \in RoomPeers
    BY <1>4, PeersApart DEF Unseats
  <2>2. events' \in Seq(RoomEvent) /\ missed' \in BOOLEAN /\ shown' \in Seq(RoomPeers)
    BY <2>1, EmitType
  <2>3. RemoveFirst(members, p) \in Seq(RoomPeers)
    BY RemoveFirstProperties DEF RoomTypeOK
  <2> QED
    BY <2>1, <2>2, <2>3 DEF RoomTypeOK, RoomStep
<1>5. CASE TakeEvent
  <2>1. events # << >> /\ events \in Seq(RoomEvent) /\ shown \in Seq(RoomPeers)
    BY <1>5 DEF TakeEvent, RoomTypeOK
  <2>2. Tail(events) \in Seq(RoomEvent) /\ Head(events) \in RoomEvent
    BY <2>1, HeadTailProperties
  <2>3. Shown(shown, Head(events)) \in Seq(RoomPeers)
    BY <2>1, <2>2, ShownType
  <2> QED
    BY <1>5, <2>1, <2>2, <2>3 DEF RoomTypeOK, RoomStep, TakeEvent
<1> QED
  BY <1>1, <1>2, <1>3, <1>4, <1>5 DEF RoomStep

LEMMA SeatsStep ==
  ASSUME RoomTypeOK, OneSeatEach, RoomStep
  PROVE  OneSeatEach'
<1>1. /\ members \in Seq(RoomPeers) /\ IsInjective(members)
      /\ Len(members) <= MaxMembers /\ Len(members) \in Nat /\ MaxMembers \in Nat
      /\ Admin \in Elems(members)
  BY MemberIsElem, RoomAssumption, LenProperties DEF RoomTypeOK, OneSeatEach
<1> SUFFICES /\ IsInjective(members') /\ Len(members') <= MaxMembers
             /\ Admin \in Elems(members')
  BY DEF OneSeatEach, Member, Contains, Elems
<1>2. CASE UNCHANGED members
  BY <1>1, <1>2
<1>3. ASSUME NEW p \in Joiners \cup Agents, Seats(p)
      PROVE  /\ IsInjective(members') /\ Len(members') <= MaxMembers
             /\ Admin \in Elems(members')
  <2>1. p \in RoomPeers /\ p \notin Elems(members) /\ ~(Len(members) >= MaxMembers)
        /\ members' = Append(members, p)
    BY <1>3, MemberIsElem, PeersApart DEF Seats, Seat, Full
  <2>2. IsInjective(Append(members, p)) /\ Len(Append(members, p)) = Len(members) + 1
        /\ Elems(Append(members, p)) = Elems(members) \cup {p}
    BY <1>1, <2>1, AppendDistinct, AppendElems, AppendProperties
  <2> QED
    BY <1>1, <2>1, <2>2
<1>4. ASSUME NEW p \in Agents, Unseats(p)
      PROVE  /\ IsInjective(members') /\ Len(members') <= MaxMembers
             /\ Admin \in Elems(members')
  <2>1. members' = RemoveFirst(members, p) /\ p # Admin
    BY <1>4, PeersApart DEF Unseats
  <2>2. /\ RemoveFirst(members, p) \in Seq(RoomPeers)
        /\ IsInjective(RemoveFirst(members, p))
        /\ Len(RemoveFirst(members, p)) <= Len(members)
        /\ Elems(RemoveFirst(members, p)) = Elems(members) \ {p}
    BY <1>1, RemoveFirstProperties
  <2>3. Len(members') \in Nat
    BY <2>1, <2>2, LenProperties
  <2> QED
    BY <1>1, <2>1, <2>2, <2>3
<1> QED
  BY <1>2, <1>3, <1>4 DEF RoomStep, Notes, TakeEvent

LEMMA StoryGoesOn ==
  ASSUME RoomTypeOK, StoryShape, NEW kind \in {"request", "joined", "denied", "left"},
         NEW p \in RoomPeers, Emit(kind, p),
         members' = Shown(members, [kind |-> kind, peer |-> p])
  PROVE  StoryShape'
<1> DEFINE e == [kind |-> kind, peer |-> p]  r == Append(events, e)  n == Len(events)
<1> SUFFICES ASSUME ~missed' PROVE \E f : Story(f)' /\ f[Len(events')] = members'
  BY DEF StoryShape
<1>1. events' = r /\ missed' = missed /\ shown' = shown
  BY DEF Emit
<1>2. PICK f : Story(f) /\ f[n] = members
  BY <1>1 DEF StoryShape
<1>3. e \in RoomEvent
  BY EventMade
<1>4. Shown(members, e) = members'
  OBVIOUS
<1> HIDE DEF e
<1>5. /\ Len(r) = n + 1 /\ n \in Nat
      /\ (\A i \in 1..n : r[i] = events[i]) /\ r[n + 1] = e
  BY <1>3, AppendProperties, LenProperties DEF RoomTypeOK
<1> HIDE DEF r
<1> DEFINE g == [i \in 0..(n + 1) |-> IF i <= n THEN f[i] ELSE members']
<1>6. f[0] = shown /\ \A i \in 1..n : f[i] = Shown(f[i - 1], events[i])
  BY <1>2 DEF Story
<1>7. g = [i \in 0..(n + 1) |-> g[i]] /\ g[0] = shown
  BY <1>5, <1>6
<1>8. ASSUME NEW i \in 1..(n + 1) PROVE g[i] = Shown(g[i - 1], r[i])
  <2>1. CASE i \in 1..n
    <3>1. g[i] = f[i] /\ g[i - 1] = f[i - 1]
      BY <1>5, <2>1
    <3> QED
      BY <1>5, <1>6, <2>1, <3>1
  <2>2. CASE i = n + 1
    <3>1. g[i] = members' /\ g[i - 1] = f[n] /\ r[i] = e
      BY <1>5, <2>2
    <3> QED
      BY <1>2, <1>4, <3>1
  <2> QED
    BY <1>5, <2>1, <2>2
<1>9. g[n + 1] = members'
  BY <1>5
<1> HIDE DEF g, n
<1>10. PICK h : h = g
  OBVIOUS
<1>11. Story(h)'
  BY <1>1, <1>5, <1>7, <1>8, <1>10 DEF Story
<1> QED
  BY <1>1, <1>5, <1>9, <1>10, <1>11

LEMMA StoryStep ==
  ASSUME RoomTypeOK, StoryShape, RoomStep
  PROVE  StoryShape'
<1>1. CASE UNCHANGED <<members, events, missed, shown>>
  BY <1>1 DEF StoryShape, Story
<1>2. CASE Notes
  <2>1. PICK kind \in {"request", "denied"}, p \in Joiners : Emit(kind, p)
    BY <1>2 DEF Notes
  <2>2. members' = Shown(members, [kind |-> kind, peer |-> p])
    BY <1>2 DEF Notes, Shown
  <2> QED
    BY <2>1, <2>2, StoryGoesOn, PeersApart
<1>3. ASSUME NEW p \in Joiners \cup Agents, Seats(p) PROVE StoryShape'
  <2>1. Emit("joined", p) /\ members' = Append(members, p) /\ p \in RoomPeers
    BY <1>3, PeersApart DEF Seats, Seat
  <2>2. members' = Shown(members, [kind |-> "joined", peer |-> p])
    BY <2>1 DEF Shown
  <2> QED
    BY <2>1, <2>2, StoryGoesOn
<1>4. ASSUME NEW p \in Agents, Unseats(p) PROVE StoryShape'
  <2>1. Emit("left", p) /\ members' = RemoveFirst(members, p) /\ p \in RoomPeers
    BY <1>4, PeersApart DEF Unseats
  <2>2. members' = Shown(members, [kind |-> "left", peer |-> p])
    BY <2>1 DEF Shown
  <2> QED
    BY <2>1, <2>2, StoryGoesOn
<1>5. CASE TakeEvent
  <2> SUFFICES ASSUME ~missed' PROVE \E f : Story(f)' /\ f[Len(events')] = members'
    BY DEF StoryShape
  <2> DEFINE n == Len(events)  r == Tail(events)
  <2>1. events # << >> /\ ~missed /\ members' = members
        /\ events' = r /\ shown' = Shown(shown, Head(events))
    BY <1>5 DEF TakeEvent
  <2>2. PICK f : Story(f) /\ f[n] = members
    BY <2>1 DEF StoryShape
  <2>3. /\ n \in Nat /\ n # 0 /\ Len(r) = n - 1 /\ Head(events) = events[1]
        /\ \A i \in 1..(n - 1) : r[i] = events[i + 1]
    BY <2>1, HeadTailProperties, LenProperties, EmptySeq DEF RoomTypeOK
  <2> HIDE DEF r
  <2> DEFINE g == [i \in 0..(n - 1) |-> f[i + 1]]
  <2>4. f[0] = shown /\ \A i \in 1..n : f[i] = Shown(f[i - 1], events[i])
    BY <2>2 DEF Story
  <2>5. f[1] = Shown(f[0], events[1])
    <3>1. 1 \in 1..n /\ 1 - 1 = 0
      BY <2>3
    <3> QED
      BY <2>4, <3>1
  <2>6. g = [i \in 0..(n - 1) |-> g[i]] /\ g[0] = shown'
    <3>1. g[0] = f[1]
      BY <2>3
    <3> QED
      BY <2>1, <2>3, <2>4, <2>5, <3>1
  <2>7. ASSUME NEW i \in 1..(n - 1) PROVE g[i] = Shown(g[i - 1], r[i])
    <3>1. g[i] = f[i + 1] /\ g[i - 1] = f[i] /\ i + 1 \in 1..n /\ (i + 1) - 1 = i
      BY <2>3
    <3>2. f[i + 1] = Shown(f[i], events[i + 1])
      BY <2>4, <3>1
    <3> QED
      BY <2>3, <3>1, <3>2
  <2>8. g[n - 1] = members'
    <3>1. n - 1 \in 0..(n - 1) /\ (n - 1) + 1 = n
      BY <2>3
    <3> QED
      BY <2>1, <2>2, <3>1
  <2> HIDE DEF g, n
  <2>9. PICK h : h = g
    OBVIOUS
  <2>10. Story(h)'
    BY <2>1, <2>3, <2>6, <2>7, <2>9 DEF Story
  <2> QED
    BY <2>1, <2>3, <2>8, <2>9, <2>10
<1> QED
  BY <1>1, <1>2, <1>3, <1>4, <1>5 DEF RoomStep

\* There is one story.
LEMMA OneStory ==
  ASSUME RoomTypeOK, NEW f, NEW g, Story(f), Story(g)
  PROVE  f = g
<1> DEFINE T == {i \in 0..Len(events) : f[i] # g[i]}
<1>1. /\ f = [i \in 0..Len(events) |-> f[i]] /\ g = [i \in 0..Len(events) |-> g[i]]
      /\ f[0] = g[0]
      /\ \A i \in 1..Len(events) : f[i] = Shown(f[i - 1], events[i])
      /\ \A i \in 1..Len(events) : g[i] = Shown(g[i - 1], events[i])
      /\ Len(events) \in Nat
  BY LenProperties DEF Story, RoomTypeOK
<1>2. CASE T = {}
  <2>1. \A i \in 0..Len(events) : f[i] = g[i]
    BY <1>2
  <2> QED
    BY <1>1, <2>1
<1>3. CASE T # {}
  <2>1. T \subseteq Nat
    BY <1>1
  <2>2. PICK k \in T : \A j \in T : k <= j
    BY <1>3, <2>1, LeastNumber
  <2>3. k \in 1..Len(events) /\ k - 1 \in 0..Len(events) /\ k - 1 \notin T
    BY <1>1, <2>2
  <2>4. f[k - 1] = g[k - 1]
    BY <2>3
  <2>5. f[k] = g[k]
    BY <1>1, <2>3, <2>4
  <2> QED
    BY <2>2, <2>5
<1> QED
  BY <1>2, <1>3

LEMMA StoryIsTold ==
  ASSUME RoomTypeOK, StoryShape
  PROVE  EventsTellMembers
<1> SUFFICES ASSUME ~missed PROVE Told[Len(events)] = members
  BY DEF EventsTellMembers
<1>1. PICK f : Story(f) /\ f[Len(events)] = members
  BY DEF StoryShape
<1> DEFINE Tells(g) ==
      g = [i \in 0..Len(events) |-> IF i = 0 THEN shown ELSE Shown(g[i - 1], events[i])]
<1>2. Len(events) \in Nat
  BY LenProperties DEF RoomTypeOK
<1>3. Tells(f)
  <2>1. /\ f = [i \in 0..Len(events) |-> f[i]] /\ f[0] = shown
        /\ \A i \in 1..Len(events) : f[i] = Shown(f[i - 1], events[i])
    BY <1>1 DEF Story
  <2>2. \A i \in 0..Len(events) :
          f[i] = IF i = 0 THEN shown ELSE Shown(f[i - 1], events[i])
    BY <1>2, <2>1
  <2> QED
    BY <2>1, <2>2
<1>4. ASSUME NEW g, Tells(g) PROVE Story(g)
  BY <1>2, <1>4 DEF Story
<1>5. Told = CHOOSE g : Tells(g)
  BY DEF Told
<1> HIDE DEF Tells
<1>6. Tells(Told)
  BY <1>3, <1>5
<1>7. Told = f
  BY <1>1, <1>4, <1>6, OneStory
<1> QED
  BY <1>1, <1>7

-----------------------------------------------------------------------------
(* The seats of the agents *)

Before == {"listening", "connected", "hello"}
Seated == {"running", "sending", "leaving"}

\* Nobody is named, seated or sent away, and no handshake starts.
SeatsKept ==
  /\ UNCHANGED <<id, snapshot>>
  /\ \A p \in Agents : Member(p)' => Member(p)
  /\ \A t \in Sessions :
       /\ pc'[t] \in Before => pc[t] \in Before
       /\ pc'[t] = "hello" => pc[t] = "hello"
       /\ pc'[t] \in Seated \cup {"welcomed"} => pc[t] \in Seated \cup {"welcomed"}
       /\ pc[t] \in Seated => pc'[t] \in Seated

SeatStep ==
  \/ SeatsKept
  \/ \E s \in Sessions : StartHandshake(s) \/ Welcome(s) \/ Join(s) \/ Leave(s)

LEMMA GotoMoves ==
  ASSUME TypeOK, NEW s \in Sessions, NEW place, Goto(s, place)
  PROVE  pc'[s] = place /\ \A t \in Sessions : t # s => pc'[t] = pc[t]
  BY DEF Goto, TypeOK

LEMMA SeatsKeptBy ==
  ASSUME TypeOK, NEW s \in Sessions, NEW place, Goto(s, place),
         UNCHANGED <<roomVars, id, snapshot>>,
         \/ pc[s] \in Before /\ place \in {"connected", "done"}
         \/ pc[s] \in Seated /\ place \in Seated
  PROVE  SeatsKept
<1>1. pc'[s] = place /\ \A t \in Sessions : t # s => pc'[t] = pc[t]
  BY GotoMoves
<1>2. \A p \in Agents : Member(p)' => Member(p)
  BY DEF Member, roomVars
<1>3. \A t \in Sessions :
       /\ pc'[t] \in Before => pc[t] \in Before
       /\ pc'[t] = "hello" => pc[t] = "hello"
       /\ pc'[t] \in Seated \cup {"welcomed"} => pc[t] \in Seated \cup {"welcomed"}
       /\ pc[t] \in Seated => pc'[t] \in Seated
  BY <1>1 DEF Before, Seated
<1> QED
  BY <1>2, <1>3 DEF SeatsKept

LEMMA NothingMoves ==
  ASSUME UNCHANGED <<pc, roomVars, id, snapshot>>
  PROVE  SeatsKept
  BY DEF SeatsKept, Member, roomVars

\* What the joiners do concerns no agent.
LEMMA JoinersApart ==
  ASSUME TypeOK, RoomNext, UNCHANGED bridgeVars
  PROVE  SeatsKept
<1>1. UNCHANGED <<pc, id, snapshot>>
  BY DEF bridgeVars
<1>2. ASSUME NEW p \in Agents, Member(p)' PROVE Member(p)
  <2>1. CASE UNCHANGED members
    BY <1>2, <2>1 DEF Member
  <2>2. ASSUME NEW q \in Joiners, members' = Append(members, q) PROVE Member(p)
    <3>1. members \in Seq(RoomPeers) /\ q \in RoomPeers /\ p # q
      BY PeersApart DEF TypeOK, RoomTypeOK
    <3>2. Elems(members') = Elems(members) \cup {q}
      BY <2>2, <3>1, AppendElems
    <3>3. p \in Elems(members')
      BY <1>2 DEF Member, Contains, Elems
    <3> QED
      BY <3>1, <3>2, <3>3, MemberIsElem
  <2> QED
    BY <2>1, <2>2
       DEF RoomNext, HandleJoinRequest, ApproveJoin, DenyJoin, TakeEvent, Seat
<1> QED
  BY <1>1, <1>2 DEF SeatsKept

LEMMA StepSeats ==
  ASSUME TypeOK, [Next]_vars
  PROVE  SeatStep
<1>1. CASE UNCHANGED vars
  BY <1>1, NothingMoves DEF SeatStep, vars, bridgeVars
<1>2. CASE RoomNext /\ UNCHANGED bridgeVars
  BY <1>2, JoinersApart DEF SeatStep
<1>3. ASSUME NEW s \in Sessions, Handshake(s) PROVE SeatStep
  <2>1. CASE AcceptTimeout(s)
    BY <2>1, SeatsKeptBy DEF SeatStep, AcceptTimeout, Before
  <2>2. CASE Accept(s)
    BY <2>2, SeatsKeptBy DEF SeatStep, Accept, Before
  <2>3. CASE RefuseHello(s)
    BY <2>3, SeatsKeptBy DEF SeatStep, RefuseHello, Before
  <2> QED
    BY <1>3, <2>1, <2>2, <2>3 DEF Handshake, SeatStep
<1>4. ASSUME NEW s \in Sessions, Participant(s) PROVE SeatStep
  <2>1. CASE BeginLine(s)
    BY <2>1, NothingMoves DEF SeatStep, BeginLine
  <2>2. CASE ReadLine(s)
    <3>1. UNCHANGED pc \/ Goto(s, "sending") \/ Goto(s, "leaving")
      BY <2>2 DEF ReadLine, End
    <3>2. pc[s] = "running" /\ UNCHANGED <<roomVars, id, snapshot>>
      BY <2>2 DEF ReadLine
    <3> QED
      BY <3>1, <3>2, SeatsKeptBy, NothingMoves DEF SeatStep, Seated
  <2>3. CASE ReadEof(s)
    BY <2>3, SeatsKeptBy DEF SeatStep, ReadEof, End, Seated
  <2>4. CASE SendOutbound(s)
    BY <2>4, SeatsKeptBy DEF SeatStep, SendOutbound, Seated
  <2>5. CASE ForwardEvent(s)
    <3>1. UNCHANGED pc \/ Goto(s, "leaving")
      BY <2>5 DEF ForwardEvent, End
    <3>2. pc[s] = "running" /\ UNCHANGED <<roomVars, id, snapshot>>
      BY <2>5 DEF ForwardEvent
    <3> QED
      BY <3>1, <3>2, SeatsKeptBy, NothingMoves DEF SeatStep, Seated
  <2>6. CASE RoomClosed(s)
    BY <2>6, SeatsKeptBy DEF SeatStep, RoomClosed, End, Seated
  <2> QED
    BY <1>4, <2>1, <2>2, <2>3, <2>4, <2>5, <2>6 DEF Participant, SeatStep
<1>5. ASSUME NEW s \in Sessions, Environment(s) PROVE SeatStep
  <2>1. UNCHANGED <<pc, roomVars, id, snapshot>>
    BY <1>5 DEF Environment, WriteLine, AgentGone, TakeOutbound, OfferEvent, CloseRoom
  <2> QED
    BY <2>1, NothingMoves DEF SeatStep
<1> QED
  BY <1>1, <1>2, <1>3, <1>4, <1>5 DEF Next

\* The handshake finds a peer id: the members of its list with an agent's id belong
\* to other sessions, and there are as many candidates as sessions.
LEMMA UniqueIsFound ==
  ASSUME TypeOK, SnapshotShape, NEW s \in Sessions, pc[s] = "hello"
  PROVE  MakeUnique(snapshot[s]) \in Agents \ snapshot[s]
<1> DEFINE n == Len(AgentPeers)
           free == {i \in 1..n : AgentPeers[i] \notin snapshot[s]}
           others == Sessions \ {s}
<1>1. /\ n \in Nat /\ n >= Cardinality(Sessions) /\ DOMAIN AgentPeers = 1..n
      /\ IsFiniteSet(Sessions)
      /\ \A i, j \in 1..n : AgentPeers[i] = AgentPeers[j] => i = j
  BY RoomAssumption, BridgeAssumption, LenProperties DEF IsInjective
<1>2. IsFiniteSet(others) /\ Cardinality(others) = Cardinality(Sessions) - 1
      /\ Cardinality(Sessions) \in Nat
  BY <1>1, FS_RemoveElement, FS_CardinalityType
<1>3. IsFiniteSet(1..n) /\ Cardinality(1..n) = n
  BY <1>1, FS_Interval
<1>4. free # {}
  <2> SUFFICES ASSUME free = {} PROVE FALSE
    OBVIOUS
  <2>1. \A i \in 1..n : AgentPeers[i] \in snapshot[s] \cap Agents
    BY DEF Agents
  <2>2. \A i \in 1..n : \E t \in others : id[t] = AgentPeers[i]
    BY <2>1 DEF SnapshotShape
  <2> DEFINE f == [i \in 1..n |-> CHOOSE t \in others : id[t] = AgentPeers[i]]
  <2>3. \A i \in 1..n : f[i] \in others /\ id[f[i]] = AgentPeers[i]
    BY <2>2
  <2>4. f \in [1..n -> others]
    BY <2>3
  <2> HIDE DEF f, others, n
  <2>5. Cardinality(others) < Cardinality(1..n)
    BY <1>1, <1>2, <1>3
  <2>6. \E i, j \in 1..n : i # j /\ f[i] = f[j]
    <3> DEFINE S == 1..n
    <3>1. IsFiniteSet(S) /\ f \in [S -> others] /\ Cardinality(others) < Cardinality(S)
      BY <1>3, <2>4, <2>5
    <3> HIDE DEF S
    <3>2. \E i, j \in S : i # j /\ f[i] = f[j]
      BY <1>2, <3>1, FS_PigeonHole
    <3> QED
      BY <3>2 DEF S
  <2> QED
    BY <1>1, <2>3, <2>6
<1>5. Min(free) \in free
  <2>1. free \subseteq Nat
    BY <1>1
  <2> HIDE DEF free
  <2> QED
    BY <1>4, <2>1, MinIsLeast
<1>6. MakeUnique(snapshot[s]) = AgentPeers[Min(free)]
  BY DEF MakeUnique
<1> QED
  BY <1>5, <1>6 DEF Agents

LEMMA SeatShapeStep ==
  ASSUME TypeOK, OneSeatEach, IdShape, SnapshotShape, NoGhostAgent, SeatStep
  PROVE  IdShape' /\ SnapshotShape' /\ NoGhostAgent'
<1>1. CASE SeatsKept
  BY <1>1 DEF SeatsKept, IdShape, SnapshotShape, NoGhostAgent, Before, Seated
<1>2. NoPeer \notin Agents
  BY BridgeAssumption DEF RoomPeers
<1>3. ASSUME NEW s \in Sessions, StartHandshake(s)
      PROVE  IdShape' /\ SnapshotShape' /\ NoGhostAgent'
  <2>1. /\ pc[s] = "connected" /\ UNCHANGED <<id, members>>
        /\ pc'[s] \in {"done", "hello"} /\ \A t \in Sessions : t # s => pc'[t] = pc[t]
    BY <1>3, GotoMoves DEF StartHandshake, roomVars
  <2>2. /\ snapshot'[s] = ToSet(members)
        /\ \A t \in Sessions : t # s => snapshot'[t] = snapshot[t]
    BY <1>3 DEF StartHandshake, TypeOK
  <2>3. \A p \in ToSet(members) : Member(p)
    BY LenProperties DEF ToSet, Member, Contains, TypeOK, RoomTypeOK
  <2>4. \A p \in Agents : Member(p) => \E t \in Sessions \ {s} : id[t] = p
    BY <2>1 DEF NoGhostAgent
  <2>5. IdShape'
    BY <2>1 DEF IdShape
  <2>6. SnapshotShape'
    BY <2>1, <2>2, <2>3, <2>4 DEF SnapshotShape
  <2>7. NoGhostAgent'
    BY <2>1 DEF NoGhostAgent, Member
  <2> QED
    BY <2>5, <2>6, <2>7
<1>4. ASSUME NEW s \in Sessions, Welcome(s)
      PROVE  IdShape' /\ SnapshotShape' /\ NoGhostAgent'
  <2>1. pc[s] = "hello" /\ UNCHANGED members /\ id[s] = NoPeer
    BY <1>4 DEF Welcome, roomVars, IdShape
  <2>2. pc'[s] \in {"welcomed", "done"} /\ \A t \in Sessions : t # s => pc'[t] = pc[t]
    BY <1>4, GotoMoves DEF Welcome
  <2>3. /\ id'[s] = MakeUnique(snapshot[s])
        /\ \A t \in Sessions : t # s => id'[t] = id[t] /\ snapshot'[t] = snapshot[t]
    BY <1>4 DEF Welcome, TypeOK
  <2>4. id'[s] \in Agents
    BY <2>1, <2>3, UniqueIsFound
  <2>5. IdShape'
    BY <2>2, <2>3, <2>4 DEF IdShape
  <2>6. SnapshotShape'
    BY <1>2, <2>1, <2>2, <2>3 DEF SnapshotShape
  <2>7. NoGhostAgent'
    BY <2>1, <2>2, <2>3 DEF NoGhostAgent, Member
  <2> QED
    BY <2>5, <2>6, <2>7
<1>5. ASSUME NEW s \in Sessions, Join(s)
      PROVE  IdShape' /\ SnapshotShape' /\ NoGhostAgent'
  <2>1. /\ pc[s] = "welcomed" /\ UNCHANGED <<id, snapshot>> /\ id[s] \in Agents
        /\ AddMember(id[s])
    BY <1>5 DEF Join, IdShape
  <2>2. /\ pc'[s] = IF Full /\ ~Member(id[s]) THEN "done" ELSE "running"
        /\ \A t \in Sessions : t # s => pc'[t] = pc[t]
    BY <1>5, GotoMoves DEF Join
  <2>3. members \in Seq(RoomPeers) /\ id[s] \in RoomPeers
    BY <2>1, PeersApart DEF TypeOK, RoomTypeOK
  <2>4. Elems(Append(members, id[s])) = Elems(members) \cup {id[s]}
    BY <2>3, AppendElems
  <2>5. /\ Elems(members') \subseteq Elems(members) \cup {id[s]}
        /\ Full /\ ~Member(id[s]) => members' = members
    BY <2>1, <2>4 DEF AddMember, Seat
  <2>6. ASSUME NEW p \in Agents, Member(p)'
        PROVE  \E t \in Sessions : id'[t] = p /\ pc'[t] \in Seated
    <3>1. p \in Elems(members')
      BY <2>6 DEF Member, Contains, Elems
    <3>2. CASE p \in Elems(members)
      <4>1. PICK t \in Sessions : id[t] = p /\ pc[t] \in Seated
        BY <3>2, MemberIsElem DEF NoGhostAgent, Seated
      <4>2. t # s
        BY <2>1, <4>1 DEF Seated
      <4> QED
        BY <2>1, <2>2, <4>1, <4>2
    <3>3. CASE p \notin Elems(members)
      <4>1. p = id[s] /\ ~Member(p) /\ pc'[s] = "running"
        BY <2>2, <2>5, <3>1, <3>3, MemberIsElem
      <4> QED
        BY <2>1, <4>1 DEF Seated
    <3> QED
      BY <3>2, <3>3
  <2>7. NoGhostAgent'
    BY <2>6 DEF NoGhostAgent, Seated
  <2>8. IdShape'
    BY <2>1, <2>2 DEF IdShape
  <2>9. SnapshotShape'
    BY <2>1, <2>2 DEF SnapshotShape
  <2> QED
    BY <2>7, <2>8, <2>9
<1>6. ASSUME NEW s \in Sessions, Leave(s)
      PROVE  IdShape' /\ SnapshotShape' /\ NoGhostAgent'
  <2>1. /\ pc[s] = "leaving" /\ UNCHANGED <<id, snapshot>> /\ RemoveMember(id[s])
    BY <1>6 DEF Leave
  <2>2. pc'[s] = "done" /\ \A t \in Sessions : t # s => pc'[t] = pc[t]
    BY <1>6, GotoMoves DEF Leave
  <2>3. members \in Seq(RoomPeers) /\ IsInjective(members)
    BY DEF TypeOK, RoomTypeOK, OneSeatEach
  <2>4. Elems(RemoveFirst(members, id[s])) = Elems(members) \ {id[s]}
    BY <2>3, RemoveFirstProperties
  <2>5. Elems(members') = Elems(members) \ {id[s]}
    BY <2>1, <2>4, MemberIsElem DEF RemoveMember
  <2>6. ASSUME NEW p \in Agents, Member(p)'
        PROVE  \E t \in Sessions : id'[t] = p /\ pc'[t] \in Seated
    <3>1. p \in Elems(members) /\ p # id[s]
      BY <2>5, <2>6 DEF Member, Contains, Elems
    <3>2. PICK t \in Sessions : id[t] = p /\ pc[t] \in Seated
      BY <3>1, MemberIsElem DEF NoGhostAgent, Seated
    <3> QED
      BY <2>1, <2>2, <3>1, <3>2
  <2>7. NoGhostAgent'
    BY <2>6 DEF NoGhostAgent, Seated
  <2>8. IdShape'
    BY <2>1, <2>2 DEF IdShape
  <2>9. SnapshotShape'
    BY <2>1, <2>2 DEF SnapshotShape
  <2> QED
    BY <2>7, <2>8, <2>9
<1> QED
  BY <1>1, <1>3, <1>4, <1>5, <1>6 DEF SeatStep

LEMMA StepRoom ==
  ASSUME TypeOK, IdShape, [Next]_vars
  PROVE  RoomStep
<1>1. members \in Seq(RoomPeers) /\ requests \in Seq(RoomPeers)
  BY DEF TypeOK, RoomTypeOK
<1>2. CASE UNCHANGED roomVars
  BY <1>1, <1>2 DEF RoomStep, roomVars
<1>3. CASE RoomNext
  <2>1. ASSUME NEW p \in Joiners, HandleJoinRequest(p) PROVE RoomStep
    <3>1. Append(requests, p) \in Seq(RoomPeers)
      BY <1>1, PeersApart, AppendProperties
    <3> QED
      BY <2>1, <3>1 DEF RoomStep, Notes, HandleJoinRequest
  <2>2. ASSUME NEW p \in Joiners, ApproveJoin(p) PROVE RoomStep
    <3>1. Retain(requests, p) \in Seq(RoomPeers)
      BY <1>1, RetainProperties
    <3> QED
      BY <2>2, <3>1 DEF RoomStep, Seats, ApproveJoin
  <2>3. ASSUME NEW p \in Joiners, DenyJoin(p) PROVE RoomStep
    <3>1. RemoveFirst(requests, p) \in Seq(RoomPeers)
      BY <1>1, RemoveFirstProperties
    <3> QED
      BY <2>3, <3>1 DEF RoomStep, Notes, DenyJoin
  <2>4. CASE TakeEvent
    BY <1>1, <2>4 DEF RoomStep, TakeEvent
  <2> QED
    BY <1>3, <2>1, <2>2, <2>3, <2>4 DEF RoomNext
<1>4. ASSUME NEW s \in Sessions, Join(s) PROVE RoomStep
  <2>1. id[s] \in Agents /\ AddMember(id[s])
    BY <1>4 DEF Join, IdShape
  <2> QED
    BY <1>1, <2>1 DEF RoomStep, AddMember, Seats
<1>5. ASSUME NEW s \in Sessions, Leave(s) PROVE RoomStep
  <2>1. id[s] \in Agents /\ RemoveMember(id[s])
    BY <1>5 DEF Leave, IdShape
  <2> QED
    BY <1>1, <2>1 DEF RoomStep, RemoveMember, Unseats
<1>6. ASSUME NEW s \in Sessions, Handshake(s) \/ Participant(s) \/ Environment(s)
      PROVE  RoomStep
  <2>1. UNCHANGED roomVars \/ Join(s) \/ Leave(s)
    BY <1>6 DEF Handshake, Participant, Environment, AcceptTimeout, Accept,
                StartHandshake, RefuseHello, Welcome, BeginLine, ReadLine, ReadEof,
                SendOutbound, ForwardEvent, RoomClosed, WriteLine, AgentGone,
                TakeOutbound, OfferEvent, CloseRoom
  <2> QED
    BY <1>2, <1>4, <1>5, <2>1
<1> QED
  BY <1>2, <1>3, <1>6 DEF Next, vars

-----------------------------------------------------------------------------
(* Lines *)

LEMMA NumbersAreNat ==
  ASSUME NEW s \in Seq(Nat \ {0})
  PROVE  s \in Seq(Nat)
  OBVIOUS

LEMMA LastOfTail ==
  ASSUME NEW w \in Seq(AllKinds), NEW q \in Seq(Nat \ {0}), q # << >>, LastOf(q, w)
  PROVE  /\ Head(q) = Len(w) - Len(q) + 1 /\ Head(q) \in 1..Len(w)
         /\ Len(w) - Len(Tail(q)) = Head(q)
         /\ Len(w) - Len(q) \in Nat
         /\ LastOf(Tail(q), w)
<1> DEFINE r == Tail(q)
<1>1. /\ Len(q) \in Nat /\ Len(w) \in Nat /\ Len(q) # 0 /\ Len(r) = Len(q) - 1
      /\ Head(q) = q[1] /\ \A i \in 1..Len(r) : r[i] = q[i + 1]
  BY HeadTailProperties, LenProperties, EmptySeq
<1>2. Len(q) <= Len(w) /\ \A i \in 1..Len(q) : q[i] = Len(w) - Len(q) + i
  BY DEF LastOf
<1> HIDE DEF r
<1>3. q[1] = Len(w) - Len(q) + 1
  BY <1>1, <1>2
<1>4. \A i \in 1..Len(r) : i + 1 \in 1..Len(q) /\ Len(w) - Len(q) + (i + 1) = Len(w) - Len(r) + i
  BY <1>1, <1>2
<1>5. LastOf(r, w)
  BY <1>1, <1>2, <1>4 DEF LastOf
<1>6. Len(w) - Len(q) \in Nat /\ Len(w) - Len(r) = Len(w) - Len(q) + 1
      /\ Len(w) - Len(q) + 1 \in 1..Len(w)
  BY <1>1, <1>2
<1> QED
  BY <1>1, <1>3, <1>5, <1>6 DEF r

LEMMA LastOfAppend ==
  ASSUME NEW w \in Seq(AllKinds), NEW q \in Seq(Nat \ {0}), LastOf(q, w),
         NEW k \in AllKinds
  PROVE  /\ Append(w, k) \in Seq(AllKinds) /\ Len(Append(w, k)) = Len(w) + 1
         /\ Append(q, Len(w) + 1) \in Seq(Nat \ {0})
         /\ LastOf(Append(q, Len(w) + 1), Append(w, k))
         /\ Len(Append(w, k)) - Len(Append(q, Len(w) + 1)) = Len(w) - Len(q)
         /\ Len(w) - Len(q) \in 0..Len(w)
<1> DEFINE v == Append(w, k)  n == Len(w) + 1  r == Append(q, n)
<1>1. Len(w) \in Nat /\ Len(q) \in Nat /\ n \in Nat \ {0} /\ n = Len(w) + 1
  BY LenProperties
<1> HIDE DEF n
<1>2. /\ v \in Seq(AllKinds) /\ Len(v) = Len(w) + 1
      /\ r \in Seq(Nat \ {0}) /\ Len(r) = Len(q) + 1
      /\ (\A i \in 1..Len(q) : r[i] = q[i]) /\ r[Len(q) + 1] = n
  BY <1>1, AppendProperties
<1> HIDE DEF v, r
<1>3. Len(q) <= Len(w) /\ \A i \in 1..Len(q) : q[i] = Len(w) - Len(q) + i
  BY DEF LastOf
<1>4. Len(v) - Len(r) = Len(w) - Len(q) /\ Len(w) - Len(q) \in 0..Len(w) /\ Len(r) <= Len(v)
  BY <1>1, <1>2, <1>3
<1>5. ASSUME NEW i \in 1..Len(r) PROVE r[i] = Len(v) - Len(r) + i
  <2>1. CASE i \in 1..Len(q)
    BY <1>2, <1>3, <1>4, <2>1
  <2>2. CASE i = Len(q) + 1
    <3>1. r[i] = n /\ Len(w) - Len(q) + i = n
      BY <1>1, <1>2, <2>2
    <3> QED
      BY <1>4, <3>1
  <2> QED
    BY <1>1, <1>2, <2>1, <2>2
<1>6. LastOf(r, v)
  BY <1>4, <1>5 DEF LastOf
<1> QED
  BY <1>1, <1>2, <1>4, <1>6 DEF v, r, n

\* One line more: it is skipped, or it is a message.
LEMMA SaidByNext ==
  ASSUME NEW w, NEW n \in Nat
  PROVE  /\ w[n + 1] # "msg" => SaidBy(w, n + 1) = SaidBy(w, n)
         /\ w[n + 1] = "msg" /\ (\A i \in 1..n : w[i] # "goodbye")
              => SaidBy(w, n + 1) = SaidBy(w, n) \cup {n + 1}
<1>1. 1..(n + 1) = (1..n) \cup {n + 1} /\ n + 1 \notin 1..n
  OBVIOUS
<1>2. ASSUME w[n + 1] = "msg", \A i \in 1..n : w[i] # "goodbye"
      PROVE  \A j \in 1..(n + 1) : w[j] # "goodbye"
  BY <1>1, <1>2
<1>3. w[n + 1] # "msg" => SaidBy(w, n + 1) = SaidBy(w, n)
  BY <1>1 DEF SaidBy
<1>4. ASSUME w[n + 1] = "msg", \A i \in 1..n : w[i] # "goodbye"
      PROVE  SaidBy(w, n + 1) = SaidBy(w, n) \cup {n + 1}
  BY <1>1, <1>2, <1>4 DEF SaidBy
<1> QED
  BY <1>3, <1>4

LEMMA SaidByAppend ==
  ASSUME NEW w \in Seq(AllKinds), NEW k \in AllKinds, NEW n \in 0..Len(w)
  PROVE  SaidBy(Append(w, k), n) = SaidBy(w, n)
<1> DEFINE v == Append(w, k)
<1>1. Len(w) \in Nat /\ \A i \in 1..Len(w) : v[i] = w[i]
  BY AppendProperties, LenProperties
<1> HIDE DEF v
<1>2. \A i \in 1..n : v[i] = w[i] /\ \A j \in 1..i : v[j] = w[j]
  BY <1>1
<1>3. SaidBy(v, n) = SaidBy(w, n)
  BY <1>2 DEF SaidBy
<1> QED
  BY <1>3 DEF v

\* The agent says nothing more once it has said goodbye.
LEMMA SaidByGoodbye ==
  ASSUME NEW w, NEW n \in Nat, NEW m \in Nat, n <= m, n # 0, w[n] = "goodbye"
  PROVE  SaidBy(w, m) = SaidBy(w, n)
<1>1. \A i \in 1..m : i \in 1..n \/ n \in 1..i
  OBVIOUS
<1>2. 1..n \subseteq 1..m
  OBVIOUS
<1> QED
  BY <1>1, <1>2 DEF SaidBy

LEMMA SaidByWithin ==
  ASSUME NEW w, NEW n \in Nat, NEW m \in Nat, n <= m
  PROVE  /\ SaidBy(w, n) = {i \in SaidBy(w, m) : i <= n}
         /\ SaidBy(w, m) \in SUBSET (1..m) /\ SaidBy(w, m) \subseteq Nat
<1>1. 1..n = {i \in 1..m : i <= n} /\ 1..m \subseteq Nat
  OBVIOUS
<1> QED
  BY <1>1 DEF SaidBy

LEMMA PassedMore ==
  ASSUME NEW w, NEW n \in Nat, NEW d \in Seq(Nat), w[n + 1] = "msg",
         \A i \in 1..n : w[i] # "goodbye",
         Enumerates(d, Len(d), SaidBy(w, n))
  PROVE  /\ d \o <<n + 1>> \in Seq(Nat)
         /\ Enumerates(d \o <<n + 1>>, Len(d \o <<n + 1>>), SaidBy(w, n + 1))
<1> DEFINE m == n + 1  g == <<m>>
<1>1. m \in Nat /\ SaidBy(w, n) \subseteq Nat /\ {m} \subseteq Nat
      /\ \A x \in SaidBy(w, n) : \A y \in {m} : x < y
  BY DEF SaidBy
<1>2. SaidBy(w, m) = SaidBy(w, n) \cup {m}
  BY SaidByNext
<1> HIDE DEF m
<1>3. g \in Seq(Nat) /\ Len(g) = 1 /\ Enumerates(g, 1, {m})
  BY <1>1, EnumerateOne
<1> HIDE DEF g
<1>4. Enumerates(g, Len(g), {m})
  BY <1>3
<1>5. d \o g \in Seq(Nat) /\ Enumerates(d \o g, Len(d \o g), SaidBy(w, n) \cup {m})
  BY <1>1, <1>3, <1>4, EnumerateMore
<1> QED
  BY <1>2, <1>5 DEF m, g

-----------------------------------------------------------------------------
(* What a step does to the lines of a session *)

Ended == {"leaving", "done"}

LineKept(t) ==
  /\ wrote'[t] = wrote[t] /\ wire'[t] = wire[t] /\ pc'[t] = pc[t]
  /\ taken'[t] = taken[t] /\ outbound'[t] = outbound[t] /\ holding'[t] = holding[t]
  /\ reason'[t] = reason[t] /\ closed'[t] = closed[t]

\* The channels of s are as they were.
ChannelKept(s) ==
  /\ wrote'[s] = wrote[s] /\ taken'[s] = taken[s]
  /\ outbound'[s] = outbound[s] /\ closed'[s] = closed[s]

\* The session goes on to another place, or ends, and no line is read.
Moves(s) ==
  /\ ChannelKept(s)
  /\ wire'[s] = wire[s] /\ holding'[s] = holding[s]
  /\ pc[s] \notin Ended \cup {"sending"} /\ pc'[s] # "sending"
  /\ reason'[s] = reason[s] \/ (pc'[s] \in Ended /\ reason'[s] # "Goodbye")

\* A line is read that is no message, or was torn and ends the session.
Skips(s) ==
  /\ ChannelKept(s)
  /\ wire[s] # << >> /\ wire'[s] = Tail(wire[s]) /\ holding'[s] = holding[s]
  /\ pc[s] \in {"hello", "running"} /\ pc'[s] # "sending"
  /\ \/ pc'[s] = "leaving" /\ reason'[s] # "Goodbye"
     \/ LineKind(s) \notin {"msg", "goodbye"} /\ reason'[s] = reason[s]

Bids(s) ==
  /\ ChannelKept(s)
  /\ wire[s] # << >> /\ wire'[s] = Tail(wire[s]) /\ holding'[s] = holding[s]
  /\ pc[s] = "running" /\ pc'[s] = "leaving"
  /\ LineKind(s) = "goodbye" /\ reason'[s] = "Goodbye"

Takes(s) ==
  /\ ChannelKept(s)
  /\ wire[s] # << >> /\ wire'[s] = Tail(wire[s]) /\ holding'[s] = Head(wire[s])
  /\ pc[s] = "running" /\ pc'[s] = "sending"
  /\ LineKind(s) = "msg" /\ reason'[s] = reason[s]

\* The held message is sent, unless the channel is closed.
Sends(s) ==
  /\ wrote'[s] = wrote[s] /\ wire'[s] = wire[s] /\ taken'[s] = taken[s]
  /\ closed'[s] = closed[s] /\ reason'[s] = reason[s]
  /\ pc[s] = "sending" /\ pc'[s] = "running"
  /\ holding'[s] = 0
  /\ ~closed[s] => outbound'[s] = Append(outbound[s], holding[s])
  /\ closed[s] => outbound'[s] = outbound[s]

Forgets(s) ==
  /\ ChannelKept(s)
  /\ wire'[s] = << >> /\ holding'[s] = holding[s]
  /\ pc[s] = "leaving" /\ pc'[s] = "done" /\ reason'[s] = reason[s]

Writes(s) ==
  /\ \E k \in AllKinds : wrote'[s] = Append(wrote[s], k)
  /\ wire'[s] = Append(wire[s], Len(wrote[s]) + 1)
  /\ taken'[s] = taken[s] /\ outbound'[s] = outbound[s] /\ holding'[s] = holding[s]
  /\ reason'[s] = reason[s] /\ closed'[s] = closed[s] /\ pc'[s] = pc[s]
  /\ pc[s] # "done"

Delivers(s) ==
  /\ outbound[s] # << >>
  /\ taken'[s] = Append(taken[s], Head(outbound[s]))
  /\ outbound'[s] = Tail(outbound[s])
  /\ wrote'[s] = wrote[s] /\ wire'[s] = wire[s] /\ holding'[s] = holding[s]
  /\ reason'[s] = reason[s] /\ closed'[s] = closed[s] /\ pc'[s] = pc[s]

Closes(s) ==
  /\ closed'[s]
  /\ outbound'[s] = << >>
  /\ wrote'[s] = wrote[s] /\ wire'[s] = wire[s] /\ holding'[s] = holding[s]
  /\ taken'[s] = taken[s] /\ reason'[s] = reason[s] /\ pc'[s] = pc[s]

LineEvent(s) ==
  \/ Moves(s) \/ Skips(s) \/ Bids(s) \/ Takes(s) \/ Sends(s) \/ Forgets(s)
  \/ Writes(s) \/ Delivers(s) \/ Closes(s)

LineStep ==
  \/ \A t \in Sessions : LineKept(t)
  \/ \E s \in Sessions : LineEvent(s) /\ \A t \in Sessions \ {s} : LineKept(t)

LineVars == <<pc, wrote, wire, taken, outbound, holding, reason, closed>>

LEMMA AllKept ==
  ASSUME UNCHANGED LineVars
  PROVE  LineStep
  BY DEF LineVars, LineStep, LineKept

LEMMA StepLines ==
  ASSUME TypeOK, [Next]_vars
  PROVE  LineStep
<1>1. CASE UNCHANGED vars \/ (RoomNext /\ UNCHANGED bridgeVars)
  BY <1>1, AllKept DEF vars, bridgeVars, agentVars, appVars, LineVars
<1> DEFINE Event(s) == LineEvent(s) /\ \A t \in Sessions \ {s} : LineKept(t)
<1>2. ASSUME NEW s \in Sessions, Handshake(s) PROVE LineStep
  <2>1. CASE AcceptTimeout(s) \/ Accept(s) \/ StartHandshake(s) \/ RefuseHello(s) \/ Join(s)
    <3>1. /\ UNCHANGED <<wrote, wire, taken, outbound, holding, reason, closed>>
          /\ pc[s] \in {"listening", "connected", "hello", "welcomed"}
          /\ \E place \in {"connected", "hello", "running", "done"} : Goto(s, place)
      BY <2>1 DEF AcceptTimeout, Accept, StartHandshake, RefuseHello, Join, agentVars,
                  appVars
    <3>2. /\ pc'[s] \in {"connected", "hello", "running", "done"}
          /\ \A t \in Sessions : t # s => pc'[t] = pc[t]
      BY <3>1, GotoMoves
    <3> QED
      BY <3>1, <3>2 DEF LineStep, LineEvent, LineKept, Moves, ChannelKept, Ended
  <2>2. CASE Welcome(s)
    <3>1. /\ UNCHANGED <<wrote, taken, outbound, holding, reason, closed>>
          /\ pc[s] = "hello" /\ wire[s] # << >> /\ LineKind(s) = "hello"
          /\ wire' = [wire EXCEPT ![s] = Tail(@)]
          /\ \E place \in {"welcomed", "done"} : Goto(s, place)
      BY <2>2 DEF Welcome, agentVars, appVars
    <3>2. /\ pc'[s] \in {"welcomed", "done"}
          /\ \A t \in Sessions : t # s => pc'[t] = pc[t]
      BY <3>1, GotoMoves
    <3>3. wire'[s] = Tail(wire[s]) /\ \A t \in Sessions : t # s => wire'[t] = wire[t]
      BY <3>1 DEF TypeOK
    <3> QED
      BY <3>1, <3>2, <3>3 DEF LineStep, LineEvent, LineKept, Skips, ChannelKept
  <2> QED
    BY <1>2, <2>1, <2>2 DEF Handshake
<1>3. ASSUME NEW s \in Sessions, Participant(s) PROVE LineStep
  <2>1. CASE BeginLine(s)
    BY <2>1, AllKept DEF BeginLine, agentVars, appVars, LineVars
  <2>2. CASE ReadLine(s)
    <3>1. /\ UNCHANGED <<wrote, taken, outbound, closed>>
          /\ pc[s] = "running" /\ wire[s] # << >>
          /\ wire' = [wire EXCEPT ![s] = Tail(@)]
      BY <2>2 DEF ReadLine, agentVars, appVars
    <3>2. wire'[s] = Tail(wire[s]) /\ \A t \in Sessions : t # s => wire'[t] = wire[t]
      BY <3>1 DEF TypeOK
    <3>3. CASE /\ LineKind(s) = "msg" /\ Goto(s, "sending") /\ UNCHANGED reason
               /\ holding' = [holding EXCEPT ![s] = Head(wire[s])]
      <4>1. /\ holding'[s] = Head(wire[s]) /\ \A t \in Sessions : t # s => holding'[t] = holding[t]
            /\ pc'[s] = "sending" /\ \A t \in Sessions : t # s => pc'[t] = pc[t]
        BY <3>3, GotoMoves DEF TypeOK
      <4>2. Takes(s) /\ \A t \in Sessions \ {s} : LineKept(t)
        BY <3>1, <3>2, <3>3, <4>1 DEF LineKept, Takes, ChannelKept
      <4> QED
        BY <4>2 DEF LineStep, LineEvent
    <3>4. CASE LineKind(s) = "goodbye" /\ End(s, "Goodbye") /\ UNCHANGED holding
      <4>1. /\ pc'[s] = "leaving" /\ \A t \in Sessions : t # s => pc'[t] = pc[t]
            /\ reason'[s] = "Goodbye" /\ \A t \in Sessions : t # s => reason'[t] = reason[t]
        BY <3>4, GotoMoves DEF End, TypeOK
      <4>2. Bids(s) /\ \A t \in Sessions \ {s} : LineKept(t)
        BY <3>1, <3>2, <3>4, <4>1 DEF LineKept, Bids, ChannelKept
      <4> QED
        BY <4>2 DEF LineStep, LineEvent
    <3>5. CASE End(s, "BrokenPipe") /\ UNCHANGED holding
      <4>1. /\ pc'[s] = "leaving" /\ \A t \in Sessions : t # s => pc'[t] = pc[t]
            /\ reason'[s] = "BrokenPipe" /\ \A t \in Sessions : t # s => reason'[t] = reason[t]
        BY <3>5, GotoMoves DEF End, TypeOK
      <4>2. Skips(s) /\ \A t \in Sessions \ {s} : LineKept(t)
        BY <3>1, <3>2, <3>5, <4>1 DEF LineKept, Skips, ChannelKept
      <4> QED
        BY <4>2 DEF LineStep, LineEvent
    <3>6. CASE LineKind(s) \in Answered /\ UNCHANGED <<pc, reason, holding>>
      <4>1. Skips(s) /\ \A t \in Sessions \ {s} : LineKept(t)
        BY <3>1, <3>2, <3>6 DEF LineKept, Skips, ChannelKept, Answered
      <4> QED
        BY <4>1 DEF LineStep, LineEvent
    <3> QED
      BY <2>2, <3>3, <3>4, <3>5, <3>6 DEF ReadLine
  <2>3. CASE (ReadEof(s) \/ RoomClosed(s) \/ ForwardEvent(s)) /\ pc' # pc
    <3>1. /\ UNCHANGED <<wrote, wire, taken, outbound, holding, closed>>
          /\ pc[s] = "running"
          /\ \E why \in {"BrokenPipe", "RoomClosed"} : End(s, why)
      BY <2>3 DEF ReadEof, RoomClosed, ForwardEvent, agentVars, appVars
    <3>2. /\ pc'[s] = "leaving" /\ \A t \in Sessions : t # s => pc'[t] = pc[t]
          /\ reason'[s] \in {"BrokenPipe", "RoomClosed"}
          /\ \A t \in Sessions : t # s => reason'[t] = reason[t]
      BY <3>1, GotoMoves DEF End, TypeOK
    <3> QED
      BY <3>1, <3>2 DEF LineStep, LineEvent, LineKept, Moves, ChannelKept, Ended
  <2>4. CASE (ReadEof(s) \/ RoomClosed(s) \/ ForwardEvent(s)) /\ pc' = pc
    <3>1. ~(pc[s] = "running" /\ Goto(s, "leaving"))
      BY <2>4, GotoMoves
    <3>2. UNCHANGED LineVars
      BY <2>4, <3>1 DEF ReadEof, RoomClosed, ForwardEvent, agentVars, appVars, LineVars, End
    <3> QED
      BY <3>2, AllKept
  <2>5. CASE SendOutbound(s)
    <3>1. /\ UNCHANGED <<wrote, wire, taken, reason, closed>>
          /\ pc[s] = "sending" /\ Goto(s, "running")
          /\ holding' = [holding EXCEPT ![s] = 0]
          /\ \/ closed[s] /\ UNCHANGED outbound
             \/ ~closed[s] /\ outbound' = [outbound EXCEPT ![s] = Append(@, holding[s])]
      BY <2>5 DEF SendOutbound, agentVars, appVars
    <3>2. /\ holding'[s] = 0 /\ \A t \in Sessions : t # s => holding'[t] = holding[t]
          /\ pc'[s] = "running" /\ \A t \in Sessions : t # s => pc'[t] = pc[t]
          /\ \A t \in Sessions : t # s => outbound'[t] = outbound[t]
          /\ ~closed[s] => outbound'[s] = Append(outbound[s], holding[s])
          /\ closed[s] => outbound'[s] = outbound[s]
      BY <3>1, GotoMoves DEF TypeOK
    <3> QED
      BY <3>1, <3>2 DEF LineStep, LineEvent, LineKept, Sends
  <2>6. CASE Leave(s)
    <3>1. /\ UNCHANGED <<wrote, taken, outbound, holding, reason, closed>>
          /\ pc[s] = "leaving" /\ Goto(s, "done")
          /\ wire' = [wire EXCEPT ![s] = << >>]
      BY <2>6 DEF Leave, agentVars, appVars
    <3>2. /\ pc'[s] = "done" /\ \A t \in Sessions : t # s => pc'[t] = pc[t]
          /\ wire'[s] = << >> /\ \A t \in Sessions : t # s => wire'[t] = wire[t]
      BY <3>1, GotoMoves DEF TypeOK
    <3> QED
      BY <3>1, <3>2 DEF LineStep, LineEvent, LineKept, Forgets, ChannelKept
  <2> QED
    BY <1>3, <2>1, <2>2, <2>3, <2>4, <2>5, <2>6 DEF Participant
<1>4. ASSUME NEW s \in Sessions, Environment(s) PROVE LineStep
  <2>1. ASSUME NEW k \in AllKinds, WriteLine(s, k) PROVE LineStep
    <3>1. /\ UNCHANGED <<pc, taken, outbound, holding, reason, closed>>
          /\ pc[s] # "done"
          /\ wrote' = [wrote EXCEPT ![s] = Append(@, k)]
          /\ wire' = [wire EXCEPT ![s] = Append(@, Len(wrote'[s]))]
      BY <2>1 DEF WriteLine, appVars
    <3>2. /\ wrote'[s] = Append(wrote[s], k)
          /\ \A t \in Sessions : t # s => wrote'[t] = wrote[t]
      BY <3>1 DEF TypeOK
    <3>3. Len(wrote'[s]) = Len(wrote[s]) + 1
      BY <3>2, AppendProperties DEF TypeOK
    <3>4. /\ wire'[s] = Append(wire[s], Len(wrote[s]) + 1)
          /\ \A t \in Sessions : t # s => wire'[t] = wire[t]
      BY <3>1, <3>3 DEF TypeOK
    <3> QED
      BY <3>1, <3>2, <3>4 DEF LineStep, LineEvent, LineKept, Writes
  <2>2. CASE AgentGone(s) \/ OfferEvent(s)
    BY <2>2, AllKept DEF AgentGone, OfferEvent, agentVars, appVars, LineVars
  <2>3. CASE TakeOutbound(s)
    <3>1. /\ UNCHANGED <<pc, wrote, wire, holding, reason, closed>>
          /\ outbound[s] # << >>
          /\ taken' = [taken EXCEPT ![s] = Append(@, Head(outbound[s]))]
          /\ outbound' = [outbound EXCEPT ![s] = Tail(@)]
      BY <2>3 DEF TakeOutbound, agentVars
    <3>2. /\ taken'[s] = Append(taken[s], Head(outbound[s]))
          /\ outbound'[s] = Tail(outbound[s])
          /\ \A t \in Sessions : t # s => taken'[t] = taken[t] /\ outbound'[t] = outbound[t]
      BY <3>1 DEF TypeOK
    <3> QED
      BY <3>1, <3>2 DEF LineStep, LineEvent, LineKept, Delivers
  <2>4. CASE CloseRoom(s)
    <3>1. /\ UNCHANGED <<pc, wrote, wire, holding, reason, taken>>
          /\ closed' = [closed EXCEPT ![s] = TRUE]
          /\ outbound' = [outbound EXCEPT ![s] = << >>]
      BY <2>4 DEF CloseRoom, agentVars
    <3>2. /\ closed'[s] /\ outbound'[s] = << >>
          /\ \A t \in Sessions : t # s => closed'[t] = closed[t] /\ outbound'[t] = outbound[t]
      BY <3>1 DEF TypeOK
    <3> QED
      BY <3>1, <3>2 DEF LineStep, LineEvent, LineKept, Closes
  <2> QED
    BY <1>4, <2>1, <2>2, <2>3, <2>4 DEF Environment
<1> QED
  BY <1>1, <1>2, <1>3, <1>4 DEF Next

\* The part of the invariant that is about the lines of one session.
LineTypes(t) ==
  /\ wrote[t] \in Seq(AllKinds) /\ wire[t] \in Seq(Nat \ {0})
  /\ taken[t] \in Seq(Nat \ {0}) /\ outbound[t] \in Seq(Nat \ {0})
  /\ holding[t] \in Nat

LineShape(t) ==
  /\ pc[t] = "sending" <=> holding[t] # 0
  /\ pc[t] \notin Ended => reason[t] = "none"
  /\ pc[t] # "done" => LastOf(wire[t], wrote[t])
  /\ ~closed[t] => IF pc[t] \in Ended THEN Served(t) ELSE Serving(t)

LEMMA LineShapes ==
  /\ TypeOK => \A t \in Sessions : LineTypes(t)
  /\ HoldShape /\ WireShape /\ PassedShape <=> \A t \in Sessions : LineShape(t)
  BY DEF TypeOK, LineTypes, HoldShape, WireShape, PassedShape, LineShape, Ended

LEMMA LinesKeptStep ==
  ASSUME NEW t \in Sessions, LineShape(t), LineKept(t)
  PROVE  LineShape(t)'
  BY DEF LineShape, LineKept, Served, Serving, PassedThrough, Passed, Held, LinesRead

\* The numbers of the lines passed on, in parts.
LEMMA PassedType ==
  ASSUME NEW t \in Sessions, LineTypes(t)
  PROVE  /\ Passed(t) \in Seq(Nat) /\ taken[t] \o outbound[t] \in Seq(Nat)
         /\ holding[t] = 0 => Passed(t) = taken[t] \o outbound[t]
         /\ holding[t] # 0 => Passed(t) = (taken[t] \o outbound[t]) \o <<holding[t]>>
<1>1. taken[t] \in Seq(Nat) /\ outbound[t] \in Seq(Nat) /\ holding[t] \in Nat
  BY NumbersAreNat DEF LineTypes
<1>2. taken[t] \o outbound[t] \in Seq(Nat)
  BY <1>1, ConcatProperties
<1> DEFINE q == taken[t] \o outbound[t]
<1> HIDE DEF q
<1>3. CASE holding[t] = 0
  <2>1. Passed(t) = q \o << >>
    BY <1>3 DEF Passed, Held, q
  <2>2. q \o << >> = q
    BY <1>2, ConcatEmptySeq DEF q
  <2> QED
    BY <1>2, <1>3, <2>1, <2>2 DEF q
<1>4. CASE holding[t] # 0
  <2> DEFINE e == <<holding[t]>>
  <2>1. e \in Seq(Nat)
    BY <1>1
  <2>2. Passed(t) = q \o e
    BY <1>4 DEF Passed, Held, q
  <2> HIDE DEF e
  <2>3. q \o e \in Seq(Nat)
    BY <1>2, <2>1, ConcatProperties DEF q
  <2> QED
    BY <1>2, <1>4, <2>2, <2>3 DEF q, e
<1> QED
  BY <1>3, <1>4

LEMMA ServingIsServed ==
  ASSUME NEW t \in Sessions, LineTypes(t), LastOf(wire[t], wrote[t]), Serving(t),
         reason[t] # "Goodbye"
  PROVE  Served(t)
<1>1. Len(wrote[t]) \in Nat /\ Len(wire[t]) \in Nat /\ Len(wire[t]) <= Len(wrote[t])
  <2>1. wrote[t] \in Seq(AllKinds) /\ wire[t] \in Seq(Nat \ {0})
    BY DEF LineTypes
  <2> QED
    BY <2>1, LenProperties DEF LastOf
<1>2. LinesRead(t) \in 0..Len(wrote[t])
  <2>1. \A a, b \in Nat : b <= a => a - b \in 0..a
    OBVIOUS
  <2> QED
    BY <1>1, <2>1, Zenon DEF LinesRead
<1> QED
  BY <1>2 DEF Serving, Served

\* The session moves on, or a line is read that is no message.
LEMMA MovesStep ==
  ASSUME NEW s \in Sessions, LineTypes(s), LineShape(s), Moves(s)
  PROVE  LineShape(s)'
<1>1. /\ wrote'[s] = wrote[s] /\ wire'[s] = wire[s] /\ holding'[s] = holding[s]
      /\ taken'[s] = taken[s] /\ outbound'[s] = outbound[s] /\ closed'[s] = closed[s]
      /\ pc[s] \notin Ended /\ pc[s] # "done" /\ holding[s] = 0 /\ pc'[s] # "sending"
      /\ reason[s] = "none" /\ reason'[s] # "Goodbye"
      /\ reason'[s] = reason[s] \/ pc'[s] \in Ended
  BY DEF Moves, ChannelKept, LineShape, Ended
<1>2. LastOf(wire[s], wrote[s]) /\ (~closed[s] => Serving(s))
  BY <1>1 DEF LineShape
<1>3. ~closed[s] => Served(s)
  BY <1>1, <1>2, ServingIsServed
<1>4. /\ Serving(s) => Serving(s)'
      /\ Served(s) => Served(s)'
  BY <1>1 DEF Served, Serving, PassedThrough, Passed, Held, LinesRead
<1> QED
  BY <1>1, <1>2, <1>3, <1>4 DEF LineShape

\* What reading a line changes.
LEMMA LineIsRead ==
  ASSUME NEW s \in Sessions, LineTypes(s), LineShape(s), ChannelKept(s), wire[s] # << >>,
         wire'[s] = Tail(wire[s]), pc[s] \notin Ended
  PROVE  /\ LastOf(wire[s], wrote[s])' /\ LinesRead(s)' = LinesRead(s) + 1
         /\ LinesRead(s) \in Nat /\ LinesRead(s) + 1 \in 1..Len(wrote[s])
         /\ Head(wire[s]) = LinesRead(s) + 1
         /\ LineKind(s) = wrote[s][LinesRead(s) + 1]
<1>1. wrote'[s] = wrote[s] /\ LastOf(wire[s], wrote[s])
  BY DEF ChannelKept, LineShape, Ended
<1>2. /\ Head(wire[s]) = Len(wrote[s]) - Len(wire[s]) + 1
      /\ Head(wire[s]) \in 1..Len(wrote[s])
      /\ Len(wrote[s]) - Len(Tail(wire[s])) = Head(wire[s])
      /\ Len(wrote[s]) - Len(wire[s]) \in Nat
      /\ LastOf(Tail(wire[s]), wrote[s])
  BY <1>1, LastOfTail DEF LineTypes
<1> QED
  BY <1>1, <1>2 DEF LinesRead, LineKind

LEMMA SkipsStep ==
  ASSUME NEW s \in Sessions, LineTypes(s), LineShape(s), Skips(s)
  PROVE  LineShape(s)'
<1>0. PICK n : n = LinesRead(s)
  OBVIOUS
<1>1. /\ ChannelKept(s) /\ wire[s] # << >> /\ wire'[s] = Tail(wire[s])
      /\ holding'[s] = holding[s] /\ holding[s] = 0 /\ pc[s] \notin Ended
      /\ pc'[s] # "sending" /\ reason[s] = "none"
      /\ \/ pc'[s] = "leaving" /\ reason'[s] # "Goodbye"
         \/ LineKind(s) \notin {"msg", "goodbye"} /\ reason'[s] = reason[s]
  BY DEF Skips, LineShape, Ended
<1>2. /\ wrote'[s] = wrote[s] /\ taken'[s] = taken[s]
      /\ outbound'[s] = outbound[s] /\ closed'[s] = closed[s]
  BY <1>1 DEF ChannelKept
<1>3. /\ LastOf(wire[s], wrote[s])' /\ LinesRead(s)' = n + 1
      /\ n \in Nat /\ n + 1 \in 1..Len(wrote[s])
      /\ LineKind(s) = wrote[s][n + 1]
  BY <1>0, <1>1, LineIsRead
<1>4. ~closed[s] => Serving(s)
  BY <1>1 DEF LineShape
<1>5. Passed(s)' = Passed(s)
  BY <1>1, <1>2 DEF Passed, Held
<1>6. CASE pc'[s] = "leaving" /\ reason'[s] # "Goodbye"
  <2>1. Serving(s) => Served(s)'
    <3>1. n \in 0..Len(wrote'[s])
      BY <1>2, <1>3
    <3> QED
      BY <1>0, <1>2, <1>5, <1>6, <3>1 DEF Serving, Served, PassedThrough
  <2> QED
    BY <1>1, <1>2, <1>3, <1>4, <1>6, <2>1 DEF LineShape, Ended
<1>7. CASE LineKind(s) \notin {"msg", "goodbye"} /\ reason'[s] = reason[s]
  <2>1. SaidBy(wrote[s], n + 1) = SaidBy(wrote[s], n)
    BY <1>3, <1>7, SaidByNext
  <2>2. ASSUME Serving(s)
        PROVE  PassedThrough(s, n + 1)' /\ \A i \in 1..(n + 1) : wrote'[s][i] # "goodbye"
    <3>1. \A i \in 1..n : wrote[s][i] # "goodbye"
      BY <1>0, <2>2 DEF Serving
    <3>2. \A i \in 1..(n + 1) : i \in 1..n \/ i = n + 1
      BY <1>3
    <3>3. \A i \in 1..(n + 1) : wrote'[s][i] # "goodbye"
      BY <1>2, <1>3, <1>7, <3>1, <3>2
    <3>4. PassedThrough(s, n + 1)'
      BY <1>0, <1>2, <1>5, <2>1, <2>2 DEF Serving, PassedThrough
    <3> QED
      BY <3>3, <3>4
  <2>3. Serving(s) => Serving(s)'
    BY <1>3, <2>2 DEF Serving
  <2>4. Serving(s) => Served(s)'
    <3>1. n + 1 \in 0..Len(wrote'[s]) /\ reason'[s] # "Goodbye"
      BY <1>1, <1>2, <1>3, <1>7
    <3> QED
      BY <2>2, <3>1 DEF Served
  <2>5. reason'[s] = "none"
    BY <1>1, <1>7
  <2> QED
    BY <1>1, <1>2, <1>3, <1>4, <2>3, <2>4, <2>5 DEF LineShape
<1> QED
  BY <1>1, <1>6, <1>7

LEMMA BidsStep ==
  ASSUME NEW s \in Sessions, LineTypes(s), LineShape(s), Bids(s)
  PROVE  LineShape(s)'
<1>0. PICK n : n = LinesRead(s)
  OBVIOUS
<1>1. /\ ChannelKept(s) /\ wire[s] # << >> /\ wire'[s] = Tail(wire[s])
      /\ holding'[s] = holding[s] /\ holding[s] = 0 /\ pc[s] \notin Ended
      /\ pc'[s] = "leaving" /\ reason'[s] = "Goodbye" /\ LineKind(s) = "goodbye"
  BY DEF Bids, LineShape, Ended
<1>2. /\ wrote'[s] = wrote[s] /\ taken'[s] = taken[s]
      /\ outbound'[s] = outbound[s] /\ closed'[s] = closed[s]
  BY <1>1 DEF ChannelKept
<1>3. /\ LastOf(wire[s], wrote[s])'
      /\ n \in Nat /\ n + 1 \in 1..Len(wrote[s])
      /\ LineKind(s) = wrote[s][n + 1]
  BY <1>0, <1>1, LineIsRead
<1>4. ~closed[s] => Serving(s)
  BY <1>1 DEF LineShape
<1>5. Passed(s)' = Passed(s)
  BY <1>1, <1>2 DEF Passed, Held
<1>6. SaidBy(wrote[s], n + 1) = SaidBy(wrote[s], n)
  BY <1>1, <1>3, SaidByNext
<1>7. Serving(s) => PassedThrough(s, n + 1)'
  BY <1>0, <1>2, <1>5, <1>6 DEF Serving, PassedThrough
<1>8. Serving(s) => Served(s)'
  <2>1. n + 1 \in 0..Len(wrote'[s]) /\ n + 1 # 0 /\ wrote'[s][n + 1] = "goodbye"
    BY <1>1, <1>2, <1>3
  <2> QED
    BY <1>7, <2>1 DEF Served
<1> QED
  BY <1>1, <1>2, <1>3, <1>4, <1>8 DEF LineShape, Ended

LEMMA TakesStep ==
  ASSUME NEW s \in Sessions, LineTypes(s), LineShape(s), Takes(s)
  PROVE  LineShape(s)'
<1> DEFINE n == LinesRead(s)  d == taken[s] \o outbound[s]
<1>1. /\ ChannelKept(s) /\ wire[s] # << >> /\ wire'[s] = Tail(wire[s])
      /\ holding'[s] = Head(wire[s]) /\ holding[s] = 0 /\ pc[s] \notin Ended
      /\ pc'[s] = "sending" /\ reason[s] = "none" /\ reason'[s] = "none"
      /\ LineKind(s) = "msg"
  BY DEF Takes, LineShape, Ended
<1>2. /\ wrote'[s] = wrote[s] /\ taken'[s] = taken[s]
      /\ outbound'[s] = outbound[s] /\ closed'[s] = closed[s]
  BY <1>1 DEF ChannelKept
<1>3. /\ LastOf(wire[s], wrote[s])' /\ LinesRead(s)' = n + 1
      /\ n \in Nat /\ n + 1 \in 1..Len(wrote[s])
      /\ Head(wire[s]) = n + 1 /\ LineKind(s) = wrote[s][n + 1]
  BY <1>1, LineIsRead
<1>4. ~closed[s] => Serving(s)
  BY <1>1 DEF LineShape
<1>5. Passed(s) = d /\ d \in Seq(Nat)
  BY <1>1, PassedType
<1>6. holding'[s] = n + 1 /\ holding'[s] # 0
  BY <1>1, <1>3
<1>7. Passed(s)' = d \o <<n + 1>>
  BY <1>2, <1>6 DEF Passed, Held
<1>8. ASSUME Serving(s) PROVE Serving(s)'
  <2>1. Enumerates(d, Len(d), SaidBy(wrote[s], n)) /\ \A i \in 1..n : wrote[s][i] # "goodbye"
    BY <1>5, <1>8 DEF Serving, PassedThrough
  <2> HIDE DEF n, d
  <2>2. Enumerates(d \o <<n + 1>>, Len(d \o <<n + 1>>), SaidBy(wrote[s], n + 1))
    BY <1>1, <1>3, <1>5, <2>1, PassedMore
  <2>3. \A i \in 1..(n + 1) : i \in 1..n \/ i = n + 1
    BY <1>3
  <2>4. \A i \in 1..(n + 1) : wrote[s][i] # "goodbye"
    BY <1>1, <1>3, <2>1, <2>3
  <2> QED
    BY <1>2, <1>3, <1>7, <2>2, <2>4 DEF Serving, PassedThrough
<1> QED
  BY <1>1, <1>2, <1>3, <1>4, <1>6, <1>8 DEF LineShape, Ended

LEMMA SendsStep ==
  ASSUME NEW s \in Sessions, LineTypes(s), LineShape(s), Sends(s)
  PROVE  LineShape(s)'
<1> DEFINE h == holding[s]
<1>1. /\ wrote'[s] = wrote[s] /\ wire'[s] = wire[s] /\ taken'[s] = taken[s]
      /\ closed'[s] = closed[s] /\ reason'[s] = reason[s]
      /\ pc[s] = "sending" /\ pc'[s] = "running" /\ holding'[s] = 0 /\ h # 0
      /\ ~closed[s] => outbound'[s] = Append(outbound[s], h)
  BY DEF Sends, LineShape
<1>2. /\ LastOf(wire[s], wrote[s]) /\ (~closed[s] => Serving(s))
      /\ reason[s] = "none"
  BY <1>1 DEF LineShape, Ended
<1>3. ASSUME ~closed[s] PROVE Passed(s)' = Passed(s)
  <2>1. taken[s] \in Seq(Nat) /\ outbound[s] \in Seq(Nat) /\ h \in Nat
    BY NumbersAreNat DEF LineTypes
  <2>2. /\ Passed(s) = (taken[s] \o outbound[s]) \o <<h>>
        /\ taken[s] \o outbound[s] \in Seq(Nat)
    BY <1>1, PassedType
  <2> HIDE DEF h
  <2>3. taken[s] \o Append(outbound[s], h) = Append(taken[s] \o outbound[s], h)
    <3> DEFINE a == taken[s]  b == outbound[s]
    <3>1. a \in Seq(Nat) /\ b \in Seq(Nat)
      BY <2>1
    <3> HIDE DEF a, b
    <3>2. a \o Append(b, h) = Append(a \o b, h)
      BY <2>1, <3>1, ConcatAppend
    <3> QED
      BY <3>2 DEF a, b
  <2>4. Append(taken[s] \o outbound[s], h) = (taken[s] \o outbound[s]) \o <<h>>
    BY <2>1, <2>2, AppendIsConcat
  <2>5. Passed(s)' = (taken[s] \o Append(outbound[s], h)) \o << >>
    BY <1>1, <1>3 DEF Passed, Held
  <2>6. Append(taken[s] \o outbound[s], h) \in Seq(Nat)
    BY <2>1, <2>2, AppendProperties
  <2>7. Append(taken[s] \o outbound[s], h) \o << >> = Append(taken[s] \o outbound[s], h)
    BY <2>6, ConcatEmptySeq
  <2> QED
    BY <2>2, <2>3, <2>4, <2>5, <2>7
<1>4. ~closed[s] => Serving(s)'
  BY <1>1, <1>2, <1>3 DEF Serving, PassedThrough, LinesRead
<1> QED
  BY <1>1, <1>2, <1>4 DEF LineShape, Ended

LEMMA ForgetsStep ==
  ASSUME NEW s \in Sessions, LineShape(s), Forgets(s)
  PROVE  LineShape(s)'
<1>1. /\ wrote'[s] = wrote[s] /\ holding'[s] = holding[s]
      /\ taken'[s] = taken[s] /\ outbound'[s] = outbound[s] /\ closed'[s] = closed[s]
      /\ pc[s] = "leaving" /\ pc'[s] = "done" /\ reason'[s] = reason[s]
  BY DEF Forgets, ChannelKept
<1>2. Served(s) => Served(s)'
  BY <1>1 DEF Served, PassedThrough, Passed, Held
<1> QED
  BY <1>1, <1>2 DEF LineShape, Ended

LEMMA WritesStep ==
  ASSUME NEW s \in Sessions, LineTypes(s), LineShape(s), Writes(s)
  PROVE  LineShape(s)'
<1> DEFINE w == wrote[s]
<1>1. PICK k \in AllKinds : wrote'[s] = Append(w, k)
  BY DEF Writes
<1>2. /\ wire'[s] = Append(wire[s], Len(w) + 1)
      /\ taken'[s] = taken[s] /\ outbound'[s] = outbound[s] /\ holding'[s] = holding[s]
      /\ reason'[s] = reason[s] /\ closed'[s] = closed[s] /\ pc'[s] = pc[s]
      /\ pc[s] # "done"
  BY DEF Writes
<1>3. w \in Seq(AllKinds) /\ wire[s] \in Seq(Nat \ {0}) /\ LastOf(wire[s], w)
  BY <1>2 DEF LineTypes, LineShape
<1> HIDE DEF w
<1>4. /\ LastOf(Append(wire[s], Len(w) + 1), Append(w, k))
      /\ Len(Append(w, k)) - Len(Append(wire[s], Len(w) + 1)) = Len(w) - Len(wire[s])
      /\ Len(w) - Len(wire[s]) \in 0..Len(w) /\ Len(Append(w, k)) = Len(w) + 1
  BY <1>3, LastOfAppend
<1>5. LastOf(wire[s], wrote[s])' /\ LinesRead(s)' = LinesRead(s)
      /\ LinesRead(s) \in 0..Len(w)
  BY <1>1, <1>2, <1>4 DEF LinesRead, w
<1>6. Passed(s)' = Passed(s)
  BY <1>2 DEF Passed, Held
<1>7. \A n \in 0..Len(w) : SaidBy(Append(w, k), n) = SaidBy(w, n)
  BY <1>3, SaidByAppend
<1>8. Len(w) \in Nat /\ \A i \in 1..Len(w) : Append(w, k)[i] = w[i]
  BY <1>3, AppendProperties, LenProperties
<1>9. ASSUME NEW n \in 0..Len(w), PassedThrough(s, n)
      PROVE  PassedThrough(s, n)' /\ n \in 0..Len(wrote'[s])
  <2>1. n \in 0..Len(wrote'[s])
    BY <1>1, <1>4, <1>8
  <2>2. Enumerates(Passed(s), Len(Passed(s)), SaidBy(w, n))
    BY <1>9 DEF PassedThrough, w
  <2>3. SaidBy(wrote'[s], n) = SaidBy(w, n)
    BY <1>1, <1>7
  <2> QED
    BY <1>6, <2>1, <2>2, <2>3 DEF PassedThrough
<1>10. Serving(s) => Serving(s)'
  <2> SUFFICES ASSUME Serving(s) PROVE Serving(s)'
    OBVIOUS
  <2>1. \A i \in 1..LinesRead(s) : i \in 1..Len(w) /\ w[i] # "goodbye"
    BY <1>5, <1>8 DEF Serving, w
  <2>2. \A i \in 1..LinesRead(s) : wrote'[s][i] # "goodbye"
    BY <1>1, <1>8, <2>1
  <2>3. PassedThrough(s, LinesRead(s))'
    <3>1. PassedThrough(s, LinesRead(s))
      BY DEF Serving
    <3> QED
      BY <1>1, <1>5, <1>6, <1>7, <3>1 DEF PassedThrough, w
  <2> QED
    BY <1>5, <2>2, <2>3 DEF Serving
<1>11. Served(s) => Served(s)'
  <2> SUFFICES ASSUME Served(s) PROVE Served(s)'
    OBVIOUS
  <2>1. PICK n \in 0..Len(w) :
          PassedThrough(s, n) /\ (reason[s] = "Goodbye" => n # 0 /\ w[n] = "goodbye")
    BY DEF Served, w
  <2>2. PassedThrough(s, n)' /\ n \in 0..Len(wrote'[s])
    BY <1>9, <2>1
  <2>3. reason'[s] = "Goodbye" => n # 0 /\ wrote'[s][n] = "goodbye"
    BY <1>1, <1>2, <1>8, <2>1
  <2> QED
    BY <2>2, <2>3 DEF Served
<1> QED
  BY <1>2, <1>5, <1>10, <1>11 DEF LineShape

LEMMA DeliversStep ==
  ASSUME NEW s \in Sessions, LineTypes(s), LineShape(s), Delivers(s)
  PROVE  LineShape(s)'
<1>1. /\ outbound[s] # << >> /\ taken'[s] = Append(taken[s], Head(outbound[s]))
      /\ outbound'[s] = Tail(outbound[s])
      /\ wrote'[s] = wrote[s] /\ wire'[s] = wire[s] /\ holding'[s] = holding[s]
      /\ reason'[s] = reason[s] /\ closed'[s] = closed[s] /\ pc'[s] = pc[s]
  BY DEF Delivers
<1>2. taken[s] \in Seq(Nat) /\ outbound[s] \in Seq(Nat)
  BY NumbersAreNat DEF LineTypes
<1>3. Append(taken[s], Head(outbound[s])) \o Tail(outbound[s]) = taken[s] \o outbound[s]
  BY <1>1, <1>2, MoveHead
<1>4. Passed(s)' = Passed(s)
  BY <1>1, <1>3 DEF Passed, Held
<1>5. /\ Serving(s) => Serving(s)'
      /\ Served(s) => Served(s)'
  BY <1>1, <1>4 DEF Serving, Served, PassedThrough, LinesRead
<1> QED
  BY <1>1, <1>5 DEF LineShape

LEMMA LineEventStep ==
  ASSUME NEW s \in Sessions, LineTypes(s), LineShape(s), LineEvent(s)
  PROVE  LineShape(s)'
<1>1. CASE Closes(s)
  BY <1>1 DEF Closes, LineShape
<1> QED
  BY <1>1, MovesStep, SkipsStep, BidsStep, TakesStep, SendsStep, ForgetsStep, WritesStep,
     DeliversStep DEF LineEvent

LEMMA LineShapeStep ==
  ASSUME TypeOK, HoldShape, WireShape, PassedShape, LineStep
  PROVE  HoldShape' /\ WireShape' /\ PassedShape'
<1>1. \A t \in Sessions : LineTypes(t) /\ LineShape(t)
  BY LineShapes
<1>2. \A t \in Sessions : LineShape(t)'
  BY <1>1, LinesKeptStep, LineEventStep DEF LineStep
<1>3. (HoldShape /\ WireShape /\ PassedShape <=> \A t \in Sessions : LineShape(t))'
  BY LineShapes, PTL
<1> QED
  BY <1>2, <1>3

-----------------------------------------------------------------------------
(* The types *)

\* What is taken from a queue of lines, or added to it.
LEMMA LineQueues ==
  ASSUME NEW q \in Seq(Nat \ {0})
  PROVE  /\ \A n \in Nat \ {0} : Append(q, n) \in Seq(Nat \ {0})
         /\ q # << >> => Head(q) \in Nat \ {0} /\ Tail(q) \in Seq(Nat \ {0})
  BY AppendProperties, HeadTailProperties

LEMMA TypesOfRest ==
  ASSUME TypeOK, IdShape, SnapshotShape, RoomTypeOK', [Next]_vars,
         wrote' \in [Sessions -> Seq(AllKinds)],
         wire' \in [Sessions -> Seq(Nat \ {0})],
         holding' \in [Sessions -> Nat],
         outbound' \in [Sessions -> Seq(Nat \ {0})],
         taken' \in [Sessions -> Seq(Nat \ {0})]
  PROVE  TypeOK'
<1>0. \A s \in Sessions : pc[s] = "hello" => MakeUnique(snapshot[s]) \in Agents
  BY UniqueIsFound
<1> USE DEF TypeOK
<1>1. CASE UNCHANGED bridgeVars
  BY <1>1 DEF bridgeVars, agentVars, appVars
<1>2. ASSUME NEW s \in Sessions, Handshake(s) PROVE TypeOK'
  <2>1. CASE AcceptTimeout(s) \/ Accept(s) \/ RefuseHello(s) \/ Join(s)
    BY <2>1 DEF AcceptTimeout, Accept, RefuseHello, Join, Goto, Pcs, agentVars, appVars
  <2>2. CASE StartHandshake(s)
    <3>1. ToSet(members) \subseteq RoomPeers
      <4>1. members \in Seq(RoomPeers)
        BY DEF RoomTypeOK
      <4>2. DOMAIN members = 1..Len(members)
        BY <4>1, LenProperties
      <4>3. \A i \in 1..Len(members) : members[i] \in RoomPeers
        BY <4>1, ElementOfSeq
      <4> QED
        BY <4>2, <4>3 DEF ToSet
    <3> QED
      BY <2>2, <3>1 DEF StartHandshake, Goto, Pcs, agentVars, appVars
  <2>3. CASE Welcome(s)
    <3>1. pc[s] = "hello"
      BY <2>3 DEF Welcome
    <3> DEFINE p == MakeUnique(snapshot[s])
    <3>2. p \in Agents
      BY <1>0, <3>1
    <3>3. /\ id' = [id EXCEPT ![s] = p] /\ snapshot' = [snapshot EXCEPT ![s] = {}]
          /\ UNCHANGED <<gone, reading, reason, inbox, offered, closed>>
      BY <2>3 DEF Welcome, agentVars, appVars
    <3> HIDE DEF p
    <3>4. \E place \in {"welcomed", "done"} : pc' = [pc EXCEPT ![s] = place]
      BY <2>3 DEF Welcome, Goto
    <3>5. pc' \in [Sessions -> Pcs]
      BY <3>4 DEF Pcs
    <3>6. id' \in [Sessions -> Agents \cup {NoPeer}] /\ snapshot' \in [Sessions -> SUBSET RoomPeers]
      BY <3>2, <3>3
    <3> QED
      BY <3>3, <3>5, <3>6
  <2> QED
    BY <1>2, <2>1, <2>2, <2>3 DEF Handshake
<1>3. ASSUME NEW s \in Sessions, Participant(s) PROVE TypeOK'
  <2>1. CASE BeginLine(s) \/ ReadEof(s) \/ SendOutbound(s) \/ RoomClosed(s)
    BY <2>1 DEF BeginLine, ReadEof, SendOutbound, RoomClosed, Goto, End, Pcs,
                DisconnectReason, agentVars, appVars
  <2>2. CASE ReadLine(s)
    <3>1. pc' \in [Sessions -> Pcs] /\ reason' \in [Sessions -> DisconnectReason \cup {"none"}]
      BY <2>2 DEF ReadLine, Goto, End, Pcs, DisconnectReason
    <3> QED
      BY <2>2, <3>1 DEF ReadLine, agentVars, appVars
  <2>3. CASE ForwardEvent(s)
    <3>1. pc' \in [Sessions -> Pcs] /\ reason' \in [Sessions -> DisconnectReason \cup {"none"}]
      BY <2>3 DEF ForwardEvent, Goto, End, Pcs, DisconnectReason
    <3>2. inbox[s] - 1 \in 0..InboxCap
      BY <2>3, BridgeAssumption DEF ForwardEvent
    <3> QED
      BY <2>3, <3>1, <3>2 DEF ForwardEvent, agentVars, appVars
  <2>4. CASE Leave(s)
    <3>1. 0 \in 0..InboxCap
      BY BridgeAssumption
    <3> QED
      BY <2>4, <3>1 DEF Leave, Goto, Pcs, agentVars, appVars
  <2> QED
    BY <1>3, <2>1, <2>2, <2>3, <2>4 DEF Participant
<1>4. ASSUME NEW s \in Sessions, Environment(s) PROVE TypeOK'
  <2>1. CASE OfferEvent(s)
    <3>1. inbox[s] + 1 \in 0..InboxCap /\ offered[s] + 1 \in Nat
      BY <2>1, BridgeAssumption DEF OfferEvent
    <3> QED
      BY <2>1, <3>1 DEF OfferEvent, agentVars
  <2>2. ASSUME NEW k \in AllKinds, WriteLine(s, k) PROVE TypeOK'
    BY <2>2 DEF WriteLine, appVars
  <2>3. CASE AgentGone(s) \/ TakeOutbound(s) \/ CloseRoom(s)
    BY <2>3 DEF AgentGone, TakeOutbound, CloseRoom, agentVars, appVars
  <2> QED
    BY <1>4, <2>1, <2>2, <2>3 DEF Environment
<1> QED
  BY <1>1, <1>2, <1>3, <1>4 DEF Next, vars

LEMMA LineTypesStep ==
  ASSUME TypeOK, HoldShape, [Next]_vars
  PROVE  /\ wrote' \in [Sessions -> Seq(AllKinds)]
         /\ wire' \in [Sessions -> Seq(Nat \ {0})]
         /\ holding' \in [Sessions -> Nat]
         /\ outbound' \in [Sessions -> Seq(Nat \ {0})]
         /\ taken' \in [Sessions -> Seq(Nat \ {0})]
<1> DEFINE Typed == /\ wrote' \in [Sessions -> Seq(AllKinds)]
                    /\ wire' \in [Sessions -> Seq(Nat \ {0})]
                    /\ holding' \in [Sessions -> Nat]
                    /\ outbound' \in [Sessions -> Seq(Nat \ {0})]
                    /\ taken' \in [Sessions -> Seq(Nat \ {0})]
<1>1. /\ wrote \in [Sessions -> Seq(AllKinds)] /\ wire \in [Sessions -> Seq(Nat \ {0})]
      /\ holding \in [Sessions -> Nat] /\ outbound \in [Sessions -> Seq(Nat \ {0})]
      /\ taken \in [Sessions -> Seq(Nat \ {0})]
  BY DEF TypeOK
<1>2. CASE UNCHANGED <<wrote, wire, holding, outbound, taken>>
  BY <1>1, <1>2
<1>3. << >> \in Seq(Nat \ {0})
  BY EmptySeq
<1>4. ASSUME NEW s \in Sessions, wire[s] # << >>, wire' = [wire EXCEPT ![s] = Tail(@)],
             UNCHANGED <<wrote, outbound, taken>>,
             UNCHANGED holding \/ holding' = [holding EXCEPT ![s] = Head(wire[s])]
      PROVE  Typed
  <2>1. Tail(wire[s]) \in Seq(Nat \ {0}) /\ Head(wire[s]) \in Nat
    BY <1>1, <1>4, LineQueues
  <2> QED
    BY <1>1, <1>4, <2>1
<1>5. ASSUME NEW s \in Sessions, SendOutbound(s) PROVE Typed
  <2>1. holding[s] \in Nat \ {0}
    BY <1>1, <1>5 DEF SendOutbound, HoldShape
  <2>2. Append(outbound[s], holding[s]) \in Seq(Nat \ {0})
    BY <1>1, <2>1, LineQueues
  <2>3. outbound' = outbound \/ outbound' = [outbound EXCEPT ![s] = Append(@, holding[s])]
    BY <1>5 DEF SendOutbound
  <2>4. outbound' \in [Sessions -> Seq(Nat \ {0})]
    BY <1>1, <2>2, <2>3
  <2> QED
    BY <1>1, <1>5, <2>4 DEF SendOutbound, agentVars, appVars
<1>6. ASSUME NEW s \in Sessions, Leave(s) PROVE Typed
  BY <1>1, <1>3, <1>6 DEF Leave, agentVars, appVars
<1>7. ASSUME NEW s \in Sessions, NEW k \in AllKinds, WriteLine(s, k) PROVE Typed
  <2>1. /\ Append(wrote[s], k) \in Seq(AllKinds)
        /\ Len(Append(wrote[s], k)) \in Nat \ {0}
    BY <1>1, AppendProperties, LenProperties
  <2>2. wrote' = [wrote EXCEPT ![s] = Append(@, k)]
    BY <1>7 DEF WriteLine
  <2>3. wrote'[s] = Append(wrote[s], k) /\ wrote' \in [Sessions -> Seq(AllKinds)]
    BY <1>1, <2>1, <2>2
  <2>4. Append(wire[s], Len(wrote'[s])) \in Seq(Nat \ {0})
    BY <1>1, <2>1, <2>3, LineQueues
  <2> QED
    BY <1>1, <1>7, <2>3, <2>4 DEF WriteLine, appVars
<1>8. ASSUME NEW s \in Sessions, TakeOutbound(s) PROVE Typed
  <2>1. outbound[s] # << >>
    BY <1>8 DEF TakeOutbound
  <2>2. Head(outbound[s]) \in Nat \ {0} /\ Tail(outbound[s]) \in Seq(Nat \ {0})
    BY <1>1, <2>1, LineQueues
  <2>3. Append(taken[s], Head(outbound[s])) \in Seq(Nat \ {0})
    BY <1>1, <2>2, LineQueues
  <2> QED
    BY <1>1, <1>8, <2>2, <2>3 DEF TakeOutbound, agentVars
<1>9. ASSUME NEW s \in Sessions, CloseRoom(s) PROVE Typed
  BY <1>1, <1>3, <1>9 DEF CloseRoom, agentVars
<1>10. ASSUME NEW s \in Sessions, Welcome(s) \/ ReadLine(s) PROVE Typed
  <2>1. /\ wire[s] # << >> /\ wire' = [wire EXCEPT ![s] = Tail(@)]
        /\ UNCHANGED <<wrote, outbound, taken>>
        /\ UNCHANGED holding \/ holding' = [holding EXCEPT ![s] = Head(wire[s])]
    BY <1>10 DEF Welcome, ReadLine, agentVars, appVars
  <2> QED
    BY <1>4, <2>1
<1> HIDE DEF Typed
<1>11. ASSUME NEW s \in Sessions, Handshake(s) \/ Participant(s) \/ Environment(s)
       PROVE  Typed
  <2>1. \/ UNCHANGED <<wrote, wire, holding, outbound, taken>>
        \/ SendOutbound(s) \/ Leave(s) \/ TakeOutbound(s) \/ CloseRoom(s)
        \/ (\E k \in AllKinds : WriteLine(s, k)) \/ Welcome(s) \/ ReadLine(s)
    BY <1>11 DEF Handshake, Participant, Environment, AcceptTimeout, Accept,
                 StartHandshake, RefuseHello, Join, BeginLine, ReadEof, ForwardEvent,
                 RoomClosed, AgentGone, OfferEvent, agentVars, appVars
  <2> QED
    BY <1>2, <1>5, <1>6, <1>7, <1>8, <1>9, <1>10, <2>1 DEF Typed
<1> QED
  BY <1>2, <1>11 DEF Next, vars, bridgeVars, agentVars, appVars, Typed

-----------------------------------------------------------------------------
(* The invariant, and what it shows *)

AgentInv ==
  /\ TypeOK
  /\ OneSeatEach
  /\ StoryShape
  /\ IdShape /\ SnapshotShape /\ NoGhostAgent
  /\ HoldShape /\ WireShape /\ PassedShape

LEMMA AgentInit == Init => AgentInv
<1> SUFFICES ASSUME Init PROVE AgentInv
  OBVIOUS
<1> USE DEF Init, RoomInit
<1> DEFINE seats == <<Admin>>
<1>1. /\ seats \in Seq(RoomPeers) /\ Len(seats) = 1 /\ DOMAIN seats = 1..1 /\ seats[1] = Admin
      /\ \A S : << >> \in Seq(S)
  BY PeersApart
<1>2. RoomTypeOK
  BY <1>1 DEF RoomTypeOK
<1>3. TypeOK
  <2>1. 0 \in 0..InboxCap
    BY BridgeAssumption
  <2> QED
    BY <1>1, <1>2, <2>1 DEF TypeOK, Pcs
<1>4. OneSeatEach
  <2>1. MaxMembers \in Nat \ {0} /\ members = seats
    BY RoomAssumption
  <2> HIDE DEF seats
  <2> QED
    BY <1>1, <2>1 DEF OneSeatEach, IsInjective, Member, Contains
<1>5. StoryShape
  <2> DEFINE f == [i \in 0..0 |-> seats]
  <2>1. f = [i \in 0..0 |-> f[i]] /\ f[0] = seats
    OBVIOUS
  <2>2. Len(events) = 0 /\ shown = seats /\ members = seats
    OBVIOUS
  <2> HIDE DEF f, seats
  <2>3. Story(f)
    BY <2>1, <2>2 DEF Story
  <2> QED
    BY <2>1, <2>2, <2>3 DEF StoryShape
<1>6. IdShape /\ SnapshotShape
  BY DEF IdShape, SnapshotShape
<1>7. NoGhostAgent
  <2>1. \A p \in Agents : p # Admin
    BY PeersApart
  <2> QED
    BY <1>1, <2>1 DEF NoGhostAgent, Member, Contains
<1>8. ASSUME NEW t \in Sessions PROVE LineShape(t)
  <2>1. /\ pc[t] = "listening" /\ holding[t] = 0 /\ reason[t] = "none" /\ ~closed[t]
        /\ wire[t] = << >> /\ wrote[t] = << >> /\ taken[t] = << >> /\ outbound[t] = << >>
    OBVIOUS
  <2>2. LastOf(wire[t], wrote[t]) /\ LinesRead(t) = 0
    BY <2>1 DEF LastOf, LinesRead
  <2>3. Passed(t) = << >>
    <3>1. << >> \in Seq(Nat)
      BY EmptySeq
    <3>2. << >> \o << >> = << >>
      BY <3>1, ConcatEmptySeq
    <3> QED
      BY <2>1, <3>2 DEF Passed, Held
  <2>4. SaidBy(wrote[t], 0) = {}
    BY DEF SaidBy
  <2>5. Serving(t)
    <3>1. Len(Passed(t)) = 0 /\ SaidBy(wrote[t], LinesRead(t)) = {}
      BY <2>2, <2>3, <2>4
    <3>2. Enumerates(Passed(t), Len(Passed(t)), SaidBy(wrote[t], LinesRead(t)))
      BY <2>3, <3>1, EnumerateNone
    <3>3. \A i \in 1..LinesRead(t) : wrote[t][i] # "goodbye"
      BY <2>2
    <3> QED
      BY <3>2, <3>3 DEF Serving, PassedThrough
  <2> QED
    BY <2>1, <2>2, <2>5 DEF LineShape, Ended
<1>9. HoldShape /\ WireShape /\ PassedShape
  BY <1>8, LineShapes
<1> QED
  BY <1>3, <1>4, <1>5, <1>6, <1>7, <1>9 DEF AgentInv

LEMMA AgentStep == AgentInv /\ [Next]_vars => AgentInv'
<1> SUFFICES ASSUME AgentInv, [Next]_vars PROVE AgentInv'
  OBVIOUS
<1>1. TypeOK /\ OneSeatEach /\ StoryShape /\ IdShape /\ SnapshotShape /\ NoGhostAgent
      /\ HoldShape /\ WireShape /\ PassedShape
  BY DEF AgentInv
<1>2. RoomStep /\ SeatStep /\ LineStep
  BY <1>1, StepRoom, StepSeats, StepLines
<1>3. RoomTypeOK
  BY <1>1 DEF TypeOK
<1>4. RoomTypeOK' /\ OneSeatEach' /\ StoryShape'
  BY <1>1, <1>2, <1>3, RoomTypeStep, SeatsStep, StoryStep
<1>5. IdShape' /\ SnapshotShape' /\ NoGhostAgent'
  BY <1>1, <1>2, SeatShapeStep
<1>6. HoldShape' /\ WireShape' /\ PassedShape'
  BY <1>1, <1>2, LineShapeStep
<1>7. TypeOK'
  BY <1>1, <1>4, LineTypesStep, TypesOfRest
<1> QED
  BY <1>4, <1>5, <1>6, <1>7 DEF AgentInv

\* The inductive invariant holds: in every state the room, the handshakes, the sessions
\* and the lines of the agents agree on who has a seat, which id and what was passed on.
THEOREM AgentInvHolds == Spec => []AgentInv
  BY AgentInit, AgentStep, PTL DEF Spec

\* Every variable of the sessions and of the room keeps its type; in particular the
\* handshake always finds a peer id that is an agent's and that nobody in its member
\* list has (make_unique_agent_peer_id).
THEOREM AgentTypeCorrect == Spec => []TypeOK
<1>1. AgentInv => TypeOK
  BY DEF AgentInv
<1> QED
  BY <1>1, AgentInvHolds, PTL

\* RoomManager: each member has one seat, the room is never over its capacity and the
\* administrator stays, whatever the order of approvals, invitations and departures.
THEOREM SeatsAreExclusive == Spec => []OneSeatEach
<1>1. AgentInv => OneSeatEach
  BY DEF AgentInv
<1> QED
  BY <1>1, AgentInvHolds, PTL

\* The RoomEvents, applied in order to the list of the application layer, yield the
\* member list, unless one was dropped by a full channel.
THEOREM EventsAreTheStory == Spec => []EventsTellMembers
<1>1. AgentInv => EventsTellMembers
  BY StoryIsTold DEF AgentInv, TypeOK
<1> QED
  BY <1>1, AgentInvHolds, PTL

\* CleanupContext: an agent in the member list has a session that serves it or is about
\* to remove it.
THEOREM NoAgentIsAGhost == Spec => []NoGhostAgent
<1>1. AgentInv => NoGhostAgent
  BY DEF AgentInv
<1> QED
  BY <1>1, AgentInvHolds, PTL

\* What the invariant says of one session's lines is what ForwardedInOrder asks.
LEMMA PassedIsPrefix ==
  ASSUME AgentInv, NEW s \in Sessions, ~closed[s]
  PROVE  /\ IsPrefix(Passed(s), Said(s))
         /\ reason[s] = "Goodbye" => Passed(s) = Said(s) /\ holding[s] = 0
<1> DEFINE w == wrote[s]  m == Len(w)  at == SaidBy(w, m)
<1>1. LineTypes(s) /\ LineShape(s)
  BY LineShapes DEF AgentInv
<1>2. w \in Seq(AllKinds) /\ m \in Nat /\ Passed(s) \in Seq(Nat)
  BY <1>1, PassedType, LenProperties DEF LineTypes
<1>3. Said(s) = Picked([i \in 1..m |-> i], at)
  BY DEF Said, SaidBy
<1>4. PICK n \in 0..m : /\ PassedThrough(s, n)
                        /\ reason[s] = "Goodbye" => n # 0 /\ w[n] = "goodbye"
  <2>1. CASE pc[s] \in Ended
    BY <1>1, <2>1 DEF LineShape, Served
  <2>2. CASE pc[s] \notin Ended
    <3>1. LastOf(wire[s], w) /\ Serving(s) /\ reason[s] = "none"
      BY <1>1, <2>2 DEF LineShape, Ended
    <3>2. Served(s)
      BY <1>1, <3>1, ServingIsServed
    <3> QED
      BY <3>2 DEF Served
  <2> QED
    BY <2>1, <2>2
<1>5. Enumerates(Passed(s), Len(Passed(s)), SaidBy(w, n))
  BY <1>4 DEF PassedThrough
<1>6. n \in Nat /\ n <= m
  BY <1>2, <1>4
<1>7. SaidBy(w, n) = {i \in at : i <= n} /\ at \in SUBSET (1..m) /\ at \subseteq Nat
  BY <1>2, <1>6, SaidByWithin
<1>8. IsPrefix(Passed(s), Picked([i \in 1..m |-> i], at))
  <2>1. Enumerates(Passed(s), Len(Passed(s)), {i \in at : i <= n})
    BY <1>5, <1>7
  <2> HIDE DEF at, m, w
  <2> QED
    BY <1>2, <1>4, <1>7, <2>1, EnumerationIsPrefix
<1>9. ASSUME reason[s] = "Goodbye" PROVE Passed(s) = Said(s) /\ holding[s] = 0
  <2>1. SaidBy(w, m) = SaidBy(w, n)
    BY <1>2, <1>4, <1>6, <1>9, SaidByGoodbye
  <2>2. Enumerates(Passed(s), Len(Passed(s)), at)
    BY <1>5, <2>1
  <2>3. Picked([i \in 1..m |-> i], at) = Named([i \in 1..m |-> i], Passed(s), Len(Passed(s)))
    BY <1>7, <2>2, EnumerationIsPicked
  <2>4. Named([i \in 1..m |-> i], Passed(s), Len(Passed(s))) = Passed(s)
    <3>1. Passed(s) \in [1..Len(Passed(s)) -> at]
      BY <2>2 DEF Enumerates
    <3> HIDE DEF at, m
    <3> QED
      BY <1>7, <3>1 DEF Named
  <2>5. pc[s] # "sending"
    BY <1>1, <1>9 DEF LineShape, Ended
  <2> QED
    BY <1>1, <1>3, <2>3, <2>4, <2>5 DEF LineShape
<1> QED
  BY <1>3, <1>8, <1>9

\* AgentParticipant: what reaches the application layer is a prefix of what the agent
\* said, in its order; all of it, if the session ended with a Goodbye.
THEOREM AgentIsForwardedInOrder == Spec => []ForwardedInOrder
<1>1. AgentInv => ForwardedInOrder
  <2> SUFFICES ASSUME AgentInv, NEW s \in Sessions, ~closed[s]
               PROVE  /\ IsPrefix((taken[s] \o outbound[s])
                                    \o (IF holding[s] = 0 THEN << >> ELSE <<holding[s]>>),
                                  Said(s))
                      /\ reason[s] = "Goodbye" => taken[s] \o outbound[s] = Said(s)
    BY DEF ForwardedInOrder
  <2>1. /\ IsPrefix(Passed(s), Said(s))
        /\ reason[s] = "Goodbye" => Passed(s) = Said(s) /\ holding[s] = 0
    BY PassedIsPrefix
  <2>2. holding[s] = 0 => Passed(s) = taken[s] \o outbound[s]
    BY PassedType, LineShapes DEF AgentInv
  <2> QED
    BY <2>1, <2>2 DEF Passed, Held
<1> QED
  BY <1>1, AgentInvHolds, PTL
=============================================================================
