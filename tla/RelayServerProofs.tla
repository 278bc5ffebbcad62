-------------------------- MODULE RelayServerProofs --------------------------
(***************************************************************************)
(* Proofs about RelayServer, for any peers, connections, bounds and cap.   *)
(* TypeOK is not inductive alone: a router reads the frame it routes, so   *)
(* RouterShape ties its stage to what it holds. RelayInv adds that the     *)
(* registry, the routers, the queues and the channels agree on addressees. *)
(***************************************************************************)
EXTENDS RelayServer, SequenceTheorems, TLAPS

\* A router holds a frame exactly while it routes one, and a cloned sender
\* exactly while it is about to send.
RouterShape ==
  \A c \in Conns :
    /\ (stage[c] = "idle") <=> (cur[c] = NoItem)
    /\ (stage[c] = "forward") <=> (target[c] # NoConn)

RelayInv == TypeOK /\ RouterShape /\ NoDanglingEntry /\ HeldForAddressee /\ QueueBound

-----------------------------------------------------------------------------
(* Lemmas about queues of items *)

\* push_back: the new item joins those of the queue.
LEMMA AppendItems ==
  ASSUME NEW q \in Seq(Item), NEW m \in Item
  PROVE  /\ Append(q, m) \in Seq(Item)
         /\ ItemsOf(Append(q, m)) = ItemsOf(q) \cup {m}
  BY DEF ItemsOf

\* pop_front: no item comes in.
LEMMA TailItems ==
  ASSUME NEW q \in Seq(Item), q # << >>
  PROVE  /\ Tail(q) \in Seq(Item) /\ Head(q) \in Item
         /\ Head(q) \in ItemsOf(q)
         /\ ItemsOf(Tail(q)) \subseteq ItemsOf(q)
         /\ Len(Tail(q)) = Len(q) - 1
  BY DEF ItemsOf

\* An empty queue holds nothing.
LEMMA EmptyItems == << >> \in Seq(Item) /\ ItemsOf(<< >>) = {}
  BY DEF ItemsOf

\* enqueue adds nothing but the new item and respects the cap.
LEMMA EnqueueItems ==
  ASSUME NEW q \in Seq(Item), NEW m \in Item
  PROVE  /\ Enqueue(q, m) \in Seq(Item)
         /\ ItemsOf(Enqueue(q, m)) \subseteq ItemsOf(q) \cup {m}
         /\ Len(q) <= MaxQueueSize => Len(Enqueue(q, m)) <= MaxQueueSize
<1>1. /\ Append(q, m) \in Seq(Item) /\ Append(q, m) # << >>
      /\ Len(Append(q, m)) = Len(q) + 1
  BY AppendProperties
<1>2. ItemsOf(Append(q, m)) = ItemsOf(q) \cup {m}
  BY AppendItems
<1>3. CASE Len(q) + 1 > MaxQueueSize
  <2>1. Enqueue(q, m) = Tail(Append(q, m))
    BY <1>3 DEF Enqueue
  <2>2. /\ Tail(Append(q, m)) \in Seq(Item)
        /\ ItemsOf(Tail(Append(q, m))) \subseteq ItemsOf(Append(q, m))
        /\ Len(Tail(Append(q, m))) = Len(Append(q, m)) - 1
    <3> DEFINE r == Append(q, m)
    <3>1. r \in Seq(Item) /\ r # << >>
      BY <1>1
    <3> HIDE DEF r
    <3>2. /\ Tail(r) \in Seq(Item)
          /\ ItemsOf(Tail(r)) \subseteq ItemsOf(r)
          /\ Len(Tail(r)) = Len(r) - 1
      BY <3>1, TailItems
    <3> QED
      BY <3>2 DEF r
  <2>3. Len(Tail(Append(q, m))) = Len(q)
    BY <2>2, <1>1, LenProperties
  <2> QED
    BY <2>1, <2>2, <2>3, <1>2
<1>4. CASE ~(Len(q) + 1 > MaxQueueSize)
  <2>1. Enqueue(q, m) = Append(q, m)
    BY <1>4 DEF Enqueue
  <2> QED
    BY <2>1, <1>1, <1>2, <1>4, RelayAssumption
<1> QED
  BY <1>3, <1>4

\* A notice is an item for the peer the frame came from.
LEMMA NoticeItem ==
  ASSUME NEW m \in Item, NEW k \in {"queued", "error"}
  PROVE  Notice(k, m) \in Item /\ Notice(k, m).to = m.from
  BY DEF Notice, Item

\* send_to_peer appends to the channel of a connection of that peer, or nowhere.
LEMMA SendToPeerEffect ==
  ASSUME RelayInv, NEW p \in Peers, NEW m \in Item, m.to = p, SendToPeer(p, m)
  PROVE  /\ chan' \in [Conns -> Seq(Item)]
         /\ \A c \in Conns : \A x \in ItemsOf(chan'[c]) :
              x \in ItemsOf(chan[c]) \/ x.to = PeerOf[c]
<1>1. CASE chan' = chan
  BY <1>1 DEF RelayInv, TypeOK
<1>2. CASE chan' # chan
  <2>1. /\ registry[p] \in Conns /\ PeerOf[registry[p]] = p
        /\ chan' = [chan EXCEPT ![registry[p]] = Append(@, m)]
    BY <1>2 DEF SendToPeer, RelayInv, TypeOK, NoDanglingEntry
  <2>2. chan[registry[p]] \in Seq(Item)
    BY <2>1 DEF RelayInv, TypeOK
  <2>3. /\ Append(chan[registry[p]], m) \in Seq(Item)
        /\ ItemsOf(Append(chan[registry[p]], m)) = ItemsOf(chan[registry[p]]) \cup {m}
    BY <2>2, AppendItems
  <2> QED
    BY <2>1, <2>3 DEF RelayInv, TypeOK
<1> QED
  BY <1>1, <1>2

-----------------------------------------------------------------------------

\* The initial states satisfy the invariant.
LEMMA RelayInvInit == Init => RelayInv
<1> SUFFICES ASSUME Init PROVE RelayInv
  OBVIOUS
<1>1. TypeOK
  BY RelayAssumption, EmptyItems DEF Init, TypeOK, Pcs, TaskStates, Stages
<1>2. RouterShape
  BY DEF Init, RouterShape
<1>3. NoDanglingEntry
  BY DEF Init, NoDanglingEntry
<1>4. HeldForAddressee
  BY EmptyItems DEF Init, HeldForAddressee
<1>5. QueueBound
  <2>1. \A p \in Peers : store[p] = << >>
    BY DEF Init
  <2>2. \A p \in Peers : Len(store[p]) = 0
    BY <2>1, EmptySeq, Zenon
  <2>3. 0 <= MaxQueueSize
    BY RelayAssumption
  <2> QED
    BY <2>2, <2>3 DEF QueueBound
<1> QED
  BY <1>1, <1>2, <1>3, <1>4, <1>5 DEF RelayInv

\* The frame of a busy router is an item.
LEMMA RoutedFrame ==
  ASSUME RelayInv, NEW c \in Conns, stage[c] # "idle"
  PROVE  cur[c] \in Item /\ cur[c].to \in Peers /\ cur[c].from \in Peers
<1>1. cur[c] \in Item
  BY DEF RelayInv, TypeOK, RouterShape
<1> QED
  BY <1>1 DEF Item

\* The cloned sender of a router leads to a connection of the frame's addressee.
LEMMA TargetOfRouter ==
  ASSUME RelayInv, NEW c \in Conns, stage[c] = "forward"
  PROVE  target[c] \in Conns /\ PeerOf[target[c]] = cur[c].to
  BY DEF RelayInv, TypeOK, RouterShape, HeldForAddressee

\* Appending x to the channel of connection d.
LEMMA ChanAppend ==
  ASSUME TypeOK, NEW d \in Conns, NEW x \in Item
  PROVE  /\ [chan EXCEPT ![d] = Append(@, x)] \in [Conns -> Seq(Item)]
         /\ \A e \in Conns :
              ItemsOf([chan EXCEPT ![d] = Append(@, x)][e])
                \subseteq ItemsOf(chan[e]) \cup (IF e = d THEN {x} ELSE {})
<1>1. chan \in [Conns -> Seq(Item)] /\ chan[d] \in Seq(Item)
  BY DEF TypeOK
<1>2. /\ Append(chan[d], x) \in Seq(Item)
      /\ ItemsOf(Append(chan[d], x)) = ItemsOf(chan[d]) \cup {x}
  BY <1>1, AppendItems
<1> QED
  BY <1>1, <1>2

\* Storing x for peer p.
LEMMA StoreEnqueue ==
  ASSUME TypeOK, NEW p \in Peers, NEW x \in Item
  PROVE  LET s == [store EXCEPT ![p] = Enqueue(@, x)] IN
         /\ s \in [Peers -> Seq(Item)]
         /\ \A q \in Peers :
              /\ ItemsOf(s[q]) \subseteq ItemsOf(store[q]) \cup (IF q = p THEN {x} ELSE {})
              /\ Len(store[q]) <= MaxQueueSize => Len(s[q]) <= MaxQueueSize
<1>1. store \in [Peers -> Seq(Item)] /\ store[p] \in Seq(Item)
  BY DEF TypeOK
<1>2. /\ Enqueue(store[p], x) \in Seq(Item)
      /\ ItemsOf(Enqueue(store[p], x)) \subseteq ItemsOf(store[p]) \cup {x}
      /\ Len(store[p]) <= MaxQueueSize => Len(Enqueue(store[p], x)) <= MaxQueueSize
  BY <1>1, EnqueueItems
<1> QED
  BY <1>1, <1>2

\* The new frame of ReadFrame.
LEMMA NewFrame ==
  ASSUME TypeOK, NEW c \in Conns, NEW k \in ClientKinds, NEW f \in Peers,
         NEW p \in Peers
  PROVE  [kind |-> k, id |-> nextId, src |-> c, from |-> f, to |-> p] \in Item
  BY RelayAssumption DEF TypeOK, Item, FrameKinds

-----------------------------------------------------------------------------
(* TypeOK is preserved *)

\* The router goes on with the frame, or is done with it.
LEMMA RouterTypes ==
  ASSUME TypeOK, NEW c \in Conns,
         RouteDone(c) \/ RouteTo(c, "unregister") \/ RouteTo(c, "notify")
  PROVE  /\ stage' \in [Conns -> Stages] /\ cur' \in [Conns -> Item \cup {NoItem}]
         /\ target' \in [Conns -> Conns \cup {NoConn}]
<1>1. /\ stage \in [Conns -> Stages] /\ cur \in [Conns -> Item \cup {NoItem}]
      /\ target \in [Conns -> Conns \cup {NoConn}]
  BY DEF TypeOK
<1>2. CASE RouteDone(c)
  <2>1. stage' \in [Conns -> Stages]
    BY <1>1, <1>2 DEF RouteDone, Stages
  <2>2. cur' \in [Conns -> Item \cup {NoItem}]
    BY <1>1, <1>2 DEF RouteDone
  <2>3. target' \in [Conns -> Conns \cup {NoConn}]
    BY <1>1, <1>2 DEF RouteDone
  <2> QED
    BY <2>1, <2>2, <2>3
<1>3. CASE RouteTo(c, "unregister") \/ RouteTo(c, "notify")
  <2>1. stage' \in [Conns -> Stages]
    BY <1>1, <1>3 DEF RouteTo, Stages
  <2> QED
    BY <1>1, <1>3, <2>1 DEF RouteTo
<1> QED
  BY <1>2, <1>3

LEMMA TypeOKStep == RelayInv /\ [Next]_vars => TypeOK'
<1> SUFFICES ASSUME RelayInv, [Next]_vars PROVE TypeOK'
  OBVIOUS
<1> USE RelayAssumption DEF RelayInv, TypeOK, connVars, routeVars, RouteDone, RouteTo,
        Pcs, TaskStates, Stages
<1>1. ASSUME NEW c \in Conns, Handler(c) PROVE TypeOK'
  <2>1. CASE RegisterRefused(c)
    BY <2>1 DEF RegisterRefused
  <2>2. CASE Register(c)
    BY <2>2 DEF Register
  <2>3. CASE SendRegistered(c)
    <3>1. \/ pc' = [pc EXCEPT ![c] = "drain"]
          \/ pc' = [pc EXCEPT ![c] = "cleanup"]
      BY <2>3 DEF SendRegistered
    <3>2. pc' \in [Conns -> Pcs]
      BY <3>1
    <3>3. UNCHANGED <<registry, store, nextId, closeAlls, sock, writer, reader, chan,
                      drained, stage, target, cur, rcvd>>
      BY <2>3 DEF SendRegistered
    <3> QED
      BY <3>2, <3>3
  <2>4. CASE Drain(c)
    BY <2>4, EmptyItems DEF Drain
  <2>5. CASE DeliverQueued(c)
    <3>1. Head(drained[c]) \in Item /\ Tail(drained[c]) \in Seq(Item)
      BY <2>5, TailItems DEF DeliverQueued
    <3>2. [Head(drained[c]) EXCEPT !.kind = "payload"] \in Item
      BY <3>1 DEF Item, FrameKinds
    <3>3. Append(rcvd[c], [Head(drained[c]) EXCEPT !.kind = "payload"]) \in Seq(Item)
      BY <3>2, AppendItems
    <3>a. /\ drained' = [drained EXCEPT ![c] = Tail(drained[c])]
             \/ drained' = [drained EXCEPT ![c] = << >>]
          /\ \/ rcvd' = rcvd
             \/ rcvd' = [rcvd EXCEPT ![c] =
                           Append(rcvd[c], [Head(drained[c]) EXCEPT !.kind = "payload"])]
      BY <2>5 DEF DeliverQueued
    <3>b. drained \in [Conns -> Seq(Item)] /\ rcvd \in [Conns -> Seq(Item)] /\ << >> \in Seq(Item)
      BY EmptyItems
    <3>4. drained' \in [Conns -> Seq(Item)]
      <4> HIDE DEF RelayInv, TypeOK
      <4>1. \A q \in Seq(Item) : [drained EXCEPT ![c] = q] \in [Conns -> Seq(Item)]
        BY <3>b
      <4> QED
        BY <3>1, <3>a, <3>b, <4>1
    <3>5. rcvd' \in [Conns -> Seq(Item)]
      <4> HIDE DEF RelayInv, TypeOK
      <4>1. \A q \in Seq(Item) : [rcvd EXCEPT ![c] = q] \in [Conns -> Seq(Item)]
        BY <3>b
      <4>2. CASE rcvd' = rcvd
        BY <3>b, <4>2
      <4> QED
        BY <3>3, <3>a, <3>b, <4>1, <4>2
    <3> QED
      BY <2>5, <3>4, <3>5 DEF DeliverQueued
  <2>6. CASE SpawnTasks(c)
    BY <2>6 DEF SpawnTasks
  <2>7. CASE TaskEnded(c)
    BY <2>7 DEF TaskEnded
  <2>8. CASE Cleanup(c)
    BY <2>8, EmptyItems DEF Cleanup
  <2> QED
    BY <1>1, <2>1, <2>2, <2>3, <2>4, <2>5, <2>6, <2>7, <2>8 DEF Handler
<1>2. ASSUME NEW c \in Conns, WriterTask(c) PROVE TypeOK'
  <2>1. CASE WriteOne(c)
    <3>1. Head(chan[c]) \in Item /\ Tail(chan[c]) \in Seq(Item)
      BY <2>1, TailItems DEF WriteOne
    <3>2. Append(rcvd[c], Head(chan[c])) \in Seq(Item)
      BY <3>1, AppendItems
    <3>4. /\ chan' = [chan EXCEPT ![c] = Tail(chan[c])] \/ chan' = [chan EXCEPT ![c] = << >>]
          /\ rcvd' = rcvd \/ rcvd' = [rcvd EXCEPT ![c] = Append(rcvd[c], Head(chan[c]))]
      BY <2>1 DEF WriteOne
    <3>a. chan \in [Conns -> Seq(Item)] /\ rcvd \in [Conns -> Seq(Item)] /\ << >> \in Seq(Item)
      BY EmptyItems
    <3>3. chan' \in [Conns -> Seq(Item)]
      <4> HIDE DEF RelayInv, TypeOK
      <4>1. \A q \in Seq(Item) : [chan EXCEPT ![c] = q] \in [Conns -> Seq(Item)]
        BY <3>a
      <4> QED
        BY <3>1, <3>4, <3>a, <4>1
    <3>5. rcvd' \in [Conns -> Seq(Item)]
      <4> HIDE DEF RelayInv, TypeOK
      <4>1. \A q \in Seq(Item) : [rcvd EXCEPT ![c] = q] \in [Conns -> Seq(Item)]
        BY <3>a
      <4>2. CASE rcvd' = rcvd
        BY <3>a, <4>2
      <4> DEFINE q == Append(rcvd[c], Head(chan[c]))
      <4>3. q \in Seq(Item) /\ (rcvd' = rcvd \/ rcvd' = [rcvd EXCEPT ![c] = q])
        BY <3>2, <3>4
      <4> HIDE DEF q
      <4> QED
        BY <4>1, <4>2, <4>3
    <3>b. /\ sock' = sock \/ \E s \in {"up", "down", "silent"} : sock' = [sock EXCEPT ![c] = s]
          /\ writer' = writer \/ writer' = [writer EXCEPT ![c] = "end"]
      <4> DEFINE s == IF Head(chan[c]).kind = "close" THEN "down" ELSE "up"
      <4>1. s \in {"up", "down", "silent"}
        OBVIOUS
      <4>2. sock' = sock \/ sock' = [sock EXCEPT ![c] = s]
        BY <2>1 DEF WriteOne
      <4> HIDE DEF s
      <4>3. writer' = writer \/ writer' = [writer EXCEPT ![c] = "end"]
        BY <2>1 DEF WriteOne
      <4> QED
        BY <4>1, <4>2, <4>3
    <3>c. sock \in [Conns -> {"up", "down", "silent"}] /\ writer \in [Conns -> TaskStates]
      OBVIOUS
    <3>6. sock' \in [Conns -> {"up", "down", "silent"}] /\ writer' \in [Conns -> TaskStates]
      <4>1. sock' \in [Conns -> {"up", "down", "silent"}]
        BY <3>b, <3>c
      <4>2. writer' \in [Conns -> TaskStates]
        BY <3>b, <3>c
      <4> QED
        BY <4>1, <4>2
    <3>7. UNCHANGED <<registry, store, nextId, closeAlls, pc, reader, drained, stage, target, cur>>
      BY <2>1 DEF WriteOne
    <3> QED
      BY <3>3, <3>5, <3>6, <3>7
  <2>2. CASE ChannelClosed(c)
    BY <2>2 DEF ChannelClosed
  <2>3. CASE WriterAborted(c)
    BY <2>3, EmptyItems DEF WriterAborted
  <2> QED
    BY <1>2, <2>1, <2>2, <2>3 DEF WriterTask
<1>3. ASSUME NEW c \in Conns, NEW k \in ClientKinds, NEW f \in Peers, NEW p \in Peers,
             ReadFrame(c, k, f, p)
      PROVE  TypeOK'
  <2> DEFINE m == [kind |-> k, id |-> nextId, src |-> c, from |-> f, to |-> p]
  <2>1. m \in Item
    BY NewFrame
  <2>2. CASE k = "large"
    <3>1. f = PeerOf[c]
      BY <1>3, <2>2 DEF ReadFrame
    <3>2. Notice("error", m) \in Item /\ Notice("error", m).to = PeerOf[c]
      BY <2>1, <3>1, NoticeItem
    <3>3. SendToPeer(PeerOf[c], Notice("error", m))
      BY <1>3, <2>2 DEF ReadFrame
    <3>4. chan' \in [Conns -> Seq(Item)]
      BY <3>2, <3>3, SendToPeerEffect
    <3> QED
      BY <1>3, <2>2, <3>4 DEF ReadFrame
  <2>3. CASE k # "large"
    <3>1. /\ cur' = [cur EXCEPT ![c] = m] /\ target' = [target EXCEPT ![c] = registry[p]]
          /\ stage' \in {[stage EXCEPT ![c] = "store"], [stage EXCEPT ![c] = "forward"]}
          /\ chan' = chan
      BY <1>3, <2>3 DEF ReadFrame
    <3> HIDE DEF m
    <3>2. cur' \in [Conns -> Item \cup {NoItem}]
      BY <2>1, <3>1
    <3>3. target' \in [Conns -> Conns \cup {NoConn}]
      BY <3>1
    <3>4. stage' \in [Conns -> Stages]
      BY <3>1
    <3>5. nextId' \in Nat /\ UNCHANGED <<registry, store, closeAlls, sock, pc, writer,
                                         reader, drained, rcvd>>
      BY <1>3 DEF ReadFrame
    <3> QED
      BY <3>1, <3>2, <3>3, <3>4, <3>5
  <2> QED
    BY <2>2, <2>3
<1>4. ASSUME NEW c \in Conns, Routing(c) PROVE TypeOK'
  <2>0. stage[c] # "idle"
    BY <1>4 DEF Routing, Forward, UnregisterAddressee, Requeue, StoreForAbsent, NotifyQueued
  <2>1. cur[c] \in Item /\ cur[c].to \in Peers /\ cur[c].from \in Peers
    BY <2>0, RoutedFrame
  <2>2. CASE Forward(c)
    <3>1. target[c] \in Conns
      BY <2>2, TargetOfRouter DEF Forward
    <3>2. chan' \in [Conns -> Seq(Item)]
      <4>1. [chan EXCEPT ![target[c]] = Append(@, cur[c])] \in [Conns -> Seq(Item)]
        BY <2>1, <3>1, ChanAppend
      <4>2. \/ chan' = [chan EXCEPT ![target[c]] = Append(@, cur[c])]
            \/ chan' = chan
        BY <2>2 DEF Forward
      <4> QED
        BY <4>1, <4>2
    <3>3. RouteDone(c) \/ RouteTo(c, "unregister")
      BY <2>2 DEF Forward
    <3>5. stage' \in [Conns -> Stages] /\ cur' \in [Conns -> Item \cup {NoItem}]
          /\ target' \in [Conns -> Conns \cup {NoConn}]
      BY <3>3, RouterTypes
    <3>4. UNCHANGED <<registry, store, nextId, closeAlls, sock, pc, writer, reader, drained, rcvd>>
      BY <2>2 DEF Forward
    <3> QED
      BY <3>2, <3>4, <3>5
  <2>3. CASE UnregisterAddressee(c)
    BY <2>3 DEF UnregisterAddressee
  <2>4. [store EXCEPT ![cur[c].to] = Enqueue(@, cur[c])] \in [Peers -> Seq(Item)]
    BY <2>1, StoreEnqueue
  <2>5. CASE Requeue(c) \/ StoreForAbsent(c)
    <3>1. store' = [store EXCEPT ![cur[c].to] = Enqueue(@, cur[c])]
      BY <2>5 DEF Requeue, StoreForAbsent
    <3>2. RouteDone(c) \/ RouteTo(c, "notify")
      BY <2>5 DEF Requeue, StoreForAbsent
    <3>3. stage' \in [Conns -> Stages] /\ cur' \in [Conns -> Item \cup {NoItem}]
          /\ target' \in [Conns -> Conns \cup {NoConn}]
      BY <3>2, RouterTypes
    <3>4. UNCHANGED <<registry, nextId, closeAlls, sock, pc, writer, reader, chan, drained, rcvd>>
      BY <2>5 DEF Requeue, StoreForAbsent
    <3> QED
      BY <2>4, <3>1, <3>3, <3>4
  <2>7. CASE NotifyQueued(c)
    <3>1. Notice("queued", cur[c]) \in Item /\ Notice("queued", cur[c]).to = cur[c].from
      BY <2>1, NoticeItem
    <3>2. chan' \in [Conns -> Seq(Item)]
      BY <2>1, <2>7, <3>1, SendToPeerEffect DEF NotifyQueued
    <3> QED
      BY <2>7, <3>2 DEF NotifyQueued
  <2> QED
    BY <1>4, <2>2, <2>3, <2>5, <2>7 DEF Routing
<1>5. ASSUME NEW c \in Conns, ReaderEnds(c) \/ ReaderAborted(c) \/ ClientGone(c) \/ SocketGivesUp(c)
      PROVE  TypeOK'
  <2>1. CASE ReaderEnds(c)
    BY <2>1 DEF ReaderEnds
  <2>2. CASE ReaderAborted(c)
    BY <2>2 DEF ReaderAborted
  <2>3. CASE ClientGone(c) \/ SocketGivesUp(c)
    <3>1. sock' \in [Conns -> {"up", "down", "silent"}]
      <4>1. sock' = [sock EXCEPT ![c] = "down"] \/ sock' = [sock EXCEPT ![c] = "silent"]
        BY <2>3 DEF ClientGone, SocketGivesUp
      <4>2. sock \in [Conns -> {"up", "down", "silent"}]
        BY DEF TypeOK
      <4> QED
        BY <4>1, <4>2
    <3>2. UNCHANGED <<registry, store, nextId, closeAlls, pc, writer, reader, chan,
                      drained, routeVars, rcvd>>
      BY <2>3 DEF ClientGone, SocketGivesUp
    <3> QED
      BY <3>1, <3>2 DEF TypeOK, routeVars
  <2> QED
    BY <1>5, <2>1, <2>2, <2>3
<1>6. CASE CloseAll
  <2> DEFINE close(c) == [kind |-> "close", id |-> 0, src |-> c,
                          from |-> PeerOf[c], to |-> PeerOf[c]]
  <2>1. \A c \in Conns : close(c) \in Item
    BY DEF Item
  <2>2. \A c \in Conns : Append(chan[c], close(c)) \in Seq(Item)
    BY <2>1, AppendItems
  <2>3. chan' \in [Conns -> Seq(Item)]
    BY <1>6, <2>2 DEF CloseAll
  <2> QED
    BY <1>6, <2>3 DEF CloseAll
<1>7. CASE UNCHANGED vars
  BY <1>7 DEF vars
<1> QED
  BY <1>1, <1>2, <1>3, <1>4, <1>5, <1>6, <1>7 DEF Next, ReaderTask

-----------------------------------------------------------------------------
(* RouterShape is preserved: only the reader's own steps touch its routing *)

LEMMA RouterShapeStep == RelayInv /\ [Next]_vars => RouterShape'
<1> SUFFICES ASSUME RelayInv, [Next]_vars PROVE RouterShape'
  OBVIOUS
<1> USE DEF RelayInv, RouterShape
<1>0. /\ stage \in [Conns -> Stages] /\ target \in [Conns -> Conns \cup {NoConn}]
      /\ cur \in [Conns -> Item \cup {NoItem}] /\ registry \in [Peers -> Conns \cup {NoConn}]
  BY DEF TypeOK
<1>1. CASE UNCHANGED routeVars
  BY <1>1 DEF routeVars
<1>2. ASSUME NEW c \in Conns, Handler(c) \/ WriterTask(c) \/ ReaderEnds(c) \/ ClientGone(c) \/ SocketGivesUp(c)
      PROVE  UNCHANGED routeVars
  BY <1>2 DEF Handler, WriterTask, RegisterRefused, Register, SendRegistered, Drain,
     DeliverQueued, SpawnTasks, TaskEnded, Cleanup, WriteOne, ChannelClosed,
     WriterAborted, ReaderEnds, ClientGone, SocketGivesUp
<1>3. ASSUME CloseAll \/ UNCHANGED vars PROVE UNCHANGED routeVars
  BY <1>3 DEF CloseAll, vars
<1>4. ASSUME NEW c \in Conns, NEW k \in ClientKinds, NEW f \in Peers, NEW p \in Peers,
             ReadFrame(c, k, f, p)
      PROVE  RouterShape'
  <2> DEFINE m == [kind |-> k, id |-> nextId, src |-> c, from |-> f, to |-> p]
  <2>1. m # NoItem
    BY NewFrame, NoItemAssumption
  <2>2. CASE k = "large"
    BY <1>1, <1>4, <2>2 DEF ReadFrame
  <2>3. CASE k # "large"
    <3>1. /\ cur' = [cur EXCEPT ![c] = m] /\ target' = [target EXCEPT ![c] = registry[p]]
          /\ stage' = [stage EXCEPT ![c] =
                         IF registry[p] = NoConn THEN "store" ELSE "forward"]
      BY <1>4, <2>3 DEF ReadFrame
    <3> HIDE DEF m
    <3> QED
      BY <1>0, <2>1, <3>1
  <2> QED
    BY <2>2, <2>3
<1>5. ASSUME NEW c \in Conns, RouteDone(c) PROVE RouterShape'
  BY <1>0, <1>5 DEF RouteDone
<1>6. ASSUME NEW c \in Conns, stage[c] # "idle",
             NEW s \in {"unregister", "requeue", "notify"}, RouteTo(c, s)
      PROVE  RouterShape'
  BY <1>0, <1>6 DEF RouteTo
<1>7. ASSUME NEW c \in Conns, Routing(c) PROVE RouterShape'
  <2>1. CASE Forward(c)
    BY <1>5, <1>6, <2>1 DEF Forward
  <2>2. CASE UnregisterAddressee(c)
    BY <1>6, <2>2 DEF UnregisterAddressee
  <2>3. CASE Requeue(c) \/ NotifyQueued(c)
    BY <1>5, <2>3 DEF Requeue, NotifyQueued
  <2>4. CASE StoreForAbsent(c)
    BY <1>5, <1>6, <2>4 DEF StoreForAbsent
  <2> QED
    BY <1>7, <2>1, <2>2, <2>3, <2>4 DEF Routing
<1>8. ASSUME NEW c \in Conns, ReaderAborted(c) PROVE RouterShape'
  BY <1>5, <1>8 DEF ReaderAborted
<1> QED
  BY <1>1, <1>2, <1>3, <1>4, <1>7, <1>8 DEF Next, ReaderTask

-----------------------------------------------------------------------------
(* NoDanglingEntry is preserved *)

LEMMA NoDanglingStep == RelayInv /\ [Next]_vars => NoDanglingEntry'
<1> SUFFICES ASSUME RelayInv, [Next]_vars PROVE NoDanglingEntry'
  OBVIOUS
<1>0. /\ registry \in [Peers -> Conns \cup {NoConn}] /\ pc \in [Conns -> Pcs]
      /\ NoDanglingEntry /\ PeerOf \in [Conns -> Peers]
  BY RelayAssumption DEF RelayInv, TypeOK
<1>1. ASSUME UNCHANGED <<registry, pc>> PROVE NoDanglingEntry'
  BY <1>0, <1>1 DEF NoDanglingEntry
<1>2. ASSUME NEW c \in Conns, Handler(c) PROVE NoDanglingEntry'
  <2>1. CASE RegisterRefused(c)
    BY <1>0, <2>1 DEF RegisterRefused, NoDanglingEntry
  <2>2. CASE Register(c)
    <3>1. registry' = [registry EXCEPT ![PeerOf[c]] = c] /\ pc' = [pc EXCEPT ![c] = "ack"]
      BY <2>2 DEF Register
    <3>2. ASSUME NEW p \in Peers, registry'[p] # NoConn
          PROVE  /\ PeerOf[registry'[p]] = p
                 /\ pc'[registry'[p]] \in {"ack", "drain", "deliver", "select", "cleanup"}
      <4>1. CASE p = PeerOf[c]
        BY <1>0, <3>1, <4>1
      <4>2. CASE p # PeerOf[c]
        BY <1>0, <3>1, <3>2, <4>2 DEF NoDanglingEntry
      <4> QED
        BY <4>1, <4>2
    <3> QED
      BY <3>2 DEF NoDanglingEntry
  <2>3. ASSUME NEW s \in {"drain", "deliver", "select", "cleanup"},
               registry' = registry, pc' = [pc EXCEPT ![c] = s]
        PROVE  NoDanglingEntry'
    BY <1>0, <2>3 DEF NoDanglingEntry
  <2>4. CASE SendRegistered(c)
    BY <2>3, <2>4 DEF SendRegistered
  <2>5. CASE Drain(c) \/ SpawnTasks(c) \/ TaskEnded(c)
    BY <2>3, <2>5 DEF Drain, SpawnTasks, TaskEnded
  <2>6. CASE DeliverQueued(c)
    BY <1>1, <2>6 DEF DeliverQueued, connVars
  <2>7. CASE Cleanup(c)
    BY <1>0, <2>7 DEF Cleanup, NoDanglingEntry
  <2> QED
    BY <1>2, <2>1, <2>2, <2>4, <2>5, <2>6, <2>7 DEF Handler
<1>3. ASSUME NEW c \in Conns, WriterTask(c) \/ ReaderEnds(c) \/ ReaderAborted(c) \/ ClientGone(c) \/ SocketGivesUp(c)
      PROVE  UNCHANGED <<registry, pc>>
  BY <1>3 DEF WriterTask, WriteOne, ChannelClosed, WriterAborted, ReaderEnds,
     ReaderAborted, ClientGone, SocketGivesUp
<1>4. ASSUME NEW c \in Conns, NEW k \in ClientKinds, NEW f \in Peers, NEW p \in Peers,
             ReadFrame(c, k, f, p)
      PROVE  UNCHANGED <<registry, pc>>
  BY <1>4 DEF ReadFrame, connVars
<1>5. ASSUME NEW c \in Conns, Routing(c) PROVE NoDanglingEntry'
  <2>1. CASE UnregisterAddressee(c)
    BY <1>0, <2>1 DEF UnregisterAddressee, NoDanglingEntry, connVars
  <2>2. CASE Forward(c) \/ Requeue(c) \/ StoreForAbsent(c) \/ NotifyQueued(c)
    BY <1>1, <2>2 DEF Forward, Requeue, StoreForAbsent, NotifyQueued, connVars
  <2> QED
    BY <1>5, <2>1, <2>2 DEF Routing
<1>6. ASSUME CloseAll \/ UNCHANGED vars PROVE UNCHANGED <<registry, pc>>
  BY <1>6 DEF CloseAll, vars, connVars
<1> QED
  BY <1>1, <1>2, <1>3, <1>4, <1>5, <1>6 DEF Next, ReaderTask

-----------------------------------------------------------------------------
(* HeldForAddressee is preserved *)

StoreForAddressee == \A p \in Peers : \A m \in ItemsOf(store[p]) : m.to = p
ChannelsForAddressee ==
  \A c \in Conns : \A m \in ItemsOf(chan[c]) \cup ItemsOf(drained[c]) : m.to = PeerOf[c]
RouterForAddressee ==
  \A c \in Conns : target[c] # NoConn => PeerOf[target[c]] = cur[c].to

LEMMA HeldParts ==
  HeldForAddressee <=> StoreForAddressee /\ ChannelsForAddressee /\ RouterForAddressee
  BY DEF HeldForAddressee, StoreForAddressee, ChannelsForAddressee, RouterForAddressee

\* A step that only takes items out of the store, and one that files the
\* routed frame, keep every stored item with its addressee.
LEMMA StoreForAddresseeStep == RelayInv /\ [Next]_vars => StoreForAddressee'
<1> SUFFICES ASSUME RelayInv, [Next]_vars PROVE StoreForAddressee'
  OBVIOUS
<1>0. StoreForAddressee /\ TypeOK /\ PeerOf \in [Conns -> Peers]
  BY HeldParts, RelayAssumption DEF RelayInv
<1>1. ASSUME UNCHANGED store PROVE StoreForAddressee'
  BY <1>0, <1>1 DEF StoreForAddressee
<1>2. ASSUME NEW c \in Conns, Drain(c) PROVE StoreForAddressee'
  <2>1. store' = [store EXCEPT ![PeerOf[c]] = << >>] /\ store \in [Peers -> Seq(Item)]
    BY <1>0, <1>2 DEF Drain, TypeOK
  <2>2. \A p \in Peers : ItemsOf(store'[p]) \subseteq ItemsOf(store[p])
    BY <2>1, EmptyItems
  <2> QED
    BY <1>0, <2>2 DEF StoreForAddressee
<1>3. ASSUME NEW c \in Conns, Requeue(c) \/ StoreForAbsent(c) PROVE StoreForAddressee'
  <2>1. cur[c] \in Item /\ cur[c].to \in Peers
    BY <1>3, RoutedFrame DEF Requeue, StoreForAbsent
  <2>2. store' = [store EXCEPT ![cur[c].to] = Enqueue(@, cur[c])]
    BY <1>3 DEF Requeue, StoreForAbsent
  <2>3. \A q \in Peers : ItemsOf(store'[q])
          \subseteq ItemsOf(store[q]) \cup (IF q = cur[c].to THEN {cur[c]} ELSE {})
    <3> DEFINE x == cur[c]  p == x.to
    <3>0. p \in Peers /\ x \in Item
      BY <2>1
    <3>2. store' = [store EXCEPT ![p] = Enqueue(@, x)]
      BY <2>2
    <3> HIDE DEF x, p
    <3>1. \A q \in Peers : ItemsOf([store EXCEPT ![p] = Enqueue(@, x)][q])
            \subseteq ItemsOf(store[q]) \cup (IF q = p THEN {x} ELSE {})
      BY <1>0, <3>0, StoreEnqueue
    <3>3. \A q \in Peers : ItemsOf(store'[q])
            \subseteq ItemsOf(store[q]) \cup (IF q = p THEN {x} ELSE {})
      BY <3>1, <3>2
    <3> QED
      BY <3>3 DEF x, p
  <2> QED
    BY <1>0, <2>3 DEF StoreForAddressee
<1>4. ASSUME NEW c \in Conns, Handler(c) \/ WriterTask(c), ~Drain(c) PROVE UNCHANGED store
  BY <1>4 DEF Handler, WriterTask, RegisterRefused, Register, SendRegistered,
     DeliverQueued, SpawnTasks, TaskEnded, Cleanup, WriteOne, ChannelClosed, WriterAborted
<1>5. ASSUME NEW c \in Conns, ReaderTask(c) \/ ClientGone(c) \/ SocketGivesUp(c), ~Requeue(c), ~StoreForAbsent(c)
      PROVE  UNCHANGED store
  BY <1>5 DEF ReaderTask, Routing, ReadFrame, Forward, UnregisterAddressee, NotifyQueued,
     ReaderEnds, ReaderAborted, ClientGone, SocketGivesUp
<1>6. ASSUME CloseAll \/ UNCHANGED vars PROVE UNCHANGED store
  BY <1>6 DEF CloseAll, vars
<1> QED
  BY <1>1, <1>2, <1>3, <1>4, <1>5, <1>6 DEF Next

\* Channels receive the routed frame through the cloned sender, notices through
\* the registry, Close frames for their own peer; drain moves a peer's queue to
\* a connection of that peer.
LEMMA ChannelsForAddresseeStep == RelayInv /\ [Next]_vars => ChannelsForAddressee'
<1> SUFFICES ASSUME RelayInv, [Next]_vars PROVE ChannelsForAddressee'
  OBVIOUS
<1>0. /\ ChannelsForAddressee /\ StoreForAddressee /\ TypeOK /\ PeerOf \in [Conns -> Peers]
      /\ chan \in [Conns -> Seq(Item)] /\ drained \in [Conns -> Seq(Item)]
  BY HeldParts, RelayAssumption DEF RelayInv, TypeOK
<1>1. ASSUME UNCHANGED drained,
             \A c \in Conns : \A x \in ItemsOf(chan'[c]) :
               x \in ItemsOf(chan[c]) \/ x.to = PeerOf[c]
      PROVE  ChannelsForAddressee'
  BY <1>0, <1>1 DEF ChannelsForAddressee
<1>2. ASSUME UNCHANGED <<chan, drained>> PROVE ChannelsForAddressee'
  BY <1>1, <1>2
<1>3. ASSUME NEW c \in Conns, Drain(c) PROVE ChannelsForAddressee'
  <2>1. drained' = [drained EXCEPT ![c] = store[PeerOf[c]]] /\ chan' = chan
    BY <1>3 DEF Drain
  <2>2. \A m \in ItemsOf(store[PeerOf[c]]) : m.to = PeerOf[c]
    BY <1>0 DEF StoreForAddressee
  <2>3. \A d \in Conns : d # c => drained'[d] = drained[d]
    BY <1>0, <2>1
  <2>4. drained'[c] = store[PeerOf[c]]
    BY <1>0, <2>1
  <2> QED
    BY <1>0, <2>1, <2>2, <2>3, <2>4 DEF ChannelsForAddressee
<1>4. ASSUME NEW c \in Conns, DeliverQueued(c) PROVE ChannelsForAddressee'
  <2>1. /\ chan' = chan
        /\ drained' \in {[drained EXCEPT ![c] = Tail(@)], [drained EXCEPT ![c] = << >>]}
    BY <1>4 DEF DeliverQueued
  <2>2. /\ ItemsOf(Tail(drained[c])) \subseteq ItemsOf(drained[c])
        /\ ItemsOf(<< >>) = {}
    BY <1>0, <1>4, TailItems, EmptyItems DEF DeliverQueued
  <2>3. \A d \in Conns : ItemsOf(drained'[d]) \subseteq ItemsOf(drained[d])
    BY <1>0, <2>1, <2>2
  <2> QED
    BY <1>0, <2>1, <2>3 DEF ChannelsForAddressee
<1>5. ASSUME NEW c \in Conns, UNCHANGED drained, chan[c] # << >>,
             \/ chan' = [chan EXCEPT ![c] = Tail(@)] \/ chan' = [chan EXCEPT ![c] = << >>]
      PROVE  ChannelsForAddressee'
  <2>1. /\ ItemsOf(Tail(chan[c])) \subseteq ItemsOf(chan[c])
        /\ ItemsOf(<< >>) = {}
    BY <1>0, <1>5, TailItems, EmptyItems
  <2>2. \A d \in Conns : ItemsOf(chan'[d]) \subseteq ItemsOf(chan[d])
    BY <1>0, <1>5, <2>1
  <2> QED
    BY <1>1, <1>5, <2>2
<1>6. ASSUME NEW c \in Conns, UNCHANGED drained, chan' = [chan EXCEPT ![c] = << >>]
      PROVE  ChannelsForAddressee'
  <2>1. \A d \in Conns : ItemsOf(chan'[d]) \subseteq ItemsOf(chan[d])
    BY <1>0, <1>6, EmptyItems
  <2> QED
    BY <1>1, <1>6, <2>1
<1>7. ASSUME NEW c \in Conns, Handler(c), ~Drain(c), ~DeliverQueued(c)
      PROVE  ChannelsForAddressee'
  <2>1. CASE Cleanup(c)
    BY <1>2, <1>6, <2>1 DEF Cleanup
  <2>2. CASE RegisterRefused(c) \/ Register(c) \/ SendRegistered(c) \/ SpawnTasks(c)
              \/ TaskEnded(c)
    BY <1>2, <2>2 DEF RegisterRefused, Register, SendRegistered, SpawnTasks, TaskEnded
  <2> QED
    BY <1>7, <2>1, <2>2 DEF Handler
<1>8. ASSUME NEW c \in Conns, WriterTask(c) PROVE ChannelsForAddressee'
  <2>1. CASE WriteOne(c)
    BY <1>5, <2>1 DEF WriteOne
  <2>2. CASE ChannelClosed(c)
    BY <1>2, <2>2 DEF ChannelClosed
  <2>3. CASE WriterAborted(c)
    BY <1>6, <2>3 DEF WriterAborted
  <2> QED
    BY <1>8, <2>1, <2>2, <2>3 DEF WriterTask
<1>9. ASSUME NEW p \in Peers, NEW m \in Item, m.to = p, SendToPeer(p, m), UNCHANGED drained
      PROVE  ChannelsForAddressee'
  BY <1>1, <1>9, SendToPeerEffect
<1>10. ASSUME NEW c \in Conns, NEW k \in ClientKinds, NEW f \in Peers, NEW p \in Peers,
              ReadFrame(c, k, f, p)
       PROVE  ChannelsForAddressee'
  <2> DEFINE m == [kind |-> k, id |-> nextId, src |-> c, from |-> f, to |-> p]
  <2>1. m \in Item
    BY <1>0, NewFrame
  <2>2. CASE k = "large"
    <3>1. f = PeerOf[c] /\ SendToPeer(PeerOf[c], Notice("error", m)) /\ UNCHANGED drained
      BY <1>10, <2>2, RelayAssumption DEF ReadFrame, FrameKinds
    <3>2. m.from = f
      OBVIOUS
    <3> HIDE DEF m
    <3>3. Notice("error", m) \in Item /\ Notice("error", m).to = PeerOf[c]
      BY <2>1, <3>1, <3>2, NoticeItem
    <3>4. PeerOf[c] \in Peers
      BY <1>0
    <3> QED
      BY <1>9, <3>1, <3>3, <3>4
  <2>3. CASE k # "large"
    BY <1>2, <1>10, <2>3 DEF ReadFrame
  <2> QED
    BY <2>2, <2>3
<1>11. ASSUME NEW c \in Conns, Forward(c) PROVE ChannelsForAddressee'
  <2>1. cur[c] \in Item /\ target[c] \in Conns /\ PeerOf[target[c]] = cur[c].to
    BY <1>11, RoutedFrame, TargetOfRouter DEF Forward
  <2>2. UNCHANGED drained /\ (chan' = chan \/ chan' = [chan EXCEPT ![target[c]] = Append(@, cur[c])])
    BY <1>11 DEF Forward
  <2>3. \A e \in Conns : ItemsOf(chan'[e])
          \subseteq ItemsOf(chan[e]) \cup (IF e = target[c] THEN {cur[c]} ELSE {})
    <3>1. CASE chan' = chan
      BY <3>1
    <3>2. CASE chan' = [chan EXCEPT ![target[c]] = Append(@, cur[c])]
      <4>1. \A e \in Conns :
              ItemsOf([chan EXCEPT ![target[c]] = Append(@, cur[c])][e])
                \subseteq ItemsOf(chan[e]) \cup (IF e = target[c] THEN {cur[c]} ELSE {})
        BY <1>0, <2>1, ChanAppend
      <4> QED
        BY <3>2, <4>1
    <3> QED
      BY <2>2, <3>1, <3>2
  <2> QED
    BY <1>1, <2>1, <2>2, <2>3
<1>12. ASSUME NEW c \in Conns, NotifyQueued(c) PROVE ChannelsForAddressee'
  <2>1. cur[c] \in Item /\ cur[c].from \in Peers
    BY <1>12, RoutedFrame DEF NotifyQueued
  <2>2. Notice("queued", cur[c]) \in Item /\ Notice("queued", cur[c]).to = cur[c].from
    BY <2>1, NoticeItem
  <2>3. SendToPeer(cur[c].from, Notice("queued", cur[c])) /\ UNCHANGED drained
    BY <1>12 DEF NotifyQueued
  <2> QED
    BY <1>9, <2>1, <2>2, <2>3
<1>13. ASSUME NEW c \in Conns,
              UnregisterAddressee(c) \/ Requeue(c) \/ StoreForAbsent(c) \/ ReaderEnds(c)
                \/ ReaderAborted(c) \/ ClientGone(c) \/ SocketGivesUp(c)
       PROVE  ChannelsForAddressee'
  BY <1>2, <1>13 DEF UnregisterAddressee, Requeue, StoreForAbsent, ReaderEnds,
     ReaderAborted, ClientGone, SocketGivesUp
<1>14. ASSUME CloseAll PROVE ChannelsForAddressee'
  <2> DEFINE close(c) == [kind |-> "close", id |-> 0, src |-> c,
                          from |-> PeerOf[c], to |-> PeerOf[c]]
  <2>1. \A c \in Conns : close(c) \in Item /\ close(c).to = PeerOf[c]
    BY <1>0 DEF Item
  <2>2. \A c \in Conns : chan'[c] = chan[c] \/ chan'[c] = Append(chan[c], close(c))
    BY <1>14 DEF CloseAll
  <2>3. UNCHANGED drained
    BY <1>14 DEF CloseAll
  <2> HIDE DEF close
  <2>4. \A c \in Conns : ItemsOf(Append(chan[c], close(c))) = ItemsOf(chan[c]) \cup {close(c)}
    BY <1>0, <2>1, AppendItems
  <2>5. ASSUME NEW c \in Conns, NEW x \in ItemsOf(chan'[c])
        PROVE  x \in ItemsOf(chan[c]) \/ x.to = PeerOf[c]
    BY <2>1, <2>2, <2>4
  <2> QED
    BY <1>1, <2>3, <2>5
<1>15. ASSUME UNCHANGED vars PROVE ChannelsForAddressee'
  BY <1>2, <1>15 DEF vars
<1> QED
  BY <1>3, <1>4, <1>7, <1>8, <1>10, <1>11, <1>12, <1>13, <1>14, <1>15
  DEF Next, ReaderTask, Routing

\* A sender is cloned from the registry under the addressee's id, and the
\* connection's peer id never changes.
LEMMA RouterForAddresseeStep == RelayInv /\ [Next]_vars => RouterForAddressee'
<1> SUFFICES ASSUME RelayInv, [Next]_vars PROVE RouterForAddressee'
  OBVIOUS
<1>0. /\ RouterForAddressee /\ target \in [Conns -> Conns \cup {NoConn}]
      /\ cur \in [Conns -> Item \cup {NoItem}] /\ registry \in [Peers -> Conns \cup {NoConn}]
      /\ NoDanglingEntry
  BY HeldParts DEF RelayInv, TypeOK
<1>1. ASSUME UNCHANGED routeVars PROVE RouterForAddressee'
  BY <1>0, <1>1 DEF RouterForAddressee, routeVars
<1>2. ASSUME NEW c \in Conns, Handler(c) \/ WriterTask(c) \/ ReaderEnds(c) \/ ClientGone(c) \/ SocketGivesUp(c)
      PROVE  UNCHANGED routeVars
  BY <1>2 DEF Handler, WriterTask, RegisterRefused, Register, SendRegistered, Drain,
     DeliverQueued, SpawnTasks, TaskEnded, Cleanup, WriteOne, ChannelClosed,
     WriterAborted, ReaderEnds, ClientGone, SocketGivesUp
<1>3. ASSUME CloseAll \/ UNCHANGED vars PROVE UNCHANGED routeVars
  BY <1>3 DEF CloseAll, vars
<1>4. ASSUME NEW c \in Conns, NEW k \in ClientKinds, NEW f \in Peers, NEW p \in Peers,
             ReadFrame(c, k, f, p)
      PROVE  RouterForAddressee'
  <2> DEFINE m == [kind |-> k, id |-> nextId, src |-> c, from |-> f, to |-> p]
  <2>1. m.to = p
    OBVIOUS
  <2>2. CASE k = "large"
    BY <1>1, <1>4, <2>2 DEF ReadFrame
  <2>3. CASE k # "large"
    <3>1. cur' = [cur EXCEPT ![c] = m] /\ target' = [target EXCEPT ![c] = registry[p]]
      BY <1>4, <2>3 DEF ReadFrame
    <3> HIDE DEF m
    <3>2. registry[p] # NoConn => PeerOf[registry[p]] = p
      BY <1>0 DEF NoDanglingEntry
    <3> QED
      BY <1>0, <2>1, <3>1, <3>2 DEF RouterForAddressee
  <2> QED
    BY <2>2, <2>3
<1>5. ASSUME NEW c \in Conns, target' = [target EXCEPT ![c] = NoConn],
             \A d \in Conns : d # c => cur'[d] = cur[d]
      PROVE  RouterForAddressee'
  BY <1>0, <1>5 DEF RouterForAddressee
<1>6. ASSUME NEW c \in Conns, RouteDone(c) \/ \E s \in Stages : RouteTo(c, s)
      PROVE  RouterForAddressee'
  BY <1>0, <1>5, <1>6 DEF RouteDone, RouteTo
<1>7. ASSUME NEW c \in Conns, Routing(c) \/ ReaderAborted(c)
      PROVE  RouterForAddressee'
  BY <1>6, <1>7 DEF Routing, ReaderAborted, Forward, UnregisterAddressee, Requeue,
     StoreForAbsent, NotifyQueued, Stages
<1> QED
  BY <1>1, <1>2, <1>3, <1>4, <1>7 DEF Next, ReaderTask

\* Only enqueue makes a queue of the store longer.
LEMMA QueueBoundStep == RelayInv /\ [Next]_vars => QueueBound'
<1> SUFFICES ASSUME RelayInv, [Next]_vars PROVE QueueBound'
  OBVIOUS
<1>0. QueueBound /\ TypeOK /\ store \in [Peers -> Seq(Item)]
  BY DEF RelayInv, TypeOK
<1>1. ASSUME UNCHANGED store PROVE QueueBound'
  BY <1>0, <1>1 DEF QueueBound
<1>2. ASSUME NEW c \in Conns, Drain(c) PROVE QueueBound'
  <2>1. store' = [store EXCEPT ![PeerOf[c]] = << >>]
    BY <1>2 DEF Drain
  <2>2. \A p \in Peers : store'[p] = store[p] \/ store'[p] = << >>
    BY <1>0, <2>1
  <2>3. 0 <= MaxQueueSize
    BY RelayAssumption
  <2>4. ASSUME NEW q, q = << >> PROVE Len(q) = 0
    BY <2>4, EmptySeq, Zenon
  <2>5. \A p \in Peers : store'[p] = store[p] \/ Len(store'[p]) = 0
    BY <2>2, <2>4
  <2> QED
    BY <1>0, <2>3, <2>5 DEF QueueBound
<1>3. ASSUME NEW c \in Conns, Requeue(c) \/ StoreForAbsent(c) PROVE QueueBound'
  <2>1. cur[c] \in Item /\ cur[c].to \in Peers
    BY <1>3, RoutedFrame DEF Requeue, StoreForAbsent
  <2>2. store' = [store EXCEPT ![cur[c].to] = Enqueue(@, cur[c])]
    BY <1>3 DEF Requeue, StoreForAbsent
  <2>3. \A q \in Peers : Len(store[q]) <= MaxQueueSize => Len(store'[q]) <= MaxQueueSize
    BY <1>0, <2>1, <2>2, StoreEnqueue
  <2> QED
    BY <1>0, <2>3 DEF QueueBound
<1>4. ASSUME NEW c \in Conns, Handler(c) \/ WriterTask(c), ~Drain(c) PROVE UNCHANGED store
  BY <1>4 DEF Handler, WriterTask, RegisterRefused, Register, SendRegistered,
     DeliverQueued, SpawnTasks, TaskEnded, Cleanup, WriteOne, ChannelClosed, WriterAborted
<1>5. ASSUME NEW c \in Conns, ReaderTask(c) \/ ClientGone(c) \/ SocketGivesUp(c), ~Requeue(c), ~StoreForAbsent(c)
      PROVE  UNCHANGED store
  BY <1>5 DEF ReaderTask, Routing, ReadFrame, Forward, UnregisterAddressee, NotifyQueued,
     ReaderEnds, ReaderAborted, ClientGone, SocketGivesUp
<1>6. ASSUME CloseAll \/ UNCHANGED vars PROVE UNCHANGED store
  BY <1>6 DEF CloseAll, vars
<1> QED
  BY <1>1, <1>2, <1>3, <1>4, <1>5, <1>6 DEF Next

-----------------------------------------------------------------------------

LEMMA RelayInvStep == RelayInv /\ [Next]_vars => RelayInv'
<1> SUFFICES ASSUME RelayInv, [Next]_vars PROVE RelayInv'
  OBVIOUS
<1>1. HeldForAddressee'
  BY StoreForAddresseeStep, ChannelsForAddresseeStep, RouterForAddresseeStep
  DEF HeldForAddressee, StoreForAddressee, ChannelsForAddressee, RouterForAddressee
<1> QED
  BY <1>1, TypeOKStep, RouterShapeStep, NoDanglingStep, QueueBoundStep DEF RelayInv

LEMMA RelayInvariant == Spec => []RelayInv
  BY RelayInvInit, RelayInvStep, PTL DEF Spec

-----------------------------------------------------------------------------
(* Each frame is in one place. The queues of the store, the channels and    *)
(* the drained queues are lines; a frame enters a line from the router that *)
(* read it, moves from the store to a drained queue, and leaves for good.   *)

Places == ({"store"} \X Peers) \cup ({"chan", "drained"} \X Conns)

Lines(s, ch, dr) ==
  [x \in Places |-> IF x[1] = "store" THEN s[x[2]]
                    ELSE IF x[1] = "chan" THEN ch[x[2]] ELSE dr[x[2]]]
Line == Lines(store, chan, drained)

BusyIn(s) == {c \in Conns : s[c] \notin {"idle", "notify"}}

\* What may stand before what in a line: frames are never duplicated, and
\* those of one source keep the order they were read in.
Before(m, n) ==
  {m.kind, n.kind} \subseteq FrameKinds =>
    m.id # n.id /\ (m.src = n.src => m.id < n.id)

Ordered(q) == \A i, j \in 1..Len(q) : i < j => Before(q[i], q[j])

\* L: the lines; B: the routers that hold a frame; u: the frames they hold;
\* n: the number of the next frame.
LineShape(L, n) ==
  \A x \in Places :
    /\ Ordered(L[x])
    /\ \A m \in ItemsOf(L[x]) : /\ m.kind \in FrameKinds => m.id < n
                                /\ x[1] # "chan" => m.kind \in FrameKinds

ApartShape(L) ==
  \A x, y \in Places : x # y =>
    \A a \in Routed(ItemsOf(L[x])), b \in Routed(ItemsOf(L[y])) : a.id # b.id

RouterHolds(L, B, u, n) ==
  \A c \in B :
    /\ u[c].kind \in FrameKinds /\ u[c].src = c /\ u[c].id < n
    /\ \A x \in Places : \A m \in ItemsOf(L[x]) : Before(m, u[c])
    /\ \A d \in B : d # c => u[d].id # u[c].id

FrameShape(L, B, u, n) == LineShape(L, n) /\ ApartShape(L) /\ RouterHolds(L, B, u, n)

FrameInv == FrameShape(Line, BusyIn(stage), cur, nextId)

HeldIn(L, B, u) == Routed({u[c] : c \in B} \cup (UNION {ItemsOf(L[x]) : x \in Places}))

\* What can happen to a line.
Loses(q, r) == ItemsOf(r) \subseteq ItemsOf(q) /\ (Ordered(q) => Ordered(r))
Gains(q, r, m) ==
  /\ ItemsOf(r) \subseteq ItemsOf(q) \cup {m}
  /\ Ordered(q) /\ (\A a \in ItemsOf(q) : Before(a, m)) => Ordered(r)
Notes(q, r) == \E e : /\ e.kind \notin FrameKinds /\ Gains(q, r, e)
                      /\ ItemsOf(r) = ItemsOf(q) \cup {e}

LEMMA LoseNothing == ASSUME NEW q PROVE Loses(q, q)
  BY DEF Loses

LEMMA LoseAll == ASSUME NEW q PROVE Loses(q, << >>)
  BY EmptyItems DEF Loses, Ordered

LEMMA TailLine ==
  ASSUME NEW q \in Seq(Item), q # << >>
  PROVE  /\ Loses(q, Tail(q)) /\ Head(q) \in Item
         /\ ItemsOf(q) = {Head(q)} \cup ItemsOf(Tail(q))
         /\ Ordered(q) => \A a \in ItemsOf(Tail(q)) : Before(Head(q), a)
<1> DEFINE r == Tail(q)
<1>1. /\ r \in Seq(Item) /\ Head(q) \in Item /\ Head(q) = q[1]
      /\ Len(r) = Len(q) - 1 /\ Len(q) \in Nat /\ Len(q) # 0
      /\ \A i \in 1..Len(r) : r[i] = q[i + 1]
  BY HeadTailProperties, LenProperties, EmptySeq
<1> HIDE DEF r
<1>2. /\ \A i \in 1..Len(q) : i = 1 \/ (i - 1 \in 1..Len(r) /\ q[i] = r[i - 1])
      /\ 1 \in 1..Len(q) /\ \A i \in 1..Len(r) : i + 1 \in 1..Len(q)
  BY <1>1
<1>3. ItemsOf(q) = {q[1]} \cup ItemsOf(r)
  BY <1>1, <1>2 DEF ItemsOf
<1>4. ASSUME Ordered(q) PROVE Ordered(r)
  <2>1. ASSUME NEW i \in 1..Len(r), NEW j \in 1..Len(r), i < j PROVE Before(r[i], r[j])
    <3>1. i + 1 \in 1..Len(q) /\ j + 1 \in 1..Len(q) /\ i + 1 < j + 1
      BY <1>1, <2>1
    <3>2. Before(q[i + 1], q[j + 1])
      BY <1>4, <3>1 DEF Ordered
    <3> QED
      BY <1>1, <3>2
  <2> QED
    BY <2>1 DEF Ordered
<1>5. ASSUME Ordered(q), NEW i \in 1..Len(r) PROVE Before(q[1], r[i])
  <2>1. i + 1 \in 1..Len(q) /\ 1 \in 1..Len(q) /\ 1 < i + 1
    BY <1>1
  <2>2. Before(q[1], q[i + 1])
    BY <1>5, <2>1 DEF Ordered
  <2> QED
    BY <1>1, <2>2
<1> QED
  BY <1>1, <1>3, <1>4, <1>5 DEF Loses, ItemsOf, r

LEMMA AppendLine ==
  ASSUME NEW q \in Seq(Item), NEW m \in Item
  PROVE  /\ Append(q, m) \in Seq(Item) /\ Append(q, m) # << >>
         /\ ItemsOf(Append(q, m)) = ItemsOf(q) \cup {m} /\ Gains(q, Append(q, m), m)
<1> DEFINE r == Append(q, m)
<1>1. /\ r \in Seq(Item) /\ Len(r) = Len(q) + 1 /\ Len(q) \in Nat
      /\ r # << >> /\ r[Len(q) + 1] = m
      /\ \A i \in 1..Len(q) : r[i] = q[i]
      /\ ItemsOf(r) = ItemsOf(q) \cup {m}
  BY AppendProperties, LenProperties, AppendItems
<1> HIDE DEF r
<1>2. ASSUME Ordered(q), \A a \in ItemsOf(q) : Before(a, m) PROVE Ordered(r)
  <2>1. ASSUME NEW i \in 1..Len(r), NEW j \in 1..Len(r), i < j PROVE Before(r[i], r[j])
    <3>1. i \in 1..Len(q) /\ (j \in 1..Len(q) \/ j = Len(q) + 1)
      BY <1>1, <2>1
    <3>2. r[i] = q[i] /\ q[i] \in ItemsOf(q)
      BY <1>1, <3>1 DEF ItemsOf
    <3>3. CASE j = Len(q) + 1
      BY <1>1, <1>2, <3>2, <3>3
    <3>4. CASE j \in 1..Len(q)
      <4>1. Before(q[i], q[j]) /\ r[j] = q[j]
        BY <1>1, <1>2, <2>1, <3>1, <3>4 DEF Ordered
      <4> QED
        BY <3>2, <4>1
    <3> QED
      BY <3>1, <3>3, <3>4
  <2> QED
    BY <2>1 DEF Ordered
<1> QED
  BY <1>1, <1>2 DEF Gains, r

LEMMA EnqueueLine ==
  ASSUME NEW q \in Seq(Item), NEW m \in Item
  PROVE  Gains(q, Enqueue(q, m), m)
<1> DEFINE r == Append(q, m)
<1>1. r \in Seq(Item) /\ r # << >> /\ Gains(q, r, m)
  BY AppendLine
<1>2. Enqueue(q, m) = r \/ Enqueue(q, m) = Tail(r)
  BY DEF Enqueue
<1> HIDE DEF r
<1>3. Loses(r, Tail(r))
  BY <1>1, TailLine
<1> QED
  BY <1>1, <1>2, <1>3 DEF Gains, Loses

LEMMA NoteLine ==
  ASSUME NEW q \in Seq(Item), NEW m \in Item, m.kind \notin FrameKinds
  PROVE  Notes(q, Append(q, m))
  BY AppendLine DEF Notes

LEMMA LineValues ==
  ASSUME NEW s, NEW ch, NEW dr
  PROVE  /\ \A p \in Peers : /\ <<"store", p>> \in Places
                             /\ Lines(s, ch, dr)[<<"store", p>>] = s[p]
         /\ \A c \in Conns : /\ <<"chan", c>> \in Places /\ <<"drained", c>> \in Places
                             /\ Lines(s, ch, dr)[<<"chan", c>>] = ch[c]
                             /\ Lines(s, ch, dr)[<<"drained", c>>] = dr[c]
         /\ \A x \in Places : \/ \E p \in Peers : x = <<"store", p>>
                              \/ \E c \in Conns : x = <<"chan", c>>
                              \/ \E c \in Conns : x = <<"drained", c>>
<1>1. \A p \in Peers : <<"store", p>> \in Places
  BY DEF Places
<1>2. \A c \in Conns : <<"chan", c>> \in Places /\ <<"drained", c>> \in Places
  BY DEF Places
<1>3. \A x \in Places : \/ \E p \in Peers : x = <<"store", p>>
                        \/ \E c \in Conns : x = <<"chan", c>>
                        \/ \E c \in Conns : x = <<"drained", c>>
  BY DEF Places
<1>4. ASSUME NEW x \in Places
      PROVE  Lines(s, ch, dr)[x] = IF x[1] = "store" THEN s[x[2]]
                                   ELSE IF x[1] = "chan" THEN ch[x[2]] ELSE dr[x[2]]
  BY DEF Lines
<1>5. \A p \in Peers : Lines(s, ch, dr)[<<"store", p>>] = s[p]
  BY <1>1, <1>4
<1>6. \A c \in Conns : /\ Lines(s, ch, dr)[<<"chan", c>>] = ch[c]
                       /\ Lines(s, ch, dr)[<<"drained", c>>] = dr[c]
  BY <1>2, <1>4
<1> QED
  BY <1>1, <1>2, <1>3, <1>5, <1>6

-----------------------------------------------------------------------------
(* What the moves of frames preserve *)

\* Frames are lost and notices are added.
Quiet(L, B, u, M, C, v) ==
  /\ \A x \in Places : Loses(L[x], M[x]) \/ (x[1] = "chan" /\ Notes(L[x], M[x]))
  /\ C \subseteq B /\ \A c \in C : v[c] = u[c]

LEMMA QuietMove ==
  ASSUME NEW L, NEW B, NEW u, NEW n \in Nat, NEW M, NEW C, NEW v,
         NEW k \in Nat, n <= k, Quiet(L, B, u, M, C, v)
  PROVE  /\ HeldIn(M, C, v) \subseteq HeldIn(L, B, u)
         /\ (\A a \in HeldIn(L, B, u) : a.id \in Nat) /\ FrameShape(L, B, u, n)
              => FrameShape(M, C, v, k)
<1>1. \A x \in Places : \A m \in ItemsOf(M[x]) :
        m \in ItemsOf(L[x]) \/ (x[1] = "chan" /\ m.kind \notin FrameKinds)
  BY DEF Quiet, Loses, Notes
<1>2. \A x \in Places : Routed(ItemsOf(M[x])) \subseteq Routed(ItemsOf(L[x]))
  BY <1>1 DEF Routed
<1>3. HeldIn(M, C, v) \subseteq HeldIn(L, B, u)
  BY <1>1 DEF Quiet, HeldIn, Routed
<1>4. ASSUME \A a \in HeldIn(L, B, u) : a.id \in Nat, FrameShape(L, B, u, n)
      PROVE  FrameShape(M, C, v, k)
  <2>1. ASSUME NEW x \in Places PROVE Ordered(M[x])
    <3>1. Ordered(L[x])
      BY <1>4 DEF FrameShape, LineShape
    <3>2. CASE Loses(L[x], M[x])
      BY <3>1, <3>2 DEF Loses
    <3>3. CASE Notes(L[x], M[x])
      <4>1. PICK e : e.kind \notin FrameKinds /\ Gains(L[x], M[x], e)
        BY <3>3 DEF Notes
      <4>2. \A a \in ItemsOf(L[x]) : Before(a, e)
        BY <4>1 DEF Before
      <4> QED
        BY <3>1, <4>1, <4>2 DEF Gains
    <3> QED
      BY <3>2, <3>3 DEF Quiet
  <2>2. ASSUME NEW x \in Places, NEW m \in ItemsOf(M[x])
        PROVE  /\ m.kind \in FrameKinds => m.id < k
               /\ x[1] # "chan" => m.kind \in FrameKinds
    <3>1. CASE m \in ItemsOf(L[x])
      <4>1. /\ m.kind \in FrameKinds => m.id < n /\ m.id \in Nat
            /\ x[1] # "chan" => m.kind \in FrameKinds
        BY <1>4, <3>1 DEF FrameShape, LineShape, HeldIn, Routed
      <4> QED
        BY <4>1
    <3>2. CASE x[1] = "chan" /\ m.kind \notin FrameKinds
      BY <3>2
    <3> QED
      BY <1>1, <3>1, <3>2
  <2>3. LineShape(M, k)
    BY <2>1, <2>2 DEF LineShape
  <2>4. ApartShape(M)
    BY <1>2, <1>4 DEF FrameShape, ApartShape
  <2>5. RouterHolds(M, C, v, k)
    <3> SUFFICES ASSUME NEW c \in C PROVE
          /\ v[c].kind \in FrameKinds /\ v[c].src = c /\ v[c].id < k
          /\ \A x \in Places : \A m \in ItemsOf(M[x]) : Before(m, v[c])
          /\ \A d \in C : d # c => v[d].id # v[c].id
      BY DEF RouterHolds
    <3>1. c \in B /\ v[c] = u[c] /\ \A d \in C : d \in B /\ v[d] = u[d]
      BY DEF Quiet
    <3>2. /\ u[c].kind \in FrameKinds /\ u[c].src = c /\ u[c].id < n
          /\ \A x \in Places : \A m \in ItemsOf(L[x]) : Before(m, u[c])
          /\ \A d \in B : d # c => u[d].id # u[c].id
      BY <1>4, <3>1 DEF FrameShape, RouterHolds
    <3>3. u[c].id \in Nat
      BY <1>4, <3>1, <3>2 DEF HeldIn, Routed
    <3>4. \A x \in Places : \A m \in ItemsOf(M[x]) : Before(m, u[c])
      BY <1>1, <3>2 DEF Before
    <3> QED
      BY <3>1, <3>2, <3>3, <3>4
  <2> QED
    BY <2>3, <2>4, <2>5 DEF FrameShape
<1> QED
  BY <1>3, <1>4

\* Router c reads a frame.
Taking(L, B, u, n, M, C, v, c) ==
  /\ \A x \in Places : M[x] = L[x]
  /\ C = B \cup {c} /\ \A d \in B \ {c} : v[d] = u[d]
  /\ c \notin B
  /\ v[c].id = n /\ v[c].src = c /\ v[c].kind \in FrameKinds

LEMMA TakeMove ==
  ASSUME NEW L, NEW B, NEW u, NEW n \in Nat, NEW M, NEW C, NEW v, NEW c,
         Taking(L, B, u, n, M, C, v, c)
  PROVE  /\ HeldIn(M, C, v) = HeldIn(L, B, u) \cup {v[c]}
         /\ (\A a \in HeldIn(L, B, u) : a.id \in Nat) /\ FrameShape(L, B, u, n)
              => FrameShape(M, C, v, n + 1)
<1>0. \A d \in B : v[d] = u[d]
  BY DEF Taking
<1>1. HeldIn(M, C, v) = HeldIn(L, B, u) \cup {v[c]}
  BY <1>0 DEF Taking, HeldIn, Routed
<1>2. ASSUME \A a \in HeldIn(L, B, u) : a.id \in Nat, FrameShape(L, B, u, n)
      PROVE  FrameShape(M, C, v, n + 1)
  <2>1. \A x \in Places : \A m \in ItemsOf(L[x]) :
          m.kind \in FrameKinds => m.id \in Nat /\ m.id < n
    BY <1>2 DEF FrameShape, LineShape, HeldIn, Routed
  <2>2. \A d \in B : /\ u[d].id \in Nat /\ u[d].id < n
    BY <1>2 DEF FrameShape, RouterHolds, HeldIn, Routed
  <2>3. \A x \in Places : M[x] = L[x]
    BY DEF Taking
  <2>4. LineShape(M, n + 1)
    BY <1>2, <2>1, <2>3 DEF FrameShape, LineShape
  <2>5. ApartShape(M)
    BY <1>2, <2>3 DEF FrameShape, ApartShape
  <2>6. \A x \in Places : \A m \in ItemsOf(M[x]) : Before(m, v[c])
    BY <2>1, <2>3 DEF Before, Taking
  <2>7. ASSUME NEW d \in B
        PROVE  /\ v[d].kind \in FrameKinds /\ v[d].src = d /\ v[d].id < n + 1
               /\ \A x \in Places : \A m \in ItemsOf(M[x]) : Before(m, v[d])
               /\ \A e \in C : e # d => v[e].id # v[d].id
    <3>1. /\ u[d].kind \in FrameKinds /\ u[d].src = d
          /\ \A x \in Places : \A m \in ItemsOf(L[x]) : Before(m, u[d])
          /\ \A e \in B : e # d => u[e].id # u[d].id
      BY <1>2 DEF FrameShape, RouterHolds
    <3>2. v[c].id = n /\ C = B \cup {c}
      BY DEF Taking
    <3> QED
      BY <1>0, <2>2, <2>3, <3>1, <3>2
  <2>8. /\ v[c].kind \in FrameKinds /\ v[c].src = c /\ v[c].id < n + 1
        /\ \A e \in C : e # c => v[e].id # v[c].id
    BY <1>0, <2>2 DEF Taking
  <2>9. RouterHolds(M, C, v, n + 1)
    BY <2>6, <2>7, <2>8 DEF RouterHolds, Taking
  <2> QED
    BY <2>4, <2>5, <2>9 DEF FrameShape
<1> QED
  BY <1>1, <1>2

\* Router c puts its frame into line y.
Putting(L, B, u, M, C, v, c, y) ==
  /\ c \in B /\ y \in Places
  /\ Gains(L[y], M[y], u[c])
  /\ \A x \in Places \ {y} : M[x] = L[x]
  /\ C = B \ {c} /\ \A d \in C : v[d] = u[d]

LEMMA PutMove ==
  ASSUME NEW L, NEW B, NEW u, NEW n, NEW M, NEW C, NEW v, NEW c, NEW y,
         Putting(L, B, u, M, C, v, c, y)
  PROVE  /\ HeldIn(M, C, v) \subseteq HeldIn(L, B, u)
         /\ FrameShape(L, B, u, n) => FrameShape(M, C, v, n)
<1>1. \A x \in Places : \A m \in ItemsOf(M[x]) :
        m \in ItemsOf(L[x]) \/ (x = y /\ m = u[c])
  BY DEF Putting, Gains
<1>2. HeldIn(M, C, v) \subseteq HeldIn(L, B, u)
  BY <1>1 DEF Putting, HeldIn, Routed
<1>3. ASSUME FrameShape(L, B, u, n) PROVE FrameShape(M, C, v, n)
  <2>1. /\ u[c].kind \in FrameKinds /\ u[c].src = c /\ u[c].id < n
        /\ \A x \in Places : \A m \in ItemsOf(L[x]) : Before(m, u[c])
        /\ \A d \in B : d # c => u[d].id # u[c].id
    BY <1>3 DEF FrameShape, RouterHolds, Putting
  <2>2. ASSUME NEW x \in Places PROVE Ordered(M[x])
    <3>1. Ordered(L[x])
      BY <1>3 DEF FrameShape, LineShape
    <3> QED
      BY <2>1, <3>1 DEF Putting, Gains
  <2>3. LineShape(M, n)
    BY <1>1, <1>3, <2>1, <2>2 DEF FrameShape, LineShape
  <2>4. ASSUME NEW x \in Places, NEW z \in Places, x # z,
               NEW a \in Routed(ItemsOf(M[x])), NEW b \in Routed(ItemsOf(M[z]))
        PROVE  a.id # b.id
    <3>1. /\ a \in Routed(ItemsOf(L[x])) \/ (x = y /\ a = u[c])
          /\ b \in Routed(ItemsOf(L[z])) \/ (z = y /\ b = u[c])
          /\ a.kind \in FrameKinds /\ b.kind \in FrameKinds
      BY <1>1, <2>4 DEF Routed
    <3>2. CASE a \in Routed(ItemsOf(L[x])) /\ b \in Routed(ItemsOf(L[z]))
      BY <1>3, <2>4, <3>2 DEF FrameShape, ApartShape
    <3>3. CASE x = y /\ a = u[c] /\ b \in ItemsOf(L[z])
      BY <2>1, <3>1, <3>3 DEF Before
    <3>4. CASE z = y /\ b = u[c] /\ a \in ItemsOf(L[x])
      BY <2>1, <3>1, <3>4 DEF Before
    <3> QED
      BY <2>4, <3>1, <3>2, <3>3, <3>4 DEF Routed
  <2>5. ApartShape(M)
    BY <2>4 DEF ApartShape
  <2>6. ASSUME NEW d \in C
        PROVE  /\ v[d].kind \in FrameKinds /\ v[d].src = d /\ v[d].id < n
               /\ \A x \in Places : \A m \in ItemsOf(M[x]) : Before(m, v[d])
               /\ \A e \in C : e # d => v[e].id # v[d].id
    <3>1. d \in B /\ d # c /\ v[d] = u[d] /\ \A e \in C : e \in B /\ v[e] = u[e]
      BY DEF Putting
    <3>2. /\ u[d].kind \in FrameKinds /\ u[d].src = d /\ u[d].id < n
          /\ \A x \in Places : \A m \in ItemsOf(L[x]) : Before(m, u[d])
          /\ \A e \in B : e # d => u[e].id # u[d].id
      BY <1>3, <3>1 DEF FrameShape, RouterHolds
    <3>3. Before(u[c], u[d])
      BY <2>1, <3>1, <3>2 DEF Before
    <3> QED
      BY <1>1, <3>1, <3>2, <3>3
  <2>7. RouterHolds(M, C, v, n)
    BY <2>6 DEF RouterHolds
  <2> QED
    BY <2>3, <2>5, <2>7 DEF FrameShape
<1> QED
  BY <1>2, <1>3

\* Line y is emptied into line z: drain().
Draining(L, M, y, z) ==
  /\ y \in Places /\ z \in Places /\ y # z /\ y[1] # "chan" /\ z[1] # "chan"
  /\ M[z] = L[y] /\ M[y] = << >>
  /\ \A x \in Places \ {y, z} : M[x] = L[x]

LEMMA DrainMove ==
  ASSUME NEW L, NEW B, NEW u, NEW n, NEW M, NEW y, NEW z, Draining(L, M, y, z)
  PROVE  /\ HeldIn(M, B, u) \subseteq HeldIn(L, B, u)
         /\ FrameShape(L, B, u, n) => FrameShape(M, B, u, n)
<1>0. ItemsOf(M[y]) = {} /\ Ordered(M[y])
  BY EmptyItems DEF Draining, Ordered
<1>1. \A x \in Places : \A m \in ItemsOf(M[x]) :
        (x # z /\ x # y /\ m \in ItemsOf(L[x])) \/ (x = z /\ m \in ItemsOf(L[y]))
  BY <1>0 DEF Draining
<1>2. HeldIn(M, B, u) \subseteq HeldIn(L, B, u)
  BY <1>1 DEF Draining, HeldIn, Routed
<1>3. ASSUME FrameShape(L, B, u, n) PROVE FrameShape(M, B, u, n)
  <2>1. \A x \in Places : Ordered(M[x])
    BY <1>0, <1>3 DEF FrameShape, LineShape, Draining
  <2>2. LineShape(M, n)
    BY <1>1, <1>3, <2>1 DEF FrameShape, LineShape, Draining
  <2>3. ASSUME NEW x \in Places, NEW w \in Places, x # w,
               NEW a \in Routed(ItemsOf(M[x])), NEW b \in Routed(ItemsOf(M[w]))
        PROVE  a.id # b.id
    <3>1. /\ (x # z /\ x # y /\ a \in ItemsOf(L[x])) \/ (x = z /\ a \in ItemsOf(L[y]))
          /\ (w # z /\ w # y /\ b \in ItemsOf(L[w])) \/ (w = z /\ b \in ItemsOf(L[y]))
          /\ a.kind \in FrameKinds /\ b.kind \in FrameKinds
      BY <1>1, <2>3 DEF Routed
    <3> QED
      BY <1>3, <2>3, <3>1 DEF FrameShape, ApartShape, Routed, Draining
  <2>4. ApartShape(M)
    BY <2>3 DEF ApartShape
  <2>5. \A c \in B : \A x \in Places : \A m \in ItemsOf(M[x]) : Before(m, u[c])
    BY <1>1, <1>3 DEF FrameShape, RouterHolds, Draining
  <2>6. RouterHolds(M, B, u, n)
    BY <1>3, <2>5 DEF FrameShape, RouterHolds
  <2> QED
    BY <2>2, <2>4, <2>6 DEF FrameShape
<1> QED
  BY <1>2, <1>3

\* The first item of line y leaves it.
Leaving(L, M, y) ==
  /\ y \in Places /\ L[y] \in Seq(Item) /\ L[y] # << >>
  /\ M[y] = Tail(L[y])
  /\ \A x \in Places \ {y} : M[x] = L[x]

LEMMA LeaveIsQuiet ==
  ASSUME NEW L, NEW B, NEW u, NEW M, NEW y, Leaving(L, M, y)
  PROVE  Quiet(L, B, u, M, B, u)
  BY TailLine, LoseNothing DEF Leaving, Quiet

\* A routed frame that leaves its line is held nowhere else.
LEMMA LeaveMove ==
  ASSUME NEW L, NEW B, NEW u, NEW n, NEW M, NEW y, Leaving(L, M, y),
         FrameShape(L, B, u, n), Head(L[y]).kind \in FrameKinds
  PROVE  /\ HeldIn(L, B, u) = {Head(L[y])} \cup HeldIn(M, B, u)
         /\ \A a \in HeldIn(M, B, u) : a.id # Head(L[y]).id
<1> DEFINE h == Head(L[y])
<1>1. /\ ItemsOf(L[y]) = {h} \cup ItemsOf(M[y])
      /\ \A a \in ItemsOf(M[y]) : Before(h, a)
  BY TailLine DEF Leaving, FrameShape, LineShape
<1> HIDE DEF h
<1>2. \A x \in Places : x # y => M[x] = L[x]
  BY DEF Leaving
<1>3. h.kind \in FrameKinds /\ y \in Places
  BY DEF Leaving, h
<1>4. UNION {ItemsOf(L[x]) : x \in Places} = {h} \cup UNION {ItemsOf(M[x]) : x \in Places}
  BY <1>1, <1>2, <1>3
<1>5. HeldIn(L, B, u) = {h} \cup HeldIn(M, B, u)
  BY <1>3, <1>4 DEF HeldIn, Routed
<1>6. ASSUME NEW a \in HeldIn(M, B, u) PROVE a.id # h.id
  <2>1. a.kind \in FrameKinds
    BY <1>6 DEF HeldIn, Routed
  <2>2. CASE a \in ItemsOf(M[y])
    BY <1>1, <1>3, <2>1, <2>2 DEF Before
  <2>3. ASSUME NEW x \in Places, x # y, a \in ItemsOf(M[x]) PROVE a.id # h.id
    BY <1>1, <1>2, <1>3, <2>1, <2>3 DEF FrameShape, ApartShape, Routed
  <2>4. ASSUME NEW c \in B, a = u[c] PROVE a.id # h.id
    <3>1. Before(h, u[c])
      BY <1>1, <1>3 DEF FrameShape, RouterHolds
    <3> QED
      BY <1>3, <2>1, <2>4, <3>1 DEF Before
  <2> QED
    BY <1>6, <2>2, <2>3, <2>4 DEF HeldIn, Routed
<1> QED
  BY <1>5, <1>6 DEF h

\* Only notices are added.
Noting(L, B, u, M, C, v) ==
  /\ \A x \in Places : M[x] = L[x] \/ (x[1] = "chan" /\ Notes(L[x], M[x]))
  /\ C = B /\ v = u

LEMMA NotingMove ==
  ASSUME NEW L, NEW B, NEW u, NEW M, NEW C, NEW v, Noting(L, B, u, M, C, v)
  PROVE  Quiet(L, B, u, M, C, v) /\ HeldIn(M, C, v) = HeldIn(L, B, u)
<1>1. Quiet(L, B, u, M, C, v)
  BY LoseNothing DEF Noting, Quiet
<1>2. \A x \in Places : Routed(ItemsOf(M[x])) = Routed(ItemsOf(L[x]))
  BY DEF Noting, Notes, Routed
<1>3. \A x \in Places : \A m : m.kind \in FrameKinds =>
        (m \in ItemsOf(M[x]) <=> m \in ItemsOf(L[x]))
  BY <1>2 DEF Routed
<1>4. HeldIn(M, C, v) = HeldIn(L, B, u)
  BY <1>3 DEF Noting, HeldIn, Routed
<1> QED
  BY <1>1, <1>4

-----------------------------------------------------------------------------
(* Every step of the relay is one of these moves *)

Busy == BusyIn(stage)

InboxOf(r) ==
  [p \in Peers |->
    {m.id : m \in UNION {Routed(ItemsOf(r[c])) : c \in {d \in Conns : PeerOf[d] = p}}}]

\* The item at the head of line y, whose connection is c, is written to c.
Delivering(c, y) ==
  /\ Leaving(Line, Line', y) /\ Busy' = Busy /\ cur' = cur
  /\ y = <<"chan", c>> \/ y = <<"drained", c>>
  /\ Head(Line[y]).kind \in FrameKinds
  /\ \E m \in Item : /\ m.kind \in FrameKinds /\ m.id = Head(Line[y]).id
                     /\ rcvd' = [rcvd EXCEPT ![c] = Append(@, m)]

FrameMoves ==
  \/ /\ nextId' = nextId /\ InboxOf(rcvd') = InboxOf(rcvd)
     /\ \/ Quiet(Line, Busy, cur, Line', Busy', cur')
        \/ \E c \in Conns, y \in Places : Putting(Line, Busy, cur, Line', Busy', cur', c, y)
        \/ \E y \in Places, z \in Places :
             Draining(Line, Line', y, z) /\ Busy' = Busy /\ cur' = cur
  \/ /\ nextId' = nextId + 1 /\ InboxOf(rcvd') = InboxOf(rcvd)
     /\ \/ Noting(Line, Busy, cur, Line', Busy', cur') /\ Peers # {}
        \/ \E c \in Conns : /\ Taking(Line, Busy, cur, nextId, Line', Busy', cur', c)
                            /\ cur'[c].to \in Peers
  \/ nextId' = nextId /\ \E c \in Conns, y \in Places : Delivering(c, y)

LEMMA QuietLines ==
  ASSUME NEW s, NEW ch, NEW dr, NEW s2, NEW ch2, NEW dr2,
         \A p \in Peers : Loses(s[p], s2[p]),
         \A c \in Conns : Loses(ch[c], ch2[c]) \/ Notes(ch[c], ch2[c]),
         \A c \in Conns : Loses(dr[c], dr2[c])
  PROVE  \A x \in Places : \/ Loses(Lines(s, ch, dr)[x], Lines(s2, ch2, dr2)[x])
                           \/ /\ x[1] = "chan"
                              /\ Notes(Lines(s, ch, dr)[x], Lines(s2, ch2, dr2)[x])
<1> DEFINE L == Lines(s, ch, dr)  M == Lines(s2, ch2, dr2)
<1>1. /\ \A p \in Peers : L[<<"store", p>>] = s[p] /\ M[<<"store", p>>] = s2[p]
      /\ \A c \in Conns : /\ L[<<"chan", c>>] = ch[c] /\ M[<<"chan", c>>] = ch2[c]
                          /\ L[<<"drained", c>>] = dr[c] /\ M[<<"drained", c>>] = dr2[c]
      /\ \A x \in Places : \/ \E p \in Peers : x = <<"store", p>>
                           \/ \E c \in Conns : x = <<"chan", c>>
                           \/ \E c \in Conns : x = <<"drained", c>>
  BY LineValues
<1> HIDE DEF L, M
<1>2. ASSUME NEW x \in Places
      PROVE  Loses(L[x], M[x]) \/ (x[1] = "chan" /\ Notes(L[x], M[x]))
  <2>1. ASSUME NEW p \in Peers, x = <<"store", p>> PROVE Loses(L[x], M[x])
    BY <1>1, <2>1
  <2>2. ASSUME NEW c \in Conns, x = <<"drained", c>> PROVE Loses(L[x], M[x])
    BY <1>1, <2>2
  <2>3. ASSUME NEW c \in Conns, x = <<"chan", c>>
        PROVE  x[1] = "chan" /\ (Loses(L[x], M[x]) \/ Notes(L[x], M[x]))
    BY <1>1, <2>3
  <2> QED
    BY <1>1, <2>1, <2>2, <2>3
<1> QED
  BY <1>2 DEF L, M

\* A line of which only one changes.
LEMMA OneLine ==
  ASSUME NEW s, NEW ch, NEW dr, NEW s2, NEW ch2, NEW dr2
  PROVE  /\ \A p \in Peers :
              (\A q \in Peers : q # p => s2[q] = s[q]) /\ ch2 = ch /\ dr2 = dr
              => \A x \in Places \ {<<"store", p>>} :
                   Lines(s2, ch2, dr2)[x] = Lines(s, ch, dr)[x]
         /\ \A c \in Conns :
              (\A d \in Conns : d # c => ch2[d] = ch[d]) /\ s2 = s /\ dr2 = dr
              => \A x \in Places \ {<<"chan", c>>} :
                   Lines(s2, ch2, dr2)[x] = Lines(s, ch, dr)[x]
         /\ \A c \in Conns :
              (\A d \in Conns : d # c => dr2[d] = dr[d]) /\ s2 = s /\ ch2 = ch
              => \A x \in Places \ {<<"drained", c>>} :
                   Lines(s2, ch2, dr2)[x] = Lines(s, ch, dr)[x]
<1> DEFINE L == Lines(s, ch, dr)  M == Lines(s2, ch2, dr2)
<1>1. /\ \A p \in Peers : L[<<"store", p>>] = s[p] /\ M[<<"store", p>>] = s2[p]
      /\ \A c \in Conns : /\ L[<<"chan", c>>] = ch[c] /\ M[<<"chan", c>>] = ch2[c]
                          /\ L[<<"drained", c>>] = dr[c] /\ M[<<"drained", c>>] = dr2[c]
      /\ \A x \in Places : \/ \E p \in Peers : x = <<"store", p>>
                           \/ \E c \in Conns : x = <<"chan", c>>
                           \/ \E c \in Conns : x = <<"drained", c>>
  BY LineValues
<1> HIDE DEF L, M
<1>2. ASSUME NEW p \in Peers, \A q \in Peers : q # p => s2[q] = s[q], ch2 = ch, dr2 = dr
      PROVE  \A x \in Places \ {<<"store", p>>} : M[x] = L[x]
  <2> SUFFICES ASSUME NEW x \in Places, x # <<"store", p>> PROVE M[x] = L[x]
    OBVIOUS
  <2>1. ASSUME NEW q \in Peers, x = <<"store", q>> PROVE M[x] = L[x]
    BY <1>1, <1>2, <2>1
  <2>2. ASSUME NEW d \in Conns, x = <<"chan", d>> PROVE M[x] = L[x]
    BY <1>1, <1>2, <2>2
  <2>3. ASSUME NEW d \in Conns, x = <<"drained", d>> PROVE M[x] = L[x]
    BY <1>1, <1>2, <2>3
  <2> QED
    BY <1>1, <2>1, <2>2, <2>3
<1>3. ASSUME NEW c \in Conns, \A d \in Conns : d # c => ch2[d] = ch[d], s2 = s, dr2 = dr
      PROVE  \A x \in Places \ {<<"chan", c>>} : M[x] = L[x]
  <2> SUFFICES ASSUME NEW x \in Places, x # <<"chan", c>> PROVE M[x] = L[x]
    OBVIOUS
  <2>1. ASSUME NEW q \in Peers, x = <<"store", q>> PROVE M[x] = L[x]
    BY <1>1, <1>3, <2>1
  <2>2. ASSUME NEW d \in Conns, x = <<"chan", d>> PROVE M[x] = L[x]
    BY <1>1, <1>3, <2>2
  <2>3. ASSUME NEW d \in Conns, x = <<"drained", d>> PROVE M[x] = L[x]
    BY <1>1, <1>3, <2>3
  <2> QED
    BY <1>1, <2>1, <2>2, <2>3
<1>4. ASSUME NEW c \in Conns, \A d \in Conns : d # c => dr2[d] = dr[d], s2 = s, ch2 = ch
      PROVE  \A x \in Places \ {<<"drained", c>>} : M[x] = L[x]
  <2> SUFFICES ASSUME NEW x \in Places, x # <<"drained", c>> PROVE M[x] = L[x]
    OBVIOUS
  <2>1. ASSUME NEW q \in Peers, x = <<"store", q>> PROVE M[x] = L[x]
    BY <1>1, <1>4, <2>1
  <2>2. ASSUME NEW d \in Conns, x = <<"chan", d>> PROVE M[x] = L[x]
    BY <1>1, <1>4, <2>2
  <2>3. ASSUME NEW d \in Conns, x = <<"drained", d>> PROVE M[x] = L[x]
    BY <1>1, <1>4, <2>3
  <2> QED
    BY <1>1, <2>1, <2>2, <2>3
<1> QED
  BY <1>2, <1>3, <1>4 DEF L, M

\* A notice, or nothing new for the addressees.
LEMMA UnroutedReceived ==
  ASSUME NEW r \in [Conns -> Seq(Item)], NEW c \in Conns, NEW m \in Item,
         m.kind \notin FrameKinds
  PROVE  InboxOf([r EXCEPT ![c] = Append(@, m)]) = InboxOf(r)
<1> DEFINE w == [r EXCEPT ![c] = Append(@, m)]
<1>1. r[c] \in Seq(Item)
  OBVIOUS
<1>2. ItemsOf(Append(r[c], m)) = ItemsOf(r[c]) \cup {m}
  BY <1>1, AppendItems
<1>3. \A d \in Conns : w[d] = IF d = c THEN Append(r[c], m) ELSE r[d]
  OBVIOUS
<1> HIDE DEF w
<1>4. \A d \in Conns : Routed(ItemsOf(w[d])) = Routed(ItemsOf(r[d]))
  BY <1>2, <1>3 DEF Routed
<1>5. InboxOf(w) = InboxOf(r)
  BY <1>4 DEF InboxOf
<1> QED
  BY <1>5 DEF w

InboxLogs == [Conns -> Seq(Item)]
Logged(r, c, m) == [r EXCEPT ![c] = Append(@, m)]

\* A frame written to c reaches the inbox of c's peer, and only that.
LEMMA RoutedReceived ==
  ASSUME NEW r \in InboxLogs, NEW c \in Conns, NEW m \in Item, m.kind \in FrameKinds
  PROVE  InboxOf(Logged(r, c, m)) = [InboxOf(r) EXCEPT ![PeerOf[c]] = @ \cup {m.id}]
<1> DEFINE w == Logged(r, c, m)
           of(x, p) == {a.id : a \in UNION {Routed(ItemsOf(x[d])) :
                                            d \in {e \in Conns : PeerOf[e] = p}}}
<1>1. r \in [Conns -> Seq(Item)] /\ r[c] \in Seq(Item)
  BY DEF InboxLogs
<1>2. ItemsOf(Append(r[c], m)) = ItemsOf(r[c]) \cup {m}
  BY <1>1, AppendItems
<1>3. \A d \in Conns : w[d] = IF d = c THEN Append(r[c], m) ELSE r[d]
  BY <1>1 DEF Logged
<1> HIDE DEF w
<1>4. \A d \in Conns : Routed(ItemsOf(w[d])) =
                         Routed(ItemsOf(r[d])) \cup (IF d = c THEN {m} ELSE {})
  BY <1>2, <1>3 DEF Routed
<1>0. \A x, p, i : i \in of(x, p) <=>
        \E d \in Conns : PeerOf[d] = p /\ \E a \in Routed(ItemsOf(x[d])) : a.id = i
  OBVIOUS
<1> HIDE DEF of
<1>5. ASSUME NEW p \in Peers, p # PeerOf[c] PROVE of(w, p) = of(r, p)
  <2>1. \A d \in Conns : PeerOf[d] = p => Routed(ItemsOf(w[d])) = Routed(ItemsOf(r[d]))
    BY <1>4, <1>5
  <2>2. \A i : i \in of(w, p) <=> i \in of(r, p)
    BY <1>0, <2>1
  <2> QED
    BY <2>2 DEF of
<1>6. of(w, PeerOf[c]) = of(r, PeerOf[c]) \cup {m.id}
  <2>1. ASSUME NEW i, i \in of(w, PeerOf[c])
        PROVE  i \in of(r, PeerOf[c]) \/ i = m.id
    BY <1>0, <1>4, <2>1
  <2>2. ASSUME NEW i, i \in of(r, PeerOf[c]) \/ i = m.id
        PROVE  i \in of(w, PeerOf[c])
    <3>1. m \in Routed(ItemsOf(w[c])) /\ \A d \in Conns :
            Routed(ItemsOf(r[d])) \subseteq Routed(ItemsOf(w[d]))
      BY <1>4
    <3> QED
      BY <1>0, <2>2, <3>1
  <2> QED
    BY <2>1, <2>2 DEF of
<1>7. InboxOf(w) = [p \in Peers |-> of(w, p)] /\ InboxOf(r) = [p \in Peers |-> of(r, p)]
  BY DEF InboxOf, of
<1>8. InboxOf(w) = [InboxOf(r) EXCEPT ![PeerOf[c]] = @ \cup {m.id}]
  <2>1. PeerOf[c] \in Peers
    BY RelayAssumption
  <2> DEFINE v == [InboxOf(r) EXCEPT ![PeerOf[c]] = @ \cup {m.id}]
  <2>2. v = [p \in Peers |-> IF p = PeerOf[c] THEN of(r, p) \cup {m.id} ELSE of(r, p)]
    BY <1>7, <2>1
  <2> QED
    BY <1>5, <1>6, <1>7, <2>2
<1> QED
  BY <1>8 DEF w

\* What the bookkeeping of a router does to the set of busy ones.
LEMMA RouterMoves ==
  ASSUME TypeOK, NEW c \in Conns
  PROVE  /\ RouteDone(c) => /\ Busy' = Busy \ {c}
                            /\ \A d \in Busy' : cur'[d] = cur[d]
         /\ RouteTo(c, "notify") => Busy' = Busy \ {c} /\ cur' = cur
         /\ c \in Busy /\ (RouteTo(c, "unregister") \/ RouteTo(c, "requeue"))
              => Busy' = Busy /\ cur' = cur
<1>1. stage \in [Conns -> Stages] /\ cur \in [Conns -> Item \cup {NoItem}]
  BY DEF TypeOK
<1> QED
  BY <1>1 DEF RouteDone, RouteTo, Busy, BusyIn

LEMMA LineNow ==
  /\ \A p \in Peers : /\ <<"store", p>> \in Places
                      /\ Line[<<"store", p>>] = store[p] /\ Line'[<<"store", p>>] = store'[p]
  /\ \A c \in Conns : /\ <<"chan", c>> \in Places /\ <<"drained", c>> \in Places
                      /\ Line[<<"chan", c>>] = chan[c] /\ Line'[<<"chan", c>>] = chan'[c]
                      /\ Line[<<"drained", c>>] = drained[c]
                      /\ Line'[<<"drained", c>>] = drained'[c]
<1>1. /\ \A p \in Peers : /\ <<"store", p>> \in Places
                          /\ Line[<<"store", p>>] = store[p]
      /\ \A c \in Conns : /\ <<"chan", c>> \in Places /\ <<"drained", c>> \in Places
                          /\ Line[<<"chan", c>>] = chan[c]
                          /\ Line[<<"drained", c>>] = drained[c]
  BY LineValues DEF Line
<1>2. Line' = Lines(store', chan', drained')
  BY DEF Line
<1>3. /\ \A p \in Peers : Lines(store', chan', drained')[<<"store", p>>] = store'[p]
      /\ \A c \in Conns : /\ Lines(store', chan', drained')[<<"chan", c>>] = chan'[c]
                          /\ Lines(store', chan', drained')[<<"drained", c>>] = drained'[c]
  BY LineValues
<1> QED
  BY <1>1, <1>2, <1>3

LEMMA QuietIsMove ==
  ASSUME \A p \in Peers : Loses(store[p], store'[p]),
         \A c \in Conns : Loses(chan[c], chan'[c]) \/ Notes(chan[c], chan'[c]),
         \A c \in Conns : Loses(drained[c], drained'[c]),
         Busy' \subseteq Busy, \A c \in Busy' : cur'[c] = cur[c],
         nextId' = nextId, InboxOf(rcvd') = InboxOf(rcvd)
  PROVE  FrameMoves
<1>1. \A x \in Places : \/ Loses(Line[x], Line'[x])
                        \/ x[1] = "chan" /\ Notes(Line[x], Line'[x])
  BY QuietLines DEF Line
<1>2. Quiet(Line, Busy, cur, Line', Busy', cur')
  BY <1>1 DEF Quiet
<1> QED
  BY <1>2 DEF FrameMoves

\* Nothing but the head of one queue, or all of it, is lost.
LEMMA QueueLoses ==
  ASSUME NEW S, NEW f \in [S -> Seq(Item)], NEW c \in S, NEW g,
         \/ g = f
         \/ f[c] # << >> /\ g = [f EXCEPT ![c] = Tail(@)]
         \/ g = [f EXCEPT ![c] = << >>]
  PROVE  \A d \in S : Loses(f[d], g[d])
<1>1. \A d \in S : g[d] = f[d] \/ g[d] = << >> \/ (f[d] # << >> /\ g[d] = Tail(f[d]))
  OBVIOUS
<1>2. \A d \in S : f[d] \in Seq(Item)
  OBVIOUS
<1>3. ASSUME NEW d \in S PROVE Loses(f[d], g[d])
  <2>1. CASE g[d] = f[d]
    BY <2>1, LoseNothing
  <2>2. CASE g[d] = << >>
    BY <2>2, LoseAll
  <2>3. CASE f[d] # << >> /\ g[d] = Tail(f[d])
    BY <1>2, <2>3, TailLine
  <2> QED
    BY <1>1, <2>1, <2>2, <2>3
<1> QED
  BY <1>3

LEMMA HandlerMoves ==
  ASSUME RelayInv, FrameInv, NEW c \in Conns, Handler(c)
  PROVE  FrameMoves
<1>0. /\ store \in [Peers -> Seq(Item)] /\ chan \in [Conns -> Seq(Item)]
      /\ drained \in [Conns -> Seq(Item)] /\ rcvd \in [Conns -> Seq(Item)]
      /\ PeerOf[c] \in Peers
  BY RelayAssumption DEF RelayInv, TypeOK
<1>1. Busy' = Busy /\ cur' = cur /\ nextId' = nextId
  BY DEF Handler, RegisterRefused, Register, SendRegistered, Drain, DeliverQueued,
     SpawnTasks, TaskEnded, Cleanup, routeVars, Busy
<1>2. CASE Drain(c)
  <2> DEFINE y == <<"store", PeerOf[c]>>  z == <<"drained", c>>
  <2>1. /\ drained' = [drained EXCEPT ![c] = store[PeerOf[c]]]
        /\ store' = [store EXCEPT ![PeerOf[c]] = << >>]
        /\ chan' = chan /\ rcvd' = rcvd
    BY <1>2 DEF Drain
  <2>2. /\ y \in Places /\ z \in Places /\ y # z /\ y[1] # "chan" /\ z[1] # "chan"
        /\ Line[y] = store[PeerOf[c]] /\ Line'[z] = drained'[c] /\ Line'[y] = store'[PeerOf[c]]
    BY <1>0, LineNow
  <2>3. drained'[c] = store[PeerOf[c]] /\ store'[PeerOf[c]] = << >>
    BY <1>0, <2>1
  <2>4. ASSUME NEW x \in Places, x # y, x # z PROVE Line'[x] = Line[x]
    <3>1. \/ \E p \in Peers : x = <<"store", p>>
          \/ \E d \in Conns : x = <<"chan", d>>
          \/ \E d \in Conns : x = <<"drained", d>>
      BY LineValues
    <3>2. ASSUME NEW p \in Peers, x = <<"store", p>> PROVE Line'[x] = Line[x]
      <4>1. Line[x] = store[p] /\ Line'[x] = store'[p]
        BY <3>2, LineNow
      <4> QED
        BY <1>0, <2>1, <2>4, <3>2, <4>1
    <3>3. ASSUME NEW d \in Conns, x = <<"chan", d>> PROVE Line'[x] = Line[x]
      <4>1. Line[x] = chan[d] /\ Line'[x] = chan'[d]
        BY <3>3, LineNow
      <4> QED
        BY <2>1, <4>1
    <3>4. ASSUME NEW d \in Conns, x = <<"drained", d>> PROVE Line'[x] = Line[x]
      <4>1. Line[x] = drained[d] /\ Line'[x] = drained'[d]
        BY <3>4, LineNow
      <4> QED
        BY <1>0, <2>1, <2>4, <3>4, <4>1
    <3> QED
      BY <3>1, <3>2, <3>3, <3>4
  <2>5. Draining(Line, Line', y, z)
    BY <2>2, <2>3, <2>4 DEF Draining
  <2> QED
    BY <1>1, <2>1, <2>2, <2>5 DEF FrameMoves
<1>3. CASE DeliverQueued(c)
  <2> DEFINE y == <<"drained", c>>
  <2>1. chan' = chan /\ store' = store /\ drained[c] # << >>
    BY <1>3 DEF DeliverQueued
  <2>2. y \in Places /\ Line[y] = drained[c] /\ Line'[y] = drained'[c]
    BY LineNow
  <2>3. CASE sock[c] = "up"
    <3> DEFINE h == Head(drained[c])  m == [h EXCEPT !.kind = "payload"]
    <3>1. /\ rcvd' = [rcvd EXCEPT ![c] = Append(@, m)]
          /\ drained' = [drained EXCEPT ![c] = Tail(@)]
      BY <1>3, <2>3 DEF DeliverQueued
    <3>2. \A x \in Places \ {y} : Line'[x] = Line[x]
      <4>1. \A d \in Conns : d # c => drained'[d] = drained[d]
        BY <1>0, <3>1
      <4> QED
        BY <2>1, <4>1, OneLine DEF Line
    <3>3. Leaving(Line, Line', y)
      BY <1>0, <2>1, <2>2, <3>1, <3>2 DEF Leaving
    <3>4. h \in Item /\ h \in ItemsOf(Line[y])
      BY <1>0, <2>1, <2>2, TailLine
    <3>5. h.kind \in FrameKinds
      BY <2>2, <3>4 DEF FrameInv, FrameShape, LineShape
    <3>6. m \in Item /\ m.kind \in FrameKinds /\ m.id = h.id
      BY <3>4 DEF Item, FrameKinds
    <3> HIDE DEF m
    <3>7. Delivering(c, y)
      BY <1>1, <2>2, <3>1, <3>3, <3>5, <3>6 DEF Delivering
    <3> QED
      BY <1>1, <2>2, <3>7 DEF FrameMoves
  <2>4. CASE sock[c] # "up"
    <3>1. /\ rcvd' = rcvd
          /\ drained' = [drained EXCEPT ![c] = Tail(@)] \/ drained' = [drained EXCEPT ![c] = << >>]
      BY <1>3, <2>4 DEF DeliverQueued
    <3>2. \A d \in Conns : Loses(drained[d], drained'[d])
      BY <1>0, <2>1, <3>1, QueueLoses
    <3> QED
      BY <1>1, <2>1, <3>1, <3>2, LoseNothing, QuietIsMove
  <2> QED
    BY <2>3, <2>4
<1>4. CASE ~Drain(c) /\ ~DeliverQueued(c)
  <2>1. /\ store' = store /\ drained' = drained /\ rcvd' = rcvd
        /\ chan' = chan \/ chan' = [chan EXCEPT ![c] = << >>]
    BY <1>4 DEF Handler, RegisterRefused, Register, SendRegistered, SpawnTasks,
       TaskEnded, Cleanup
  <2>2. \A d \in Conns : Loses(chan[d], chan'[d])
    BY <1>0, <2>1, QueueLoses
  <2> QED
    BY <1>1, <2>1, <2>2, LoseNothing, QuietIsMove
<1> QED
  BY <1>2, <1>3, <1>4

LEMMA WriterMoves ==
  ASSUME RelayInv, NEW c \in Conns, WriterTask(c)
  PROVE  FrameMoves
<1>0. /\ chan \in [Conns -> Seq(Item)] /\ rcvd \in [Conns -> Seq(Item)]
  BY DEF RelayInv, TypeOK
<1>1. /\ Busy' = Busy /\ cur' = cur /\ nextId' = nextId
      /\ store' = store /\ drained' = drained
  BY DEF WriterTask, WriteOne, ChannelClosed, WriterAborted, routeVars, Busy
<1>2. ASSUME rcvd' = rcvd, \A d \in Conns : Loses(chan[d], chan'[d]) PROVE FrameMoves
  BY <1>1, <1>2, LoseNothing, QuietIsMove
<1>3. CASE WriteOne(c)
  <2> DEFINE y == <<"chan", c>>  h == Head(chan[c])
  <2>1. chan[c] # << >>
    BY <1>3 DEF WriteOne
  <2>2. y \in Places /\ Line[y] = chan[c] /\ Line'[y] = chan'[c]
    BY LineNow
  <2>3. h \in Item
    BY <1>0, <2>1, TailLine
  <2>4. CASE sock[c] = "up"
    <3>1. rcvd' = [rcvd EXCEPT ![c] = Append(@, h)] /\ chan' = [chan EXCEPT ![c] = Tail(@)]
      BY <1>3, <2>4 DEF WriteOne
    <3>2. CASE h.kind \in FrameKinds
      <4>1. \A d \in Conns : d # c => chan'[d] = chan[d]
        BY <1>0, <3>1
      <4>2. \A x \in Places \ {y} : Line'[x] = Line[x]
        BY <1>1, <4>1, OneLine DEF Line
      <4>3. Leaving(Line, Line', y)
        BY <1>0, <2>1, <2>2, <3>1, <4>2 DEF Leaving
      <4>4. Delivering(c, y)
        BY <1>1, <2>2, <2>3, <3>1, <3>2, <4>3 DEF Delivering
      <4> QED
        BY <1>1, <2>2, <4>4 DEF FrameMoves
    <3>3. CASE h.kind \notin FrameKinds
      <4> HIDE DEF h
      <4>1. InboxOf(rcvd') = InboxOf(rcvd)
        BY <1>0, <2>3, <3>1, <3>3, UnroutedReceived
      <4>2. \A d \in Conns : Loses(chan[d], chan'[d])
        BY <1>0, <2>1, <3>1, QueueLoses
      <4> QED
        BY <1>1, <4>1, <4>2, LoseNothing, QuietIsMove
    <3> QED
      BY <3>2, <3>3
  <2>5. CASE sock[c] # "up"
    <3>1. /\ rcvd' = rcvd
          /\ chan' = [chan EXCEPT ![c] = Tail(@)] \/ chan' = [chan EXCEPT ![c] = << >>]
      BY <1>3, <2>5 DEF WriteOne
    <3>2. \A d \in Conns : Loses(chan[d], chan'[d])
      BY <1>0, <2>1, <3>1, QueueLoses
    <3> QED
      BY <1>2, <3>1, <3>2
  <2> QED
    BY <2>4, <2>5
<1>4. CASE ChannelClosed(c)
  BY <1>2, <1>4, LoseNothing DEF ChannelClosed
<1>5. CASE WriterAborted(c)
  <2>1. \A d \in Conns : Loses(chan[d], chan'[d])
    BY <1>0, <1>5, QueueLoses DEF WriterAborted
  <2> QED
    BY <1>2, <1>5, <2>1 DEF WriterAborted
<1> QED
  BY <1>3, <1>4, <1>5 DEF WriterTask

\* send_to_peer of a notice.
LEMMA NoticeSent ==
  ASSUME TypeOK, NEW p \in Peers, NEW m \in Item, m.kind \notin FrameKinds,
         SendToPeer(p, m)
  PROVE  \A c \in Conns : chan'[c] = chan[c] \/ Notes(chan[c], chan'[c])
<1>1. chan \in [Conns -> Seq(Item)] /\ registry[p] \in Conns \cup {NoConn}
  BY DEF TypeOK
<1>2. CASE chan' = chan
  BY <1>2
<1>3. CASE chan' # chan
  <2>1. registry[p] \in Conns /\ chan' = [chan EXCEPT ![registry[p]] = Append(@, m)]
    BY <1>1, <1>3 DEF SendToPeer
  <2>2. \A c \in Conns : chan'[c] = chan[c] \/ chan'[c] = Append(chan[c], m)
    BY <1>1, <2>1
  <2>3. \A c \in Conns : Notes(chan[c], Append(chan[c], m))
    BY <1>1, NoteLine
  <2> QED
    BY <2>2, <2>3
<1> QED
  BY <1>2, <1>3

LEMMA UnroutedKinds == {"error", "queued", "close"} \cap FrameKinds = {}
  BY DEF FrameKinds

\* Only the queue of p changes.
LEMMA StoreLine ==
  ASSUME NEW p \in Peers, \A q \in Peers : q # p => store'[q] = store[q],
         UNCHANGED <<chan, drained>>
  PROVE  \A x \in Places \ {<<"store", p>>} : Line'[x] = Line[x]
  BY OneLine DEF Line

\* The routed frame goes into the store of its addressee.
LEMMA StoringIsMove ==
  ASSUME RelayInv, NEW c \in Busy,
         store' = [store EXCEPT ![cur[c].to] = Enqueue(@, cur[c])],
         UNCHANGED <<nextId, chan, drained, rcvd>>,
         RouteDone(c) \/ RouteTo(c, "notify")
  PROVE  FrameMoves
<1> DEFINE p == cur[c].to  y == <<"store", p>>
<1>1. /\ c \in Conns /\ cur[c] \in Item /\ p \in Peers
      /\ store \in [Peers -> Seq(Item)]
  BY RoutedFrame DEF Busy, BusyIn, RelayInv, TypeOK
<1>2. Busy' = Busy \ {c} /\ \A d \in Busy' : cur'[d] = cur[d]
  BY <1>1, RouterMoves DEF RelayInv
<1>3. y \in Places /\ Line[y] = store[p] /\ Line'[y] = store'[p]
  BY <1>1, LineNow
<1>4. Gains(store[p], Enqueue(store[p], cur[c]), cur[c])
  BY <1>1, EnqueueLine
<1>5. store'[p] = Enqueue(store[p], cur[c]) /\ \A q \in Peers : q # p => store'[q] = store[q]
  BY <1>1
<1> HIDE DEF p
<1>6. \A x \in Places \ {y} : Line'[x] = Line[x]
  BY <1>1, <1>5, StoreLine
<1>7. Putting(Line, Busy, cur, Line', Busy', cur', c, y)
  BY <1>2, <1>3, <1>4, <1>5, <1>6 DEF Putting
<1> QED
  BY <1>1, <1>3, <1>7 DEF FrameMoves

LEMMA ReadMoves ==
  ASSUME RelayInv, NEW c \in Conns, NEW k \in ClientKinds, NEW f \in Peers, NEW p \in Peers,
         ReadFrame(c, k, f, p)
  PROVE  FrameMoves
<1> DEFINE m == [kind |-> k, id |-> nextId, src |-> c, from |-> f, to |-> p]
<1>1. /\ m \in Item /\ m.kind = k /\ m.id = nextId /\ m.src = c /\ m.to = p /\ m.from = f
      /\ k \in FrameKinds /\ PeerOf[c] \in Peers /\ TypeOK
  BY NewFrame, RelayAssumption DEF RelayInv
<1>2. /\ stage[c] = "idle" /\ nextId' = nextId + 1 /\ store' = store
      /\ drained' = drained /\ rcvd' = rcvd
  BY DEF ReadFrame
<1>3. CASE k = "large"
  <2>1. /\ SendToPeer(PeerOf[c], Notice("error", m)) /\ stage' = stage /\ cur' = cur
    BY <1>3 DEF ReadFrame, routeVars
  <2> HIDE DEF m
  <2>2. Notice("error", m) \in Item /\ Notice("error", m).kind = "error"
    BY <1>1, NoticeItem DEF Notice, Item
  <2>3. \A d \in Conns : chan'[d] = chan[d] \/ Notes(chan[d], chan'[d])
    BY <1>1, <2>1, <2>2, NoticeSent, UnroutedKinds
  <2>4. ASSUME NEW x \in Places
        PROVE  Line'[x] = Line[x] \/ (x[1] = "chan" /\ Notes(Line[x], Line'[x]))
    <3>1. ASSUME NEW q \in Peers, x = <<"store", q>> PROVE Line'[x] = Line[x]
      BY <1>2, <3>1, LineNow
    <3>2. ASSUME NEW d \in Conns, x = <<"drained", d>> PROVE Line'[x] = Line[x]
      BY <1>2, <3>2, LineNow
    <3>3. ASSUME NEW d \in Conns, x = <<"chan", d>>
          PROVE  x[1] = "chan" /\ (Line'[x] = Line[x] \/ Notes(Line[x], Line'[x]))
      BY <2>3, <3>3, LineNow
    <3> QED
      BY <3>1, <3>2, <3>3, LineValues
  <2>5. Noting(Line, Busy, cur, Line', Busy', cur')
    BY <2>1, <2>4 DEF Noting, Busy
  <2> QED
    BY <1>1, <1>2, <2>5 DEF FrameMoves
<1>4. CASE k # "large"
  <2>1. /\ cur' = [cur EXCEPT ![c] = m] /\ chan' = chan
        /\ stage' = [stage EXCEPT ![c] = IF registry[p] = NoConn THEN "store" ELSE "forward"]
    BY <1>4 DEF ReadFrame
  <2> HIDE DEF m
  <2>2. /\ stage \in [Conns -> Stages] /\ cur \in [Conns -> Item \cup {NoItem}]
    BY <1>1 DEF TypeOK
  <2>3. Busy' = Busy \cup {c} /\ c \notin Busy /\ \A d \in Busy : d \in Conns
    BY <1>2, <2>1, <2>2 DEF Busy, BusyIn
  <2>4. cur'[c] = m /\ \A d \in Conns \ {c} : cur'[d] = cur[d]
    BY <2>1, <2>2
  <2>5. Line' = Line
    BY <1>2, <2>1 DEF Line
  <2>6. Taking(Line, Busy, cur, nextId, Line', Busy', cur', c)
    BY <1>1, <2>3, <2>4, <2>5 DEF Taking
  <2>7. cur'[c].to \in Peers
    BY <1>1, <2>4
  <2> QED
    BY <1>2, <2>6, <2>7 DEF FrameMoves
<1> QED
  BY <1>3, <1>4

LEMMA RoutingMoves ==
  ASSUME RelayInv, NEW c \in Conns, Routing(c)
  PROVE  FrameMoves
<1>0. /\ TypeOK /\ chan \in [Conns -> Seq(Item)] /\ stage \in [Conns -> Stages]
      /\ cur \in [Conns -> Item \cup {NoItem}]
  BY DEF RelayInv, TypeOK
<1>1. nextId' = nextId /\ drained' = drained /\ rcvd' = rcvd
  BY DEF Routing, Forward, UnregisterAddressee, Requeue, StoreForAbsent, NotifyQueued
<1>2. ASSUME store' = store,
             \A d \in Conns : chan'[d] = chan[d] \/ Notes(chan[d], chan'[d]),
             Busy' \subseteq Busy, \A d \in Busy' : cur'[d] = cur[d]
      PROVE  FrameMoves
  <2>1. /\ \A p \in Peers : Loses(store[p], store'[p])
        /\ \A d \in Conns : Loses(drained[d], drained'[d])
    BY <1>1, <1>2, LoseNothing
  <2>2. \A d \in Conns : Loses(chan[d], chan'[d]) \/ Notes(chan[d], chan'[d])
    BY <1>2, LoseNothing
  <2> QED
    BY <1>1, <1>2, <2>1, <2>2, QuietIsMove
<1>3. CASE Forward(c)
  <2>1. stage[c] = "forward" /\ c \in Busy /\ store' = store
    BY <1>3 DEF Forward, Busy, BusyIn
  <2>2. CASE RxOpen(target[c])
    <3> DEFINE t == target[c]  y == <<"chan", t>>
    <3>1. chan' = [chan EXCEPT ![t] = Append(@, cur[c])] /\ RouteDone(c)
      BY <1>3, <2>2 DEF Forward
    <3>2. t \in Conns /\ cur[c] \in Item
      BY <2>1, TargetOfRouter, RoutedFrame
    <3>3. Busy' = Busy \ {c} /\ \A d \in Busy' : cur'[d] = cur[d]
      BY <1>0, <3>1, RouterMoves
    <3> HIDE DEF t
    <3>4. y \in Places /\ Line[y] = chan[t] /\ Line'[y] = chan'[t]
      BY <3>2, LineNow
    <3>5. chan'[t] = Append(chan[t], cur[c]) /\ \A d \in Conns : d # t => chan'[d] = chan[d]
      BY <1>0, <3>1, <3>2
    <3>6. Gains(chan[t], Append(chan[t], cur[c]), cur[c])
      BY <1>0, <3>2, AppendLine
    <3>7. \A x \in Places \ {y} : Line'[x] = Line[x]
      BY <1>1, <2>1, <3>2, <3>5, OneLine DEF Line
    <3>8. Putting(Line, Busy, cur, Line', Busy', cur', c, y)
      BY <2>1, <3>3, <3>4, <3>5, <3>6, <3>7 DEF Putting
    <3> QED
      BY <1>1, <3>4, <3>8 DEF FrameMoves
  <2>3. CASE ~RxOpen(target[c])
    <3>1. chan' = chan /\ (RouteDone(c) \/ RouteTo(c, "unregister"))
      BY <1>3, <2>3 DEF Forward
    <3>2. Busy' \subseteq Busy /\ \A d \in Busy' : cur'[d] = cur[d]
      BY <1>0, <2>1, <3>1, RouterMoves
    <3> QED
      BY <1>2, <2>1, <3>1, <3>2
  <2> QED
    BY <2>2, <2>3
<1>4. CASE UnregisterAddressee(c)
  <2>1. stage[c] = "unregister" /\ store' = store /\ chan' = chan /\ RouteTo(c, "requeue")
    BY <1>4 DEF UnregisterAddressee
  <2>2. c \in Busy
    BY <2>1 DEF Busy, BusyIn
  <2>3. Busy' = Busy /\ cur' = cur
    BY <1>0, <2>1, <2>2, RouterMoves
  <2> QED
    BY <1>2, <2>1, <2>3
<1>5. CASE Requeue(c) \/ StoreForAbsent(c)
  <2>1. /\ stage[c] \in {"requeue", "store"} /\ chan' = chan
        /\ store' = [store EXCEPT ![cur[c].to] = Enqueue(@, cur[c])]
        /\ RouteDone(c) \/ RouteTo(c, "notify")
    BY <1>5 DEF Requeue, StoreForAbsent
  <2>2. c \in Busy
    BY <2>1 DEF Busy, BusyIn
  <2> QED
    BY <1>1, <2>1, <2>2, StoringIsMove
<1>6. CASE NotifyQueued(c)
  <2>1. /\ SendToPeer(cur[c].from, Notice("queued", cur[c])) /\ RouteDone(c)
        /\ store' = store /\ stage[c] = "notify"
    BY <1>6 DEF NotifyQueued
  <2>2. cur[c] \in Item /\ cur[c].from \in Peers
    BY <2>1, RoutedFrame
  <2>3. Notice("queued", cur[c]) \in Item /\ Notice("queued", cur[c]).kind = "queued"
    BY <2>2, NoticeItem DEF Notice, Item
  <2>4. \A d \in Conns : chan'[d] = chan[d] \/ Notes(chan[d], chan'[d])
    BY <1>0, <2>1, <2>2, <2>3, NoticeSent, UnroutedKinds
  <2>5. Busy' \subseteq Busy /\ \A d \in Busy' : cur'[d] = cur[d]
    BY <1>0, <2>1, RouterMoves
  <2> QED
    BY <1>2, <2>1, <2>4, <2>5
<1> QED
  BY <1>3, <1>4, <1>5, <1>6 DEF Routing

LEMMA FrameMovesStep ==
  ASSUME RelayInv, FrameInv, [Next]_vars
  PROVE  FrameMoves
<1>0. TypeOK
  BY DEF RelayInv
<1>1. ASSUME UNCHANGED <<store, chan, drained, nextId, rcvd>>,
             Busy' \subseteq Busy, \A d \in Busy' : cur'[d] = cur[d]
      PROVE  FrameMoves
  BY <1>1, LoseNothing, QuietIsMove
<1>2. ASSUME NEW c \in Conns, ReaderTask(c) PROVE FrameMoves
  <2>1. CASE ReaderEnds(c)
    BY <1>1, <2>1 DEF ReaderEnds, routeVars, Busy
  <2>2. CASE ReaderAborted(c)
    <3>1. Busy' \subseteq Busy /\ \A d \in Busy' : cur'[d] = cur[d]
      BY <1>0, <2>2, RouterMoves DEF ReaderAborted
    <3> QED
      BY <1>1, <2>2, <3>1 DEF ReaderAborted
  <2> QED
    BY <1>2, <2>1, <2>2, ReadMoves, RoutingMoves DEF ReaderTask
<1>3. ASSUME NEW c \in Conns, ClientGone(c) \/ SocketGivesUp(c) PROVE FrameMoves
  BY <1>1, <1>3 DEF ClientGone, SocketGivesUp, routeVars, Busy
<1>4. CASE CloseAll
  <2> DEFINE close(c) == [kind |-> "close", id |-> 0, src |-> c,
                          from |-> PeerOf[c], to |-> PeerOf[c]]
  <2>1. \A c \in Conns : close(c) \in Item /\ close(c).kind = "close"
    BY RelayAssumption DEF Item
  <2>2. \A c \in Conns : chan'[c] = chan[c] \/ chan'[c] = Append(chan[c], close(c))
    BY <1>4 DEF CloseAll
  <2> HIDE DEF close
  <2>3. \A c \in Conns : Notes(chan[c], Append(chan[c], close(c)))
    BY <1>0, <2>1, NoteLine, UnroutedKinds DEF TypeOK
  <2>4. /\ store' = store /\ drained' = drained /\ nextId' = nextId /\ rcvd' = rcvd
        /\ Busy' = Busy /\ cur' = cur
    BY <1>4 DEF CloseAll, routeVars, Busy
  <2> QED
    BY <2>2, <2>3, <2>4, LoseNothing, QuietIsMove
<1>5. CASE UNCHANGED vars
  BY <1>1, <1>5 DEF vars, routeVars, Busy
<1> QED
  BY <1>2, <1>3, <1>4, <1>5, HandlerMoves, WriterMoves DEF Next

-----------------------------------------------------------------------------
(* The invariant on frames, and the relay as a mailbox service *)

LEMMA NumberedFrames ==
  ASSUME TypeOK, RouterShape
  PROVE  \A a \in HeldIn(Line, Busy, cur) : a.id \in Nat
<1>1. \A c \in Busy : cur[c] \in Item
  BY DEF Busy, BusyIn, TypeOK, RouterShape
<1>2. \A x \in Places : Line[x] \in Seq(Item)
  <2>1. /\ \A p \in Peers : store[p] \in Seq(Item)
        /\ \A c \in Conns : chan[c] \in Seq(Item) /\ drained[c] \in Seq(Item)
    BY DEF TypeOK
  <2>2. ASSUME NEW x \in Places PROVE Line[x] \in Seq(Item)
    <3>1. ASSUME NEW p \in Peers, x = <<"store", p>> PROVE Line[x] \in Seq(Item)
      BY <2>1, <3>1, LineNow
    <3>2. ASSUME NEW c \in Conns, x = <<"chan", c>> \/ x = <<"drained", c>>
          PROVE  Line[x] \in Seq(Item)
      BY <2>1, <3>2, LineNow
    <3> QED
      BY <3>1, <3>2, LineValues
  <2> QED
    BY <2>2
<1>3. \A x \in Places : \A m \in ItemsOf(Line[x]) : m \in Item
  BY <1>2, ElementOfSeq DEF ItemsOf
<1>4. \A m \in Item : m.id \in Nat
  BY DEF Item
<1> QED
  BY <1>1, <1>3, <1>4 DEF HeldIn, Routed

LEMMA FrameInvStep == RelayInv /\ FrameInv /\ [Next]_vars => FrameInv'
<1> SUFFICES ASSUME RelayInv, FrameInv, [Next]_vars PROVE FrameInv'
  OBVIOUS
<1> DEFINE S == FrameShape(Line', Busy', cur', nextId')
<1>1. nextId \in Nat /\ \A a \in HeldIn(Line, Busy, cur) : a.id \in Nat
  BY NumberedFrames DEF RelayInv, TypeOK
<1>2. FrameShape(Line, Busy, cur, nextId)
  BY DEF FrameInv, Busy
<1>3. FrameMoves
  BY FrameMovesStep
<1>4. ASSUME Quiet(Line, Busy, cur, Line', Busy', cur'),
             nextId' = nextId \/ nextId' = nextId + 1
      PROVE  S
  <2>1. nextId' \in Nat /\ nextId <= nextId'
    BY <1>1, <1>4
  <2> QED
    BY <1>1, <1>2, <1>4, <2>1, QuietMove
<1>5. ASSUME NEW c \in Conns, NEW y \in Places, nextId' = nextId,
             Putting(Line, Busy, cur, Line', Busy', cur', c, y)
      PROVE  S
  BY <1>2, <1>5, PutMove
<1>6. ASSUME NEW y \in Places, NEW z \in Places, nextId' = nextId,
             Draining(Line, Line', y, z), Busy' = Busy, cur' = cur
      PROVE  S
  BY <1>2, <1>6, DrainMove
<1>7. ASSUME NEW c \in Conns, nextId' = nextId + 1,
             Taking(Line, Busy, cur, nextId, Line', Busy', cur', c)
      PROVE  S
  BY <1>1, <1>2, <1>7, TakeMove
<1>8. ASSUME NEW c \in Conns, NEW y \in Places, nextId' = nextId, Delivering(c, y)
      PROVE  S
  <2>1. Quiet(Line, Busy, cur, Line', Busy, cur) /\ Busy' = Busy /\ cur' = cur
    BY <1>8, LeaveIsQuiet DEF Delivering
  <2> QED
    BY <1>4, <1>8, <2>1
<1>9. ASSUME Noting(Line, Busy, cur, Line', Busy', cur'), nextId' = nextId + 1 PROVE S
  BY <1>4, <1>9, NotingMove
<1>10. S
  BY <1>3, <1>4, <1>5, <1>6, <1>7, <1>8, <1>9 DEF FrameMoves
<1> QED
  BY <1>10 DEF FrameInv, Busy

LEMMA FrameInvInit == Init => FrameInv
<1> SUFFICES ASSUME Init PROVE FrameInv
  OBVIOUS
<1>0. /\ \A p \in Peers : store[p] = << >>
      /\ \A c \in Conns : chan[c] = << >> /\ drained[c] = << >>
  BY DEF Init
<1>1. ASSUME NEW x \in Places PROVE Line[x] = << >>
  <2>1. ASSUME NEW p \in Peers, x = <<"store", p>> PROVE Line[x] = << >>
    BY <1>0, <2>1, LineNow
  <2>2. ASSUME NEW c \in Conns, x = <<"chan", c>> \/ x = <<"drained", c>>
        PROVE  Line[x] = << >>
    BY <1>0, <2>2, LineNow
  <2> QED
    BY <2>1, <2>2, LineValues
<1>2. Busy = {}
  BY DEF Init, Busy, BusyIn
<1>3. \A x \in Places : ItemsOf(Line[x]) = {} /\ Ordered(Line[x])
  BY <1>1, EmptyItems DEF Ordered
<1> QED
  BY <1>2, <1>3 DEF FrameInv, FrameShape, LineShape, ApartShape, RouterHolds, Routed, Busy

LEMMA FrameInvariant == Spec => [](RelayInv /\ FrameInv)
  BY RelayInvInit, RelayInvStep, FrameInvInit, FrameInvStep, PTL DEF Spec

\* Frames of one connection never overtake each other in the store, in a
\* drained queue or in a channel, whatever is replaced, requeued or evicted.
THEOREM RelaySourceOrder == Spec => []SourceOrder
<1>1. FrameInv => SourceOrder
  <2> SUFFICES ASSUME FrameInv PROVE SourceOrder
    OBVIOUS
  <2>1. \A x \in Places : Ordered(Line[x])
    BY DEF FrameInv, FrameShape, LineShape
  <2>2. \A q : Ordered(q) => InOrder(q)
    BY DEF Ordered, InOrder, Before
  <2>3. /\ \A p \in Peers : Ordered(store[p])
        /\ \A c \in Conns : Ordered(chan[c]) /\ Ordered(drained[c])
    BY <2>1, LineNow
  <2> QED
    BY <2>2, <2>3 DEF SourceOrder
<1> QED
  BY <1>1, FrameInvariant, PTL

\* The frames the server holds, as the refinement mapping counts them.
HeldIsIn == Held = HeldIn(Line, Busy, cur)

LEMMA HeldNow == HeldIsIn
<1>1. InRouting = {cur[c] : c \in Busy}
  BY DEF InRouting, Busy, BusyIn
<1>2. \A m : m \in UNION {ItemsOf(Line[x]) : x \in Places} <=>
        \/ \E p \in Peers : m \in ItemsOf(store[p])
        \/ \E c \in Conns : m \in ItemsOf(chan[c]) \cup ItemsOf(drained[c])
  <2>1. ASSUME NEW m, NEW x \in Places, m \in ItemsOf(Line[x])
        PROVE  \/ \E p \in Peers : m \in ItemsOf(store[p])
               \/ \E c \in Conns : m \in ItemsOf(chan[c]) \cup ItemsOf(drained[c])
    <3>1. ASSUME NEW p \in Peers, x = <<"store", p>> PROVE m \in ItemsOf(store[p])
      BY <2>1, <3>1, LineNow
    <3>2. ASSUME NEW c \in Conns, x = <<"chan", c>> \/ x = <<"drained", c>>
          PROVE  m \in ItemsOf(chan[c]) \cup ItemsOf(drained[c])
      BY <2>1, <3>2, LineNow
    <3> QED
      BY <3>1, <3>2, LineValues
  <2>2. ASSUME NEW m, NEW p \in Peers, m \in ItemsOf(store[p])
        PROVE  \E x \in Places : m \in ItemsOf(Line[x])
    BY <2>2, LineNow
  <2>3. ASSUME NEW m, NEW c \in Conns, m \in ItemsOf(chan[c]) \cup ItemsOf(drained[c])
        PROVE  \E x \in Places : m \in ItemsOf(Line[x])
    BY <2>3, LineNow
  <2> QED
    BY <2>1, <2>2, <2>3
<1>3. UNION {ItemsOf(Line[x]) : x \in Places} =
        (UNION {ItemsOf(store[p]) : p \in Peers})
          \cup (UNION {ItemsOf(chan[c]) \cup ItemsOf(drained[c]) : c \in Conns})
  <2> DEFINE U == UNION {ItemsOf(Line[x]) : x \in Places}
             V == UNION {ItemsOf(store[p]) : p \in Peers}
             W == UNION {ItemsOf(chan[c]) \cup ItemsOf(drained[c]) : c \in Conns}
  <2>1. \A m : m \in V <=> \E p \in Peers : m \in ItemsOf(store[p])
    OBVIOUS
  <2>2. \A m : m \in W <=> \E c \in Conns : m \in ItemsOf(chan[c]) \cup ItemsOf(drained[c])
    OBVIOUS
  <2>3. \A m : m \in U <=> m \in V \/ m \in W
    BY <1>2, <2>1, <2>2
  <2> HIDE DEF U, V, W
  <2>4. U = V \cup W
    BY <2>3
  <2> QED
    BY <2>4 DEF U, V, W
<1>4. InRouting \cup (UNION {ItemsOf(store[p]) : p \in Peers})
        \cup (UNION {ItemsOf(chan[c]) \cup ItemsOf(drained[c]) : c \in Conns})
      = {cur[c] : c \in Busy} \cup (UNION {ItemsOf(Line[x]) : x \in Places})
  BY <1>1, <1>3
<1> QED
  BY <1>4, Zenon DEF HeldIsIn, Held, HeldIn

PendingIn(H) == {<<m.id, m.to>> : m \in H}

\* What a delivered frame leaves pending.
LEMMA Delivered ==
  ASSUME NEW H, NEW G, NEW m, H = {m} \cup G, \A a \in G : a.id # m.id
  PROVE  PendingIn(G) = PendingIn(H) \ {<<m.id, m.to>>}
  BY DEF PendingIn

LEMMA MailboxInit == Init => Service!Init
<1> SUFFICES ASSUME Init PROVE Service!Init
  OBVIOUS
<1>1. nextId - 1 = 0
  BY DEF Init
<1>2. HeldIn(Line, Busy, cur) = {}
  <2>1. \A x \in Places : ItemsOf(Line[x]) = {}
    <3>1. /\ \A p \in Peers : store[p] = << >>
          /\ \A c \in Conns : chan[c] = << >> /\ drained[c] = << >>
      BY DEF Init
    <3>2. ASSUME NEW x \in Places PROVE Line[x] = << >>
      <4>1. ASSUME NEW p \in Peers, x = <<"store", p>> PROVE Line[x] = << >>
        BY <3>1, <4>1, LineNow
      <4>2. ASSUME NEW c \in Conns, x = <<"chan", c>> \/ x = <<"drained", c>>
            PROVE  Line[x] = << >>
        BY <3>1, <4>2, LineNow
      <4> QED
        BY <4>1, <4>2, LineValues
    <3> QED
      BY <3>2, EmptyItems
  <2>2. Busy = {}
    BY DEF Init, Busy, BusyIn
  <2> QED
    BY <2>1, <2>2 DEF HeldIn, Routed
<1>3. InboxOf(rcvd) = [p \in Peers |-> {}]
  <2>1. \A c \in Conns : Routed(ItemsOf(rcvd[c])) = {}
    BY EmptyItems DEF Init, Routed
  <2> QED
    BY <2>1 DEF InboxOf
<1> QED
  BY <1>1, <1>2, <1>3, HeldNow DEF HeldIsIn, Service!Init, InboxOf

LEMMA MailboxStep ==
  ASSUME RelayInv, RelayInv', FrameInv, [Next]_vars
  PROVE  [Service!Next]_Service!vars
<1> DEFINE H == HeldIn(Line, Busy, cur)
           G == HeldIn(Line', Busy', cur')
<1>1. /\ {<<m.id, m.to>> : m \in Held} = PendingIn(H)
      /\ {<<m.id, m.to>> : m \in Held'} = PendingIn(G)
      /\ FrameShape(Line, Busy, cur, nextId) /\ nextId \in Nat
      /\ PeerOf \in [Conns -> Peers]
  <2>1. HeldIsIn'
    BY HeldNow, PTL
  <2>2. Held' = G /\ Held = H
    BY <2>1, HeldNow DEF HeldIsIn
  <2> QED
    BY <2>2, RelayAssumption DEF FrameInv, Busy, RelayInv, TypeOK, PendingIn
<1>2. /\ InboxOf(rcvd) = [p \in Peers |->
           {m.id : m \in UNION {Routed(ItemsOf(rcvd[c])) : c \in {d \in Conns : PeerOf[d] = p}}}]
      /\ InboxOf(rcvd') = [p \in Peers |->
           {m.id : m \in UNION {Routed(ItemsOf(rcvd'[c])) : c \in {d \in Conns : PeerOf[d] = p}}}]
  BY DEF InboxOf
<1>3. ASSUME G \subseteq H, nextId' = nextId, InboxOf(rcvd') = InboxOf(rcvd)
      PROVE  Service!Drop
  <2>1. PendingIn(G) \subseteq PendingIn(H)
    BY <1>3 DEF PendingIn
  <2> QED
    BY <1>1, <1>3, <1>2, <2>1 DEF Service!Drop
<1>4. ASSUME NEW c \in Conns, Taking(Line, Busy, cur, nextId, Line', Busy', cur', c),
             NEW p \in Peers, p = cur'[c].to, nextId' = nextId + 1, InboxOf(rcvd') = InboxOf(rcvd)
      PROVE  Service!Take(p)
  <2>0. cur'[c].id = nextId
    BY <1>4 DEF Taking
  <2>1. G = H \cup {cur'[c]}
    BY <1>1, <1>4, TakeMove
  <2>2. PendingIn(G) = PendingIn(H) \cup {<<nextId, p>>}
    BY <1>4, <2>0, <2>1 DEF PendingIn
  <2>3. (nextId - 1)' = (nextId - 1) + 1 /\ (nextId - 1)' = nextId
    BY <1>1, <1>4
  <2> QED
    BY <1>1, <1>4, <1>2, <2>2, <2>3 DEF Service!Take
<1>5. ASSUME Noting(Line, Busy, cur, Line', Busy', cur'),
             nextId' = nextId + 1, InboxOf(rcvd') = InboxOf(rcvd), NEW p \in Peers
      PROVE  Service!Take(p)
  <2>1. G = H
    BY <1>5, NotingMove
  <2>2. (nextId - 1)' = (nextId - 1) + 1
    BY <1>1, <1>5
  <2> QED
    BY <1>1, <1>5, <1>2, <2>1, <2>2 DEF Service!Take
<1>6. ASSUME NEW c \in Conns, NEW y \in Places, Delivering(c, y), nextId' = nextId
      PROVE  Service!Deliver(PeerOf[c])
  <2> DEFINE h == Head(Line[y])
  <2>1. /\ Leaving(Line, Line', y) /\ Busy' = Busy /\ cur' = cur /\ h.kind \in FrameKinds
        /\ y = <<"chan", c>> \/ y = <<"drained", c>>
    BY <1>6 DEF Delivering
  <2>2. H = {h} \cup G /\ \A a \in G : a.id # h.id
    BY <1>1, <2>1, LeaveMove
  <2>3. PendingIn(G) = PendingIn(H) \ {<<h.id, h.to>>} /\ <<h.id, h.to>> \in PendingIn(H)
    BY <2>2, Delivered DEF PendingIn
  <2>4. h.to = PeerOf[c]
    <3>1. h \in ItemsOf(Line[y])
      BY <2>1, TailLine DEF Leaving
    <3>2. Line[y] = chan[c] \/ Line[y] = drained[c]
      BY <2>1, LineNow
    <3> QED
      BY <3>1, <3>2 DEF RelayInv, HeldForAddressee
  <2>5. PICK m \in Item : /\ m.kind \in FrameKinds /\ m.id = h.id
                          /\ rcvd' = [rcvd EXCEPT ![c] = Append(@, m)]
    BY <1>6 DEF Delivering
  <2>6. InboxOf(rcvd') = [InboxOf(rcvd) EXCEPT ![PeerOf[c]] = @ \cup {h.id}]
    <3>1. rcvd \in InboxLogs /\ rcvd' = Logged(rcvd, c, m)
      BY <2>5 DEF RelayInv, TypeOK, InboxLogs, Logged
    <3> HIDE DEF h
    <3>2. m \in Item /\ m.kind \in FrameKinds
      BY <2>5
    <3>3. InboxOf(rcvd') = [InboxOf(rcvd) EXCEPT ![PeerOf[c]] = @ \cup {m.id}]
      BY <3>1, <3>2, RoutedReceived
    <3> QED
      BY <2>5, <3>3
  <2> HIDE DEF h, H, G
  <2> DEFINE e == <<h.id, h.to>>
  <2>7. e \in PendingIn(H) /\ e[2] = PeerOf[c] /\ e[1] = h.id
    BY <2>3, <2>4
  <2>8. PendingIn(G) = PendingIn(H) \ {e}
    BY <2>3
  <2>9. InboxOf(rcvd') = [InboxOf(rcvd) EXCEPT ![PeerOf[c]] = @ \cup {e[1]}]
    BY <2>6, <2>7
  <2> HIDE DEF e
  <2>10. nextId' - 1 = nextId - 1
    BY <1>6
  <2> QED
    BY <1>1, <1>2, <2>7, <2>8, <2>9, <2>10 DEF Service!Deliver
<1>7. FrameMoves
  BY FrameMovesStep
<1>8. CASE nextId' = nextId /\ InboxOf(rcvd') = InboxOf(rcvd)
  <2>1. ASSUME Quiet(Line, Busy, cur, Line', Busy', cur') PROVE G \subseteq H
    <3>1. nextId <= nextId
      BY <1>1
    <3> QED
      BY <1>1, <2>1, <3>1, QuietMove
  <2>2. ASSUME NEW c \in Conns, NEW y \in Places,
               Putting(Line, Busy, cur, Line', Busy', cur', c, y)
        PROVE  G \subseteq H
    BY <2>2, PutMove
  <2>3. ASSUME NEW y \in Places, NEW z \in Places, Draining(Line, Line', y, z),
               Busy' = Busy, cur' = cur
        PROVE  G \subseteq H
    BY <2>3, DrainMove
  <2>4. ASSUME G \subseteq H PROVE Service!Next
    BY <1>3, <1>8, <2>4 DEF Service!Next
  <2> QED
    BY <1>1, <1>6, <1>7, <1>8, <2>1, <2>2, <2>3, <2>4 DEF FrameMoves, Service!Next
<1>9. CASE nextId' = nextId + 1 /\ InboxOf(rcvd') = InboxOf(rcvd)
  <2>1. nextId' # nextId
    BY <1>1, <1>9
  <2>2. ASSUME NEW c \in Conns, NEW p \in Peers, p = cur'[c].to,
               Taking(Line, Busy, cur, nextId, Line', Busy', cur', c)
        PROVE  Service!Next
    BY <1>4, <1>9, <2>2 DEF Service!Next
  <2>3. ASSUME NEW p \in Peers, Noting(Line, Busy, cur, Line', Busy', cur')
        PROVE  Service!Next
    BY <1>5, <1>9, <2>3 DEF Service!Next
  <2> QED
    BY <1>7, <2>1, <2>2, <2>3 DEF FrameMoves
<1>10. CASE \E c \in Conns, y \in Places : nextId' = nextId /\ Delivering(c, y)
  BY <1>1, <1>6, <1>10 DEF Service!Next
<1> QED
  BY <1>7, <1>8, <1>9, <1>10 DEF FrameMoves

\* The relay implements the mailbox service: a frame is delivered to its
\* addressee or to nobody, at most once, whatever is replaced, aborted,
\* requeued or evicted.
THEOREM RelayIsAMailbox == Spec => AtMostOnceToAddressee
<1>1. Init => Service!Init
  BY MailboxInit
<1>2. RelayInv /\ RelayInv' /\ FrameInv /\ [Next]_vars => [Service!Next]_Service!vars
  BY MailboxStep
<1>3. Spec => [](RelayInv /\ FrameInv)
  BY FrameInvariant
<1> QED
  BY <1>1, <1>2, <1>3, PTL DEF Spec, AtMostOnceToAddressee, Service!Spec

\* Every variable of the relay keeps its type.
THEOREM RelayTypeCorrect == Spec => []TypeOK
<1>1. RelayInv => TypeOK
  BY DEF RelayInv
<1> QED
  BY <1>1, RelayInvariant, PTL

\* Whatever connections replace each other, fail or are aborted, an entry of the
\* registry belongs to a handler of that peer that has still to remove it.
THEOREM RelayNoDanglingEntry == Spec => []NoDanglingEntry
<1>1. RelayInv => NoDanglingEntry
  BY DEF RelayInv
<1> QED
  BY <1>1, RelayInvariant, PTL

\* The server never holds a frame in the queue or the channel of another peer
\* than its addressee, however stale the sender a router has cloned.
THEOREM RelayHeldForAddressee == Spec => []HeldForAddressee
<1>1. RelayInv => HeldForAddressee
  BY DEF RelayInv
<1> QED
  BY <1>1, RelayInvariant, PTL

\* No queue of the store exceeds its cap, for every cap including zero.
THEOREM RelayQueueBound == Spec => []QueueBound
<1>1. RelayInv => QueueBound
  BY DEF RelayInv
<1> QED
  BY <1>1, RelayInvariant, PTL
=============================================================================
