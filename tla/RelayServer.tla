----------------------------- MODULE RelayServer -----------------------------
(***************************************************************************)
(* The relay server of termchat-relay: the peer registry, the tasks that   *)
(* serve one WebSocket connection (handle_socket, its writer task and its  *)
(* reader task), the routing of payloads and room frames, and the          *)
(* store-and-forward queues.                                               *)
(*                                                                         *)
(* A connection is one accepted socket and is used once: a client that     *)
(* reconnects comes back on another connection with the same peer id.      *)
(* Every await at which another task can get in between is a step          *)
(* boundary; what runs between two of them is one action.                  *)
(***************************************************************************)
EXTENDS Naturals, Sequences

CONSTANTS
  Peers,          \* peer ids
  Conns,          \* accepted sockets
  NoConn,         \* "no connection": an absent registry entry
  NoItem,         \* "no item": a reader that routes nothing
  PeerOf,         \* the peer id in the Register frame of each connection
  ClientKinds,    \* the kinds of frame the clients send
  Senders,        \* bound: the connections whose clients send frames
  Leavers,        \* bound: the connections whose clients may go away
  MaxQueueSize,   \* RelayConfig::max_queue_size
  MaxItems,       \* bound: frames read from the clients over a behaviour
  MaxCloseAlls    \* bound: calls of close_all_connections

\* "payload": a RelayPayload within max_payload_size; "large": one above it;
\* "room": JoinApproved or JoinDenied for a peer; "join": a JoinRequest, whose
\* addressee is the admin RoomRegistry::get_admin returned.
FrameKinds == {"payload", "large", "room", "join"}

ASSUME RelayAssumption ==
  /\ NoConn \notin Conns
  /\ PeerOf \in [Conns -> Peers]
  /\ ClientKinds \subseteq FrameKinds
  /\ Senders \subseteq Conns /\ Leavers \subseteq Conns
  /\ MaxQueueSize \in Nat
  /\ MaxItems \in Nat
  /\ MaxCloseAlls \in Nat

\* What travels to a client: a routed frame, or a notice of the server about it.
\* id numbers the frames in the order the server reads them; src is the
\* connection a frame was read from and from the peer id attached to it.
Item == [kind : FrameKinds \cup {"queued", "error", "close"},
         id : Nat, src : Conns, from : Peers, to : Peers]
ASSUME NoItemAssumption == NoItem \notin Item

VARIABLES
  registry,   \* RelayState::connections: the connection whose sender is registered
  store,      \* MessageStore::queues
  nextId,     \* the number of the next frame read (numbering only)
  closeAlls,  \* calls of close_all_connections so far
  sock,       \* "up"; once the client is gone, "down" if the network stack says
              \* so (closed or reset), "silent" as long as nobody says so
  pc,         \* where handle_socket stands
  writer,     \* the writer task: "none", "run", "aborted", "end"
  reader,     \* the reader task: likewise
  chan,       \* the unbounded channel from the routers to the writer task
  drained,    \* what drain() returned and has not been written yet
  stage,      \* where the reader's routing of a frame stands
  target,     \* the cloned sender that routing holds
  cur,        \* the frame being routed
  rcvd        \* what has been written to a live socket, per connection

connVars  == <<sock, pc, writer, reader>>
routeVars == <<stage, target, cur>>
vars == <<registry, store, nextId, closeAlls, connVars, chan, drained,
          routeVars, rcvd>>

Pcs == {"accept", "ack", "drain", "deliver", "select", "cleanup", "done"}
TaskStates == {"none", "run", "aborted", "end"}
Stages == {"idle", "forward", "unregister", "requeue", "store", "notify"}

TypeOK ==
  /\ registry \in [Peers -> Conns \cup {NoConn}]
  /\ store \in [Peers -> Seq(Item)]
  /\ nextId \in Nat
  /\ closeAlls \in Nat
  /\ sock \in [Conns -> {"up", "down", "silent"}]
  /\ pc \in [Conns -> Pcs]
  /\ writer \in [Conns -> TaskStates]
  /\ reader \in [Conns -> TaskStates]
  /\ chan \in [Conns -> Seq(Item)]
  /\ drained \in [Conns -> Seq(Item)]
  /\ stage \in [Conns -> Stages]
  /\ target \in [Conns -> Conns \cup {NoConn}]
  /\ cur \in [Conns -> Item \cup {NoItem}]
  /\ rcvd \in [Conns -> Seq(Item)]

Init ==
  /\ registry = [p \in Peers |-> NoConn]
  /\ store = [p \in Peers |-> << >>]
  /\ nextId = 1
  /\ closeAlls = 0
  /\ sock = [c \in Conns |-> "up"]
  /\ pc = [c \in Conns |-> "accept"]
  /\ writer = [c \in Conns |-> "none"]
  /\ reader = [c \in Conns |-> "none"]
  /\ chan = [c \in Conns |-> << >>]
  /\ drained = [c \in Conns |-> << >>]
  /\ stage = [c \in Conns |-> "idle"]
  /\ target = [c \in Conns |-> NoConn]
  /\ cur = [c \in Conns |-> NoItem]
  /\ rcvd = [c \in Conns |-> << >>]

-----------------------------------------------------------------------------
(* Helpers *)

\* The receiving half of a connection's channel exists: handle_socket holds it
\* until it spawns the writer task, which then owns it. A send fails without it.
RxOpen(c) ==
  \/ writer[c] \in {"run", "aborted"}
  \/ writer[c] = "none" /\ pc[c] \in {"ack", "drain", "deliver", "cleanup"}

\* Mutant: the handler keeps a sender of its own channel.
HasSenderKept(c) == c \in Conns

\* A sender of the channel still exists, in the registry or cloned by a router.
HasSender(c) ==
  \/ registry[PeerOf[c]] = c
  \/ \E r \in Conns : target[r] = c

\* Mutant: a new message goes to the front of the queue.
EnqueueFront(q, m) ==
  LET r == <<m>> \o q IN
  IF Len(r) > MaxQueueSize THEN SubSeq(r, 1, MaxQueueSize) ELSE r

\* MessageStore::enqueue on one queue: the oldest goes when the cap is passed.
Enqueue(q, m) ==
  IF Len(q) + 1 > MaxQueueSize THEN Tail(Append(q, m)) ELSE Append(q, m)

\* send_to_peer: look the peer up and send, ignoring a failure.
SendToPeer(p, m) ==
  LET c == registry[p] IN
  chan' = IF c # NoConn /\ RxOpen(c) THEN [chan EXCEPT ![c] = Append(@, m)]
                                     ELSE chan

\* A server notice about frame m, addressed to the peer that sent it.
Notice(kind, m) == [m EXCEPT !.kind = kind, !.to = m.from]

\* The reader is done with its frame and drops the sender it cloned.
RouteDone(c) ==
  /\ stage' = [stage EXCEPT ![c] = "idle"]
  /\ target' = [target EXCEPT ![c] = NoConn]
  /\ cur' = [cur EXCEPT ![c] = NoItem]

RouteTo(c, s) ==
  /\ stage' = [stage EXCEPT ![c] = s]
  /\ target' = [target EXCEPT ![c] = NoConn]
  /\ UNCHANGED cur

-----------------------------------------------------------------------------
(* handle_socket *)

\* wait_for_register returns None: the client left, or its first frame is no
\* usable Register.
RegisterRefused(c) ==
  /\ pc[c] = "accept"
  /\ pc' = [pc EXCEPT ![c] = "done"]
  /\ UNCHANGED <<registry, store, nextId, closeAlls, sock, writer, reader,
                 chan, drained, routeVars, rcvd>>

\* wait_for_register returns the peer id, and register() inserts the sender of
\* a new channel, dropping the one it replaces.
Register(c) ==
  /\ pc[c] = "accept"
  /\ sock[c] = "up"
  /\ registry' = [registry EXCEPT ![PeerOf[c]] = c]
  /\ pc' = [pc EXCEPT ![c] = "ack"]
  /\ UNCHANGED <<store, nextId, closeAlls, sock, writer, reader, chan,
                 drained, routeVars, rcvd>>

\* Mutant: the failed acknowledgment returns without unregister().
SendRegisteredNoUnregister(c) ==
  /\ pc[c] = "ack"
  /\ \/ pc' = [pc EXCEPT ![c] = "drain"]
     \/ /\ sock[c] = "down"
        /\ pc' = [pc EXCEPT ![c] = "done"]
  /\ UNCHANGED <<registry, store, nextId, closeAlls, sock, writer, reader,
                 chan, drained, routeVars, rcvd>>

\* The Registered frame goes straight to the socket. A write to a socket whose
\* client is gone may fail or be swallowed by the network stack.
SendRegistered(c) ==
  /\ pc[c] = "ack"
  /\ \/ pc' = [pc EXCEPT ![c] = "drain"]
     \/ /\ sock[c] = "down"
        /\ pc' = [pc EXCEPT ![c] = "cleanup"]
  /\ UNCHANGED <<registry, store, nextId, closeAlls, sock, writer, reader,
                 chan, drained, routeVars, rcvd>>

\* Mutant: drain copies the queue and leaves it in place.
DrainCopy(c) ==
  /\ pc[c] = "drain"
  /\ drained' = [drained EXCEPT ![c] = store[PeerOf[c]]]
  /\ pc' = [pc EXCEPT ![c] = "deliver"]
  /\ UNCHANGED <<registry, store, nextId, closeAlls, sock, writer, reader, chan,
                 routeVars, rcvd>>

\* Mutant: drain has no queue to return for a peer nothing was stored for.
DrainNoDefault(c) ==
  /\ pc[c] = "drain"
  /\ drained' = [drained EXCEPT ![c] = IF store[PeerOf[c]] = << >> THEN NoItem
                                       ELSE store[PeerOf[c]]]
  /\ store' = [store EXCEPT ![PeerOf[c]] = << >>]
  /\ pc' = [pc EXCEPT ![c] = "deliver"]
  /\ UNCHANGED <<registry, nextId, closeAlls, sock, writer, reader, chan,
                 routeVars, rcvd>>

\* MessageStore::drain.
Drain(c) ==
  /\ pc[c] = "drain"
  /\ drained' = [drained EXCEPT ![c] = store[PeerOf[c]]]
  /\ store' = [store EXCEPT ![PeerOf[c]] = << >>]
  /\ pc' = [pc EXCEPT ![c] = "deliver"]
  /\ UNCHANGED <<registry, nextId, closeAlls, sock, writer, reader, chan,
                 routeVars, rcvd>>

\* One round of the drain loop: whatever was queued leaves as a RelayPayload.
\* A failed write ends the loop and drops the rest.
DeliverQueued(c) ==
  /\ pc[c] = "deliver"
  /\ drained[c] # << >>
  /\ \/ /\ sock[c] = "up"
        /\ rcvd' = [rcvd EXCEPT ![c] =
                      Append(@, [Head(drained[c]) EXCEPT !.kind = "payload"])]
        /\ drained' = [drained EXCEPT ![c] = Tail(@)]
     \/ /\ sock[c] # "up"
        /\ \/ drained' = [drained EXCEPT ![c] = Tail(@)]
           \/ sock[c] = "down" /\ drained' = [drained EXCEPT ![c] = << >>]
        /\ UNCHANGED rcvd
  /\ UNCHANGED <<registry, store, nextId, closeAlls, connVars, chan, routeVars>>

\* The queue is delivered: the writer and the reader task start.
SpawnTasks(c) ==
  /\ pc[c] = "deliver"
  /\ drained[c] = << >>
  /\ pc' = [pc EXCEPT ![c] = "select"]
  /\ writer' = [writer EXCEPT ![c] = "run"]
  /\ reader' = [reader EXCEPT ![c] = "run"]
  /\ UNCHANGED <<registry, store, nextId, closeAlls, sock, chan, drained,
                 routeVars, rcvd>>

\* Mutant: the handler only waits for the writer task.
TaskEndedWriterOnly(c) ==
  /\ pc[c] = "select"
  /\ writer[c] = "end"
  /\ reader' = [reader EXCEPT ![c] = IF @ = "run" THEN "aborted" ELSE @]
  /\ pc' = [pc EXCEPT ![c] = "cleanup"]
  /\ UNCHANGED <<registry, store, nextId, closeAlls, sock, writer, chan, drained,
                 routeVars, rcvd>>

\* select!: one of the tasks has ended, the other is aborted.
TaskEnded(c) ==
  /\ pc[c] = "select"
  /\ \/ /\ reader[c] = "end"
        /\ writer' = [writer EXCEPT ![c] = IF @ = "run" THEN "aborted" ELSE @]
        /\ UNCHANGED reader
     \/ /\ writer[c] = "end"
        /\ reader' = [reader EXCEPT ![c] = IF @ = "run" THEN "aborted" ELSE @]
        /\ UNCHANGED writer
  /\ pc' = [pc EXCEPT ![c] = "cleanup"]
  /\ UNCHANGED <<registry, store, nextId, closeAlls, sock, chan, drained,
                 routeVars, rcvd>>

\* unregister() by peer id and return: if no writer task was ever spawned, the
\* channel goes with the frame of the function.
Cleanup(c) ==
  /\ pc[c] = "cleanup"
  /\ registry' = [registry EXCEPT ![PeerOf[c]] = NoConn]
  /\ pc' = [pc EXCEPT ![c] = "done"]
  /\ chan' = IF writer[c] = "none" THEN [chan EXCEPT ![c] = << >>] ELSE chan
  /\ UNCHANGED <<store, nextId, closeAlls, sock, writer, reader, drained,
                 routeVars, rcvd>>

-----------------------------------------------------------------------------
(* The writer task *)

\* Takes one item from the channel and writes it. A Close frame makes the
\* client leave; a failed write ends the task, and the channel goes with it. What
\* is written to a client whose silence nobody has noticed is swallowed.
WriteOne(c) ==
  /\ writer[c] \in {"run", "aborted"}
  /\ chan[c] # << >>
  /\ \/ /\ sock[c] = "up"
        /\ rcvd' = [rcvd EXCEPT ![c] = Append(@, Head(chan[c]))]
        /\ sock' = [sock EXCEPT ![c] =
                      IF Head(chan[c]).kind = "close" THEN "down" ELSE "up"]
        /\ chan' = [chan EXCEPT ![c] = Tail(@)]
        /\ UNCHANGED writer
     \/ /\ sock[c] # "up"
        /\ \/ chan' = [chan EXCEPT ![c] = Tail(@)] /\ UNCHANGED writer
           \/ /\ sock[c] = "down"
              /\ chan' = [chan EXCEPT ![c] = << >>]
              /\ writer' = [writer EXCEPT ![c] = "end"]
        /\ UNCHANGED <<rcvd, sock>>
  /\ UNCHANGED <<registry, store, nextId, closeAlls, pc, reader, drained,
                 routeVars>>

\* recv() returns None: the channel is empty and its last sender was dropped.
ChannelClosed(c) ==
  /\ writer[c] = "run"
  /\ chan[c] = << >>
  /\ ~HasSender(c)
  /\ writer' = [writer EXCEPT ![c] = "end"]
  /\ UNCHANGED <<registry, store, nextId, closeAlls, sock, pc, reader, chan,
                 drained, routeVars, rcvd>>

\* The abort takes effect at an await: the channel and its content are dropped.
WriterAborted(c) ==
  /\ writer[c] = "aborted"
  /\ writer' = [writer EXCEPT ![c] = "end"]
  /\ chan' = [chan EXCEPT ![c] = << >>]
  /\ UNCHANGED <<registry, store, nextId, closeAlls, sock, pc, reader,
                 drained, routeVars, rcvd>>

-----------------------------------------------------------------------------
(* The reader task and the routing it does *)

\* handle_binary_message on a frame of kind k for peer p. The peer id of the
\* connection replaces the claimed sender f, except in a JoinRequest, which
\* names the requester itself. An oversized payload is answered
\* with an Error; any other frame looks its addressee up (get_sender).
ReadFrame(c, k, f, p) ==
  LET m == [kind |-> k, id |-> nextId, src |-> c, from |-> f, to |-> p] IN
  /\ c \in Senders
  /\ reader[c] \in {"run", "aborted"}
  /\ stage[c] = "idle"
  /\ sock[c] = "up"
  /\ k = "join" \/ f = PeerOf[c]
  /\ nextId <= MaxItems
  /\ nextId' = nextId + 1
  /\ \/ /\ k = "large"
        /\ SendToPeer(PeerOf[c], Notice("error", m))
        /\ UNCHANGED routeVars
     \/ /\ k # "large"
        /\ cur' = [cur EXCEPT ![c] = m]
        /\ target' = [target EXCEPT ![c] = registry[p]]
        /\ stage' = [stage EXCEPT ![c] =
                       IF registry[p] = NoConn THEN "store" ELSE "forward"]
        /\ UNCHANGED chan
  /\ UNCHANGED <<registry, store, closeAlls, connVars, drained, rcvd>>

\* send() on the cloned sender. When the channel is gone, a payload and an
\* answer to a join are queued after unregistering the addressee; a
\* JoinRequest is given up.
Forward(c) ==
  /\ stage[c] = "forward"
  /\ IF RxOpen(target[c])
     THEN /\ chan' = [chan EXCEPT ![target[c]] = Append(@, cur[c])]
          /\ RouteDone(c)
     ELSE /\ IF cur[c].kind = "join" THEN RouteDone(c)
                                     ELSE RouteTo(c, "unregister")
          /\ UNCHANGED chan
  /\ UNCHANGED <<registry, store, nextId, closeAlls, connVars, drained, rcvd>>

\* The failed send drops the addressee from the registry, by peer id.
UnregisterAddressee(c) ==
  /\ stage[c] = "unregister"
  /\ registry' = [registry EXCEPT ![cur[c].to] = NoConn]
  /\ RouteTo(c, "requeue")
  /\ UNCHANGED <<store, nextId, closeAlls, connVars, chan, drained, rcvd>>

\* enqueue() after the failed send.
Requeue(c) ==
  /\ stage[c] = "requeue"
  /\ store' = [store EXCEPT ![cur[c].to] = Enqueue(@, cur[c])]
  /\ RouteDone(c)
  /\ UNCHANGED <<registry, nextId, closeAlls, connVars, chan, drained, rcvd>>

\* Mutant: enqueue() with the sender and the addressee swapped.
StoreForAbsentSwapped(c) ==
  /\ stage[c] = "store"
  /\ store' = [store EXCEPT ![cur[c].from] = Enqueue(@, cur[c])]
  /\ IF cur[c].kind = "payload" THEN RouteTo(c, "notify") ELSE RouteDone(c)
  /\ UNCHANGED <<registry, nextId, closeAlls, connVars, chan, drained, rcvd>>

\* enqueue() for an absent addressee; the sender of a payload is told so.
StoreForAbsent(c) ==
  /\ stage[c] = "store"
  /\ store' = [store EXCEPT ![cur[c].to] = Enqueue(@, cur[c])]
  /\ IF cur[c].kind = "payload" THEN RouteTo(c, "notify") ELSE RouteDone(c)
  /\ UNCHANGED <<registry, nextId, closeAlls, connVars, chan, drained, rcvd>>

\* The Queued acknowledgment.
NotifyQueued(c) ==
  /\ stage[c] = "notify"
  /\ SendToPeer(cur[c].from, Notice("queued", cur[c]))
  /\ RouteDone(c)
  /\ UNCHANGED <<registry, store, nextId, closeAlls, connVars, drained, rcvd>>

\* The read loop ends on a Close frame or an error of the socket.
ReaderEnds(c) ==
  /\ reader[c] = "run"
  /\ stage[c] = "idle"
  /\ sock[c] = "down"
  /\ reader' = [reader EXCEPT ![c] = "end"]
  /\ UNCHANGED <<registry, store, nextId, closeAlls, sock, pc, writer, chan,
                 drained, routeVars, rcvd>>

\* The abort takes effect at an await; a frame being routed is dropped there.
ReaderAborted(c) ==
  /\ reader[c] = "aborted"
  /\ reader' = [reader EXCEPT ![c] = "end"]
  /\ RouteDone(c)
  /\ UNCHANGED <<registry, store, nextId, closeAlls, sock, pc, writer, chan,
                 drained, rcvd>>

-----------------------------------------------------------------------------
(* The environment *)

\* A client closes its connection, or its host does so when it crashes; or its
\* network fails, of which the server, which sends no pings, hears nothing.
ClientGone(c) ==
  /\ c \in Leavers
  /\ sock[c] = "up"
  /\ \/ sock' = [sock EXCEPT ![c] = "down"]
     \/ sock' = [sock EXCEPT ![c] = "silent"]
  /\ UNCHANGED <<registry, store, nextId, closeAlls, pc, writer, reader, chan,
                 drained, routeVars, rcvd>>

\* The network stack gives up on unacknowledged data, or is told of a reset. On an
\* idle connection neither has to happen.
SocketGivesUp(c) ==
  /\ sock[c] = "silent"
  /\ sock' = [sock EXCEPT ![c] = "down"]
  /\ UNCHANGED <<registry, store, nextId, closeAlls, pc, writer, reader, chan,
                 drained, routeVars, rcvd>>

\* close_all_connections: a Close frame into every registered channel.
CloseAll ==
  /\ closeAlls < MaxCloseAlls
  /\ closeAlls' = closeAlls + 1
  /\ chan' = [c \in Conns |->
                IF registry[PeerOf[c]] = c /\ RxOpen(c)
                THEN Append(chan[c], [kind |-> "close", id |-> 0, src |-> c,
                                      from |-> PeerOf[c], to |-> PeerOf[c]])
                ELSE chan[c]]
  /\ UNCHANGED <<registry, store, nextId, connVars, drained, routeVars, rcvd>>

-----------------------------------------------------------------------------

Handler(c) ==
  \/ RegisterRefused(c) \/ Register(c) \/ SendRegistered(c) \/ Drain(c)
  \/ DeliverQueued(c) \/ SpawnTasks(c) \/ TaskEnded(c) \/ Cleanup(c)

WriterTask(c) == WriteOne(c) \/ ChannelClosed(c) \/ WriterAborted(c)

Routing(c) ==
  \/ Forward(c) \/ UnregisterAddressee(c) \/ Requeue(c)
  \/ StoreForAbsent(c) \/ NotifyQueued(c)

ReaderTask(c) ==
  \/ \E k \in ClientKinds, f \in Peers, p \in Peers : ReadFrame(c, k, f, p)
  \/ Routing(c) \/ ReaderEnds(c) \/ ReaderAborted(c)

Next ==
  \/ \E c \in Conns :
       \/ Handler(c) \/ WriterTask(c) \/ ReaderTask(c)
       \/ ClientGone(c) \/ SocketGivesUp(c)
  \/ CloseAll

Spec == Init /\ [][Next]_vars

\* The runtime keeps running every task that can run (tokio's scheduler is
\* fair), an abort takes effect, and a write ends: a connected client reads, and
\* to one that is gone a write is swallowed or fails. A reader is told of a client
\* that is "down". Nothing else is assumed of clients and network: a client need
\* not connect, send or leave, and a silent one may stay unnoticed.
Fairness ==
  \A c \in Conns :
    /\ WF_vars(SendRegistered(c)) /\ WF_vars(Drain(c)) /\ WF_vars(DeliverQueued(c))
    /\ WF_vars(SpawnTasks(c)) /\ WF_vars(TaskEnded(c)) /\ WF_vars(Cleanup(c))
    /\ WF_vars(WriteOne(c)) /\ WF_vars(ChannelClosed(c)) /\ WF_vars(WriterAborted(c))
    /\ WF_vars(Routing(c)) /\ WF_vars(ReaderEnds(c)) /\ WF_vars(ReaderAborted(c))

FairSpec == Spec /\ Fairness

-----------------------------------------------------------------------------
(* Properties *)

Routed(S) == {m \in S : m.kind \in FrameKinds}
ItemsOf(q) == {q[i] : i \in 1..Len(q)}

\* Frames the server holds: being routed, queued, drained or in a channel.
InRouting == {cur[c] : c \in {r \in Conns : stage[r] \notin {"idle", "notify"}}}
Held ==
  Routed(InRouting \cup (UNION {ItemsOf(store[p]) : p \in Peers})
         \cup (UNION {ItemsOf(chan[c]) \cup ItemsOf(drained[c]) : c \in Conns}))

Service == INSTANCE Mailbox WITH
  taken <- nextId - 1,
  pending <- {<<m.id, m.to>> : m \in Held},
  inbox <- [p \in Peers |->
    {m.id : m \in UNION {Routed(ItemsOf(rcvd[c])) : c \in {d \in Conns : PeerOf[d] = p}}}]

\* The relay is a mailbox service: a frame is delivered to its addressee or to
\* nobody, at most once, whatever is replaced, aborted, requeued or evicted.
AtMostOnceToAddressee == Service!Spec

\* register, unregister and the exits of handle_socket: an entry of the
\* registry always belongs to a handler of that peer that is still going to
\* remove it, so no path leaves a dead entry behind.
NoDanglingEntry ==
  \A p \in Peers : registry[p] # NoConn =>
    /\ PeerOf[registry[p]] = p
    /\ pc[registry[p]] \in {"ack", "drain", "deliver", "select", "cleanup"}

\* route_payload, route_room_to_peer and enqueue: what the server holds for a
\* peer is addressed to it, in its queue, in the channels and the drained
\* queues of its connections, and in a router that holds its sender.
HeldForAddressee ==
  /\ \A p \in Peers : \A m \in ItemsOf(store[p]) : m.to = p
  /\ \A c \in Conns : \A m \in ItemsOf(chan[c]) \cup ItemsOf(drained[c]) :
       m.to = PeerOf[c]
  /\ \A c \in Conns : target[c] # NoConn => PeerOf[target[c]] = cur[c].to

\* Frames of one connection keep their order in every queue they share: in the
\* store, in a drained queue and in a channel.
InOrder(q) ==
  \A i, j \in 1..Len(q) :
    i < j /\ q[i].src = q[j].src /\ {q[i].kind, q[j].kind} \subseteq FrameKinds
      => q[i].id < q[j].id

SourceOrder ==
  /\ \A p \in Peers : InOrder(store[p])
  /\ \A c \in Conns : InOrder(drained[c]) /\ InOrder(chan[c])

\* MessageStore: no queue is ever longer than its cap.
QueueBound == \A p \in Peers : Len(store[p]) <= MaxQueueSize

\* The doc comment of register: the handler of a replaced connection ends, once
\* its channel has lost its last sender.
ReplacedHandlerEnds ==
  \A c \in Conns :
    pc[c] = "select" /\ registry[PeerOf[c]] # c ~> pc[c] = "done"

\* A connection whose client closed it or was reset leaves the server: its tasks
\* end and its handler returns. (One that fell silent may stay registered.)
DeadConnectionLeaves ==
  \A c \in Conns :
    sock[c] = "down" /\ pc[c] # "accept"
      ~> /\ pc[c] = "done"
         /\ {writer[c], reader[c]} \subseteq {"none", "end"}

\* UC-004 ext 6b: a duplicate registration "replaces the old WebSocket-PeerId
\* mapping with the new connection", so a registered connection that works can
\* be found. (It cannot: the cleanup of the replaced handler removes the entry.)
RegisteredIsReachable ==
  \A c \in Conns :
    /\ pc[c] = "select" /\ sock[c] = "up"
    /\ writer[c] = "run" /\ reader[c] = "run"
    => registry[PeerOf[c]] # NoConn

\* UC-004 invariant 3, "message ordering is preserved per-peer within the relay
\* path (FIFO)": a frame is not delivered while an earlier frame of its source
\* connection waits in the store of the same peer. (It is: a frame stored just
\* after its addressee drained the queue waits for the next registration.)
FifoPerPeer ==
  \A c \in Conns : \A m \in Routed(ItemsOf(rcvd[c])) :
    \A h \in ItemsOf(store[PeerOf[c]]) : h.src = m.src => m.id < h.id
=============================================================================
