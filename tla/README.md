# TLA+ models of rust-term-chat

Models of the concurrent core of the terminal chat client (`termchat`), of its
relay server (`termchat-relay`) and of the shared task list. Each module is a
translation of the Rust code at one commit; the docs serve only to state what
is promised. `PROJECT.json` lists, for every definition, the lines it models.

## 1. The system

| Component | State it keeps | Operations | Talks to |
| --- | --- | --- | --- |
| Relay server (`termchat-relay/src/relay.rs`) | registry PeerId -> channel sender; per connection a handler, a writer task and a reader task | register, route payloads and room frames, clean up, `close_all_connections` | clients over WebSockets, the store, the room directory |
| Store (`store.rs`) | one bounded queue per absent peer | `enqueue` (evicts the oldest), `drain` | relay server |
| Room directory (`rooms.rs`) | room id -> name, admin | register, unregister, list, route a join request | relay server |
| Chat pipeline (`termchat/src/chat/{mod,send,receive,ack}.rs`) | status map, duplicate set, pending acks | `send_message`, `send_message_with_retry`, `receive_one`, `await_ack` | a transport, a crypto session, the history writer, the UI's event channel |
| History writer (`chat/history.rs`) | the message store, a queue of failed writes | `save`, `update_status`, `flush_pending` | chat pipeline, its retry task |
| Networking (`net.rs`) | swappable `ChatManager`, offline queue, shutdown flag | supervisor (watch, reconnect, drain), command handler, receive loop, event forwarder | main loop by two channels, relay transport |
| Main loop (`main.rs`, `app.rs`) | connection state, conversations and messages, unread counts, presence, task rows, input line | keys and commands, gate and dispatch, display of events | networking |
| Task list (`tasks/`, `termchat-proto/src/task.rs`) | tasks of last-writer-wins registers | create, update, delete, `apply_remote`, `build_full_state` | peers by `TaskSyncMessage` |
| Room manager (`chat/room.rs`) | members, join requests, registrations that wait for the relay | create, request, approve, deny, add, remove | application layer by the `RoomEvent` channel |
| Agents (`agent/`) | socket, handshake, event loop, heartbeat | accept, handshake, forward messages and events, clean up | an agent process, application layer, room manager |
| Transports (`transport/`) | WebSocket reader task, QUIC connection, pending queue of the hybrid | connect, send, receive, flush | relay, peers |
| Configuration (`config/mod.rs`) | settings | merge flags, environment, file and defaults | main loop |
| Crypto, encoding, UI drawing | - | - | not modelled (section 8) |

What makes it hard: tokio tasks that interleave at every `await`; values cloned
out of a lock and used after it (a sender from the registry, the decision to
queue, a member list); tasks aborted and futures dropped in the middle
(`abort()`, `timeout`, `select!`); connections that are replaced, drop or come
back; payloads lost, damaged, doubled or reordered; bounded queues and channels
that drop; clocks that disagree. `PROJECT.json` lists 39 such hazards at their
lines, with the properties aimed at each.

## 2. Modules

    Mailbox          abstract: a store-and-forward service; each message to its
      ^    ^         addressee or to nobody, at most once
      |    |
      |    +-- NetSupervisor     client networking (main loop, handler, supervisor)
      |          ^-- ClientProofs (TLAPS), which also has the theorems of ClientApp
      +------- RelayServer       registry, connection tasks, routing, store
                 ^-- MCRelayServer, RelayServerProofs (TLAPS)
    RoomDirectory    the relay's directory, clients that register and join rooms
      ^-- MCRoomDirectory, RoomDirectoryProofs (TLAPS)
    ChatDelivery     send, receive, ack and history pipeline of two peers
      ^-- MCChatDelivery, ChatDeliveryProofs (TLAPS)
    QuicTransport, RelayTransport   the two transports
      ^-- HybridTransport           one behind the other, with a pending queue
            ^-- HybridTransportProofs (TLAPS)
    TaskPanel, ConversationList, ClientConfig   rows, messages, settings
      ^-- ClientApp                 the client as its user sees it
            ^-- ClientProofs (TLAPS)
    InputBox         the cursor of the input line
    TaskSync         the replicated task list and its merge
      ^-- MCTaskSync, TaskSyncProofs (TLAPS)
    RoomManager      members, join requests and events of one room
      ^-- AgentBridge   handshake and event loop of agents in that room
            ^-- MCAgentBridge, AgentBridgeProofs (TLAPS)

    Queues           what is left of a list when some elements are taken out; used by
                     RoomDirectory, HybridTransport, RoomManager and TaskPanel
      ^-- SequenceLemmas (TLAPS)   lemmas about sequences for five of the proof modules

**RelayServer.** A connection `c` has a program counter `pc[c]` for
`handle_socket` (accept, ack, drain, deliver, select, cleanup, done), states
for its two tasks and, for the reader's routing of one frame, `stage[c]` with
the cloned sender `target[c]`. `chan[c]` is the unbounded channel to the writer
task; `RxOpen` and `HasSender` say when its two halves exist, which decides when
a send fails and when the writer ends. Every `await` between two accesses to the
registry, store or a channel is a step boundary: look-up, send, unregister and
enqueue of one routed frame are separate actions. An aborted task may still do
what it does before its next await, then ends. A client that reconnects is a
new connection with the same peer id. `sock` says whether a socket is up, closed or
reset (`down`), or dead without anybody having said so (`silent`): writes into a
silent one succeed and reads wait, as neither side sends pings or sets a timeout,
until the network stack gives it up (`SocketGivesUp`), if it ever does.

**RoomDirectory.** What `RelayServer` leaves out: what the room frames say and
what the directory answers. A connection is a pair of queues that is on, off, or
`stale` (the relay still holds a sender whose channel is closed), because
`route_join_request` ignores a failed send where `route_room_to_peer` unregisters
and stores. Frames that had to be stored come back as `opaque`: the store wraps
every frame as a `RelayPayload`. `hit` and `unread` record which requests a fault
or that wrapping has touched. Nothing in the client calls `RoomManager` yet, so
clients here call it in any order, each for its own rooms: a creator may approve or
deny any peer at any time, waiting or not, a member or not. Approving a member again
leaves its request where it is, and a full room is an error nobody is told of.

**ChatDelivery.** Two `ChatManager`s with their send task and receive task over a
transport that may lose, damage, duplicate and reorder. `Historians` are the peers
that were made `with_history`; the program itself makes its managers with `new`,
without one, and acknowledges messages all the same. `sendPc` and `recvPc` stand at
the awaits of `send_message` and `receive_one`; `AckTimeout` drops a receive where
it stands, as the timeout in `await_ack` does. `WriteThrough` is
`ResilientHistoryWriter`: the write takes effect or joins `pend`, and
`FlushTake`/`FlushOne` are `flush_pending`, called by hand or by the retry task. No
caller of the program does either, so a flush may happen at any time and need not.
`accepted`, `shown`, `cleared` and `acked` only record what happened.

**HybridTransport.** A sender with QUIC preferred and the relay as fallback, and the
receiver at the other end of both. `QuicTransport` has the stream as chunks -
marker, length prefix, payload - because each is written and read by an await of its
own; `reading` and `expected` are what a receive has taken of a frame, and
`QuicRecvDropped`, a part of `RecvFromFallback` and of `RecvGivenUp`, is the
`select!` in `HybridTransport::recv` that drops it, half read or not. What a read
that is out of step finds is an arbitrary choice (`QuicMisreads`). `RelayTransport`
has connecting, registration, the `connected` flag and the reader task with its
bounded channel. The relay between the two ends is a set that payloads may leave in
any order or never (`RelayLoses`): the server refuses large ones, evicts from full
queues and reorders. Every caller, flush by hand and flush task has a place `at[t]`,
at most one payload in hand (`carried[t]`) and the rest of the `batch` it has
drained.

**NetSupervisor.** The supervisor's position in `supervisor`,
`reconnect_with_backoff` and `drain_message_queue` is `sup`; the command handler's
is `cmd`. They share `mgr` (is there a `ChatManager`), `queue` and `shutdown`. A
text is its number in the order of submission, so order and duplication can be seen
on `wire`; some are `Refused` by `send_message` on any connection. `link` is up,
down or silent like the server's `sock`, and `lost` keeps the texts that nobody will
send, by what the user was told of them: that they are not sent, that the network is
busy, or nothing, because a dead connection took them. The event channel is
unbounded in the model: the real one holds 256 events and its sender waits, which
only delays.

**ClientApp.** The main loop alternates between draining the event channel and
one key, as `run_app` does; a key stands for a whole submitted line, a command or
a move in a panel. `ConversationList` keeps the conversations with their
messages (each only as what its line shows: sending, delivered, theirs, system),
unread counts and presence; `TaskPanel` the rows and the selected one;
`ClientConfig` decides with which settings, and so in which mode, it starts. The
command handler, the forwarder of chat events and the connection are one action
each here: `NetSupervisor` has their steps. `InputBox` has the keys that edit the
line, in bytes, because the cursor is a byte index to `String` and a character
count to the rest.

**TaskSync.** `tasks[p]` is the list of peer `p`; `msgs` is the set of messages
ever sent, so each can be applied late, repeatedly or never. `known[p]` records
the writes that reached `p`, and the properties compare the list with it. A stamp is
whatever `now_ms` returns: the clocks may disagree, stand still and step back.
`behind` records the fields that some peer has overwritten with a stamp that was
not later than the one it replaced, which the code does not look at.

**RoomManager** and **AgentBridge.** `RoomManager` is synchronous: each method is
one action on `members`, `requests` and the bounded event channel. `AgentBridge`
adds sessions: a bridge that accepts one connection, a handshake that reads the
member list before it waits for the agent's Hello, and the participant's
`select!` loop. An agent writes lines of a kind (`AllKinds`: messages, task
messages, Goodbye, Pong, text that does not decode), each in pieces: `reading[s]`
says whether the first part is in a pending `read_line`, or was lost with one
that `select!` cancelled. `reason` is the `DisconnectReason` the participant
returns. The code that connects the parts is not in the repository yet; `Join`
and `Leave` do what the doc comments of `add_member`, `run` and `CleanupContext`
ask of the caller, and are marked external.

## 3. Runs

| Run | What it asks | Bounds |
| --- | --- | --- |
| `relay` | safety of registry, queues and routing; refines `Mailbox` | a sender and a peer with two connections, 3 frames, cap 2 |
| `relay_live` | handlers of replaced and dead connections end | one peer on two connections, 1 frame of each kind but plain payloads, one close-all |
| `relay_replaced` | *violation*: a working connection is reachable | as `relay`, no frames |
| `rooms` | the directory leads to creators; requests to join are kept | 2 peers, 2 rooms of 3 names (two differ in case), 4 frames, queue 1, 1 fault |
| `chat` | delivery, duplicate and history guarantees, with and without a history | 2 messages to the peer with a history, 1 to the one without, 1 failure, 1 timeout, duplicate set of 1 |
| `hybrid` | no payload lost or doubled inside, what comes is in order, only cuts skip, the pending queue empties | 3 payloads (one too long for QUIC, one by another name), a caller, a flush by hand, a flush task, channel 1 |
| `net` | order, loss, duplication, outage handling; refines `Mailbox` | 3 texts (one refused), 3 connections, 2 attempts, queue 2, channel 2 |
| `net_queue` | *violation*: the queue is drained | 1 text, 2 connections |
| `app` | the screen is true | 1 remote peer, 1 room, 3 keys, 1 arrival, 1 outage, channels of 1 and 2, every configuration over 2 values |
| `app_cursor` | *violation*: the cursor is between characters | characters of 1 and 2 bytes, 3 of them |
| `tasks` | the merge picks the latest known write, peers converge, no rollback | 2 peers, 1 task, 3 writes, clocks of 3 readings, 1 full state on request |
| `agents` | seats, events, message order, clean-up | 2 agents with one id and a joiner for 2 free seats, up to 6 lines, 1 room event |

Why the bounds are enough to be interesting: in `relay` a queue of 2 overflows
with 3 frames, and the second connection can register at every point of the
first one's life; in `rooms` two names collide, one peer has both rooms or each has
one, and a request has just the frames to be registered for, listed, asked and
answered, while its creator decides early, withdraws the room, its queue overflows,
or the relay restarts (the capacities of the directory and of a client, 2 rooms, are
reached but never exceeded; a fifth frame or a third peer takes more than five
minutes); in `chat` a failure and a timeout hit every step, and the duplicate set
overflows with the second message; in `hybrid` a receive is dropped between its
reads, a flush aborted between its writes, and each connection may fail before,
between and after the payloads; in `net` the queue and the channel overflow with 3
texts, one of them fails wherever it is sent, and the attempts of an outage can be
used up; in `app` every channel and the offline queue overflow (two remote peers or
a fourth key would take more than five minutes; with three keys a task number that
is used again cannot yet collide with a row); in `tasks` three writes give a
creation and two concurrent updates with lesser, equal or later stamps, which a peer
gets in either order, and three readings let a full state be older than a list in
one register and newer in another (a third peer takes more than five minutes with a
full state; the theorems have any number); in `agents` capacity, a full event
channel, equal ids and lines that do not decode all occur. Every action fires in
some passing run. Deadlock checking is off in all of them: the bounds on inputs let
each system come to rest.

### Fairness

Weak fairness on the steps of the program's own tasks: tokio polls every task
that can run, timers and connection attempts end (they have timeouts). Users,
clients and agents need not act, and losses are never assumed to stop except by
their bound. Of the network two things are assumed, and only these: a reader is
told of a connection that was closed or reset (`ReaderEnds`, `ReceiveClosed`), and
a write ends, because the other side reads or the connection is given up
(`WriteOne`, `DeliverQueued`; the writes of a flush in `hybrid`). That a connection
which merely went silent is noticed is not assumed, because neither side sends pings
or sets a timeout on its reads: `SocketGivesUp` and `LinkGivesUp` are steps that may
never happen. So `DeadConnectionLeaves` and `OutageIsShown` say nothing of silent
connections (`EveryOutageIsShown`, section 5, does).

In `agents` the whole participant is one fair disjunction, because `select!`
promises nothing about which of two ready branches it takes, and the application
layer is assumed to take what is in the outbound channel. In `hybrid` a flush task
starts again by its timer until it is aborted; callers and flushes by hand only go
on with what they have begun. The `chat`, `rooms`, `tasks` and `app` runs have no
liveness properties and no fairness; nothing in the program calls `flush_pending`,
so that a history ever catches up is not claimed.

## 4. What the passing runs show

- *Relay*: `AtMostOnceToAddressee` (refinement of `Mailbox`) - no replacement,
  abort, requeue, failed drain or eviction makes a frame arrive twice or at
  somebody else. `NoDanglingEntry` - no exit of a handler leaves a registry entry
  that nobody will remove. `HeldForAddressee` and `SourceOrder` on every queue.
  `ReplacedHandlerEnds` and `DeadConnectionLeaves` - the handlers of replaced
  connections, and of those that were closed or reset, do not leak.
- *Rooms*: `DirectoryIsTrue` - no order of registrations, withdrawals and restarts
  lists two rooms under one name or a room under another peer than its creator.
  `RequestsAreKept` - a request to join, or its answer, is always somewhere on its
  way, unless a connection, a queue or the relay failed with it.
- *Chat*: `DeliveredIsKept` - a sender never shows Delivered for a message the
  other peer did not accept or, if it has a history, does not keep.
  `NoWriteForgotten`, `DeliveredIsFinal` - a write that failed waits to be tried
  again, and late and repeated writes never take a message back from Delivered.
  `ShownOncePerWindow` - a message is shown again only after the duplicate set was
  emptied.
- *Transports*: `HeldUntilHanded` - with any number of flushes at once a payload has
  one holder until a transport takes it, unless a flush task is aborted.
  `ReceivedInOrder` - although each receive on one transport drops the receive on the
  other, what comes out of QUIC is in order and comes once, even when the stream is
  read out of step, and what the relay's reader has read is returned in order or
  waits. `OnlyCutsSkip` - QUIC loses nothing of what it took unless a frame was cut:
  by a dropped receive, an aborted flush or a refused length.
  `PendingIsFlushed` - the pending queue empties as long as a transport works.
- *Networking*: `SentAtMostOnce`, `WaitingInOrder`, `NoTextVanishes` (every text
  waits, was sent, went into a dead connection, or is one the user was told of,
  and what he was told is not sent never is), `ConnectedMeansManager` (what the
  user is shown last is true), `OutageEnds`, `OutageIsShown` (if the network stack
  notices it).
- *Client*: `ScreenIsTrue` - no more texts are shown as delivered than were
  acknowledged, unread counts count new messages, and the sidebar shows the last
  presence it was told of. The type invariant `ClientTypeOK` includes that the
  rows and conversations used to index the lists exist, and that a task number
  means one task.
- *Tasks*: `LatestKnownWins` - a list is a function of the writes known, so peers
  that know the same show the same (`Convergence`), and `NoRollback` - no message takes
  a register back. Each excepts one thing and no more: fields that were overwritten
  with a stamp that is not later, which is what clocks that lag or stand still do.
- *Agents*: `OneSeatEach`, `EventsTellMembers` (the event stream rebuilds the
  member list unless an event was dropped), `ForwardedInOrder` (what an agent said is
  forwarded in order, and all of it if it said Goodbye), `NoGhostAgent`,
  `DepartedAgentLeaves`.

## 5. Where the code and its documents disagree

Two are runs that TLC must find violated; the trace is the explanation.

1. `relay_replaced`: the clean-up of a replaced connection unregisters by peer id
   and removes its successor (UC-004 6b).
2. `net_queue`: a text can be queued after the drain (UC-011 postcondition 2).

A third is a bug:

3. `app_cursor`: the cursor counts characters and is used as a byte index
   (`app.rs:141`); a character of two bytes and one more key are a panic.

More are stated in the modules, with the document they quote. No run lists them;
each is violated when it is added to a configuration (with few messages, to see a
short trace):

4. `FifoPerPeer` in `RelayServer`: a frame stored after its addressee drained is
   overtaken (UC-004 invariant 3).
5. `StatusFollowsAck` in `ChatDelivery`: an ack handled before `statuses.insert` is
   lost on the status map (doc of `send_message`).
6. `ReceivedIsKept` in `ChatDelivery`: the timeout of `await_ack` can drop a message
   that is in the duplicate set and not yet saved (doc of `await_ack`).
7. `DeliveredIsStored` in `ChatDelivery`: the program acknowledges messages that it
   stores nowhere, because its managers have no history (UC-002 postcondition 2).
8. `OutageLosesNothing` in `NetSupervisor`: a text handed to a connection that is
   already dead is lost without a word (UC-011 invariant 2).
9. `BusyMeansQueued` in `NetSupervisor`: "Message queued, network busy" is said of a
   text that is dropped (UC-010 7a, `main.rs:169`).
10. `EveryOutageIsShown` in `NetSupervisor`: an outage that nobody closes the
    connection for is never noticed (UC-011, steps 1 and 2).
11. `AllArrive` in `HybridTransport`: a payload from the relay drops a receive on
    QUIC that has taken the length of a frame, and what QUIC carries is lost
    (`hybrid.rs:466`).
12. `PeersConverge` in `TaskSync`: with clocks that disagree or stand still a local
    update stays where it was made and loses everywhere else (UC-008 invariant 2).

Others were met while modelling. They are in the models as the code has them, and
no property is about them:

- A configuration file that does not load makes `main` start with the defaults,
  forgetting the command line that is promised the highest priority
  (`config/mod.rs:3`); `--timestamp-format` is parsed and never used.
- A text typed in any conversation goes to the remote peer; `/approve` and `/deny`
  take a room's name for its id; without a network texts stay "sending".
- `Delivered` marks the most recent text of some conversation that is still being
  sent, which need not be the one acknowledged.
- The status map and the duplicate set are new after every reconnection: an ack that
  comes later finds no entry, and a retransmission is shown again.
- After the attempts are used up the user reads "will retry in background".
- A stored JoinApproved or JoinDenied arrives as a chat payload; after a restart
  of the relay nobody registers rooms again.
- A send that fails on both transports is queued and reported as failed; a flush
  puts what it could not send behind newer payloads; neither transport
  reconnects, so what is pending when both are gone stays; `recv` fails when the
  fallback is closed although the preferred transport works.
- An agent's line that a room event interrupts ends its session with BrokenPipe;
  HeartbeatTimeout is never produced.

## 6. What is proved

The proofs hold for every value of the constants that satisfies the named
assumptions of the modules: any peers, connections, messages, caps and bounds. One
inductive invariant per specification carries all its theorems; the temporal steps
are by `PTL`. `PROJECT.json` lists the theorems with what each establishes.

| Module | Theorems | Property |
| --- | --- | --- |
| `RelayServerProofs` | `RelayTypeCorrect`, `RelayNoDanglingEntry`, `RelayHeldForAddressee` | `TypeOK`, `NoDanglingEntry`, `HeldForAddressee` |
| | `RelayQueueBound` | `QueueBound` (no run checks it: `SourceOrder` is the deeper property of the same queues) |
| | `RelaySourceOrder` | `SourceOrder` |
| | `RelayIsAMailbox` | `AtMostOnceToAddressee`: the relay implements `Mailbox` |
| `RoomDirectoryProofs` | `RoomTypeCorrect`, `DirectoryTellsTheTruth`, `NoRequestIsLost` | `TypeOK`, `DirectoryIsTrue`, `RequestsAreKept` |
| `ChatDeliveryProofs` | `ChatTypeCorrect`, `DeliveredMessagesAreKept`, `NoWriteIsForgotten`, `ShownOnceInEveryWindow` | `TypeOK`, `DeliveredIsKept`, `NoWriteForgotten`, `ShownOncePerWindow` |
| | `DeliveredStaysDelivered` | `DeliveredIsFinal`, an action property |
| `HybridTransportProofs` | `HybridTypeCorrect`, `HybridReceivedInOrder`, `HybridOnlyCutsSkip` | `TypeOK`, `ReceivedInOrder`, `OnlyCutsSkip` |
| | `HybridHeldUntilHanded` | `HeldUntilHanded`, an invariant and an action property |
| `TaskSyncProofs` | `TaskTypeCorrect`, `TaskLatestKnownWins`, `TaskConvergence` | `TypeOK`, `LatestKnownWins`, `Convergence` |
| | `TaskNoRollback` | `NoRollback`, an action property |
| `ClientProofs` | `NetTypeCorrect`, `NetWaitingInOrder`, `NetConnectedMeansManager`, `NetNoTextVanishes` | `TypeOK`, `WaitingInOrder`, `ConnectedMeansManager`, `NoTextVanishes` |
| | `NetSentAtMostOnce` | `SentAtMostOnce`, which includes that the networking layer implements `Mailbox` |
| | `ClientTypeCorrect`, `ScreenTellsTheTruth` | `ClientTypeOK`, `ScreenIsTrue` |
| `AgentBridgeProofs` | `AgentTypeCorrect`, `SeatsAreExclusive`, `EventsAreTheStory`, `NoAgentIsAGhost`, `AgentIsForwardedInOrder` | `TypeOK`, `OneSeatEach`, `EventsTellMembers`, `NoGhostAgent`, `ForwardedInOrder` |

**Relay.** From `RelayAssumption` and `NoItemAssumption`, with

    RelayInv == TypeOK /\ RouterShape /\ NoDanglingEntry
                /\ HeldForAddressee /\ QueueBound
    FrameInv == LineShape /\ ApartShape /\ RouterHolds

`RouterShape` ties the position of a reader's routing to what it holds: a frame
whenever it is not idle, and a cloned sender exactly while it forwards. Without it
`HeldForAddressee` is not inductive (a send through a clone has to land in a
channel of the frame's addressee), and without `NoDanglingEntry` the clone taken
from the registry need not belong to that addressee. `FrameInv` looks at all queues,
channels and drained queues alike, as lines in which frames wait: each line is in
the order of its sources (`LineShape`), no frame is in two lines (`ApartShape`), and
what a router holds is newer than whatever its connection sent before, and nowhere
else (`RouterHolds`). Each step changes the lines in one of a few ways - a frame is
taken up, put into a line or lost, a line is drained into another, its head is
delivered, or there is no frame in what moves (`FrameMoves`) - and both
`SourceOrder` and the steps of `Mailbox` follow from the way alone.

**Rooms.** From `DirectoryAssumption`, with `RoomShape /\ TracesKept` where

    RoomShape == TypeOK /\ OwnQueues /\ SentShape /\ StoredShape /\ ClosedIsEmpty
                 /\ AskedShape /\ DirectoryIsTrue

`DirectoryIsTrue` needs to know that only the creator of a room sends its
registration (`OwnQueues`, `SentShape`). `TracesKept` is `RequestsAreKept` with the
place of a request spelled out: on its way up, on its way down or stored for the
creator, waiting for the decision, or the same for the answer. Each step that takes
a frame out of one place puts it into the next or marks the request as `hit`; for
this the store may hold only requests and answers (`StoredShape`), and a peer
without a connection has nothing on its way that a new connection would throw
away (`ClosedIsEmpty`). An approval and a denial take a request out of the list only
as their answer goes up, and the request of a member that is approved again stays.
The proof needs room for at least one room id, `MaxRooms # 0` in
`DirectoryAssumption`; the capacities may be anything.

**Chat.** From `ChatAssumption`, with

    ChatInv == TypeOK /\ TaskShape /\ FrameInv /\ ReceiveInv /\ StatusInv
               /\ WriteInv /\ OneSave /\ HistoryInv
               /\ DeliveredIsKept /\ NoWriteForgotten /\ ShownInv

`DeliveredIsKept` is about the two ends of a long way: an ack is sent only once the
message was accepted and, with a history, is in it or waits to be written
(`ReceiveInv`), is in the transport
only for such messages (`FrameInv`), and marks a status or joins the writes of the
author's history only then (`StatusInv`, `WriteInv`). That a kept message stays kept,
and a delivered one delivered, needs that a write that waits cannot undo one that has
been done: a save as Sent waits in one place (`OneSave`) and only while the message
is not in the history (`WriteInv`, `HistoryInv`), so a flush never overwrites
Delivered. The flushed and the pending writes are one line for all this (`Line`);
each step leaves the lines, adds a write at the end or retries the first
(`HistoryMoves`). `ShownInv` counts a message that is past the
duplicate set and not yet on the screen as shown, so no second one gets past.

**Hybrid transport.** From the assumptions of the three modules. Payloads are
numbered in the order they are handed in. `TypeInv` is `TypeOK` and that a task
that is not busy has no batch. `OneInv` says that the numbers in the pending queue,
in each task's hands and with the transports are all different, and none is above
the newest; it turns `HeldUntilHanded` into the remark that what leaves one of these
joins another. For the order of what is received

    OrderInv == BuiltFirst /\ MutexShape /\ SetupShape /\ FramesInv /\ QuicOrder
                /\ QuicOrderly /\ RelayKept

Every step is at most one event of each transport (`QuicEvent`, `RelayEvent`), so
each part is shown for the events. While no frame is torn the stream is a chain -
after a prefix comes its payload, the first and the last chunk agree with what the
reader and the writer are in the middle of (`FramesInv`); that rests on the mutex, by
which the writes of a frame belong to one task (`MutexShape`), and on the marker
having gone first (`SetupShape`). `QuicOrder` is `OnlyCutsSkip` made inductive: what
was returned, followed by what is on the stream, is a prefix of what was handed over,
and all of it as long as the connection can take more. `QuicOrderly` says less and
needs no chain: whatever has been cut, the payloads returned and then those on the
stream come in the order in which they were handed over, so a reader that misreads
skips but never goes back. `RelayKept` is the relay's half of `ReceivedInOrder`, of
which nothing is assumed between the two ends.

**Tasks.** From `TaskAssumption` and `NoTaskAssumption`. The argument goes from
registers to lists to the system. The order of the registers is total up to the
stamp, and `merge_lww` picks the later (`NewerTransitive`, `NewerTotal`,
`MergePicks`). A list is the `Summary` of a set of writes if, but for the fields in
`behind`, it holds nothing older than any of them, and nothing else but fields of
stubs; applying an update, merging a list, creating a task and overwriting a field
each keep that for the set they add to, and take no field back (`AppliedSummary`,
`MergedSummary`, `CreatedSummary`, `WrittenSummary`). The inductive invariant is

    TaskInv == TypeInv /\ KnownInv /\ StampsAreUnique /\ ListsInv /\ MsgInv

`ListsInv` says each list is the summary of what its peer knows, `MsgInv` the same
of each full state sent. The merge keeps the register it has when the stamps (time
and author) are equal, so it is right only if equal stamps mean equal writes:
`StampsAreUnique`, a lemma here and for the fields outside `behind` only. No clock has
to establish it. Every known write is known to its author (`KnownInv`), whose
register is at least as late; an author who writes a stamp a second time therefore
replaces a register that is not earlier, and the field is in `behind` from then on.
The same argument makes a local write, which is not merged, later than all its peer
knows. `TypeOK` alone is not inductive: a stub copies the stamp of an update into the
creation fields, so updates must have been written by a peer. `TaskConvergence` also
needs `MadeInv`: no task is all stub, so a task that a peer has was really created or
updated by somebody, and the fields of its stub are the same everywhere.

**Networking.** From `NetAssumption`, with

    NetInv == TypeOK /\ OrderInv /\ WireInv /\ SupInv

A text waits in four places - the batch being sent, the offline queue, the hand of
the command handler, the channel - and `OrderInv` says that each is sorted and
every earlier place is before every later one; that is what is left of
`WaitingInOrder` once the concatenation is taken apart (`ConcatTexts`,
`WaitingTexts`). It is strict, so a text that leaves for the wire is in no other
place: `WireInv`, of which `NoTextVanishes` is a part. `SupInv` ties the supervisor's
position to what it holds: the batch is empty except while it is sent, the manager is
there except while an outage is handled, and the newest status is "connected" only
while a connection is watched. Lemma `Moves` classifies every step - it submits,
sends or drops a text, or leaves the texts where they are - and `WireInv` and the
steps of `Mailbox` follow from that. Nothing is assumed of the connection: it may be
silent from the start.

**Client.** From `ClientAssumption` and `TaskPanelAssumption`, with

    ClientInv == PanelInv /\ ConvInv /\ ChannelsOK /\ ReceiptInv

The proofs stand in `ClientProofs` beside those of networking; the two
specifications share no variable. That no more lines are marked delivered than were
acknowledged is not inductive: a receipt that still waits in the manager's channel or
in the event channel will mark another line. `ReceiptInv` therefore counts the marks
and the receipts in both channels together, and they never exceed the
acknowledgements: the forwarder moves a receipt, an outage or a full channel loses
it, and a mark uses one up and touches at most one line, whichever conversation the
hash map yields first. That the marked lines are finitely many is part of it, so
peers and rooms need not be. The unread counts and the presence are inductive only
with the shape of the sidebar, `ConvInv`: each name is listed once and the selected
conversation exists. A mark changes only a line that is being sent, so never one
that an unread count counts. `PanelInv` has the rows of the task panel: a new number
is above all others (`MaxIsGreatest`, `NewNumber`), and deleting the last task of
the list leaves row 0. Every step is classed three times: by what it does to the
panel (`PanelKept`), to the conversations (`ConversationsKept`) and to the channels
(`ChannelsKept`).

**Agents.** From `RoomAssumption` and `BridgeAssumption`, with

    AgentInv == TypeOK /\ OneSeatEach /\ StoryShape /\ IdShape /\ SnapshotShape
                /\ NoGhostAgent /\ HoldShape /\ WireShape /\ PassedShape

Every step is classed three times: by what it does to the room (`RoomStep`), to the
seats of the agents (`SeatStep`) and to the lines of one session (`LineStep`).
`NoGhostAgent` is not inductive alone: the seat of an agent is given by the session
that has its id, so a session has its id from the handshake on (`IdShape`). Nor is
`TypeOK`: `make_unique_agent_peer_id` counts up until it finds a free id, and the
model has only as many ids as sessions. It finds one because the agents in the
member list it was given belong to other sessions (`SnapshotShape`), which are fewer
than the ids. For that the candidates have to be different (`RoomAssumption`) and
the sessions finitely many (`BridgeAssumption`). `EventsTellMembers` follows the list
of the consumer through the events that wait with a recursive function `Told`; the
invariant says that such a function exists and ends at the member list
(`StoryShape`), an event extends it at one end and taking one shortens it at the
other, and there is only one (`OneStory`). For `ForwardedInOrder` the lines in the
socket are the last ones written (`WireShape`), and what was passed on enumerates, in
order, the messages among the lines read so far while the session runs, or up to
some line once it has ended (`PassedShape`).

`SequenceLemmas` has what these proofs share: what appending, concatenating,
taking the head, removing and retaining do to a sequence and the set of its
elements, when a sequence of distinct elements stays one, prefixes, and the
enumerations of sets of numbers that `Picked` is defined by.

## 7. Only model-checked

- Liveness under fairness, which the proof system cannot state steps for
  (`ENABLED`): `ReplacedHandlerEnds`, `DeadConnectionLeaves`, `PendingIsFlushed`,
  `OutageEnds`, `OutageIsShown`, `DepartedAgentLeaves`.
- `InputBox`, of which a run only shows what is wrong: a string's length is a sum
  over its characters.
- Whatever would need induction over data. The proofs do without where a definition
  can be taken as a function with a unique solution (`Told`), or a sequence as an
  enumeration of its positions (`Picked`).

Every invariant and every action property that a passing run checks is a theorem.

## 8. Not modelled, and the plan

Cryptography (ciphers, and a handshake that belongs to a library), encoding and
drawing are left out for good: they are data, or sequential and
well covered by unit tests. The rejection of a mismatched sender id in
`receive_one` changes no state the properties look at in a
conversation of two honest peers. Oversized texts are a parameter of
`ChatDelivery` that its run keeps empty; `HybridTransport` has one. Panel focus,
scroll offsets, typing indicators and previews of the client are left out, as is
the layout of what it prints (`/task list` is one line). The heartbeat loop of the
agents has no caller, and the participant ignores its answers: there is no
behaviour to model yet. Loopback is a transport for tests. The presence and typing
trackers keep only what the screen shows, of which `ConversationList` has the
presence.

Next, in this order:

1. A composition of `ChatDelivery` with the reconnection of `NetSupervisor`: the
   status map and the duplicate set are new after every outage.
2. `Heartbeat`, once the code connects it to the participant.
