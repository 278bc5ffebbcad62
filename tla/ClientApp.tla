------------------------------- MODULE ClientApp -------------------------------
(***************************************************************************)
(* The client as its user sees it: the main loop (run_app) with the keys   *)
(* it handles and the NetEvents it drains, the parts of App it changes     *)
(* (TaskPanel, ConversationList), and behind two bounded channels the      *)
(* command handler, the forwarder of ChatEvents and the connection.        *)
(*                                                                         *)
(* NetSupervisor has the reconnection in detail; here an outage is one     *)
(* step and its end another. A line is typed and submitted in one step;    *)
(* InputBox has the keys that edit it. The focus is left out: Tab is       *)
(* always possible, and changes nothing else. So is Esc, which ends it all.*)
(***************************************************************************)
EXTENDS TaskPanel, ConversationList, ClientConfig

CONSTANTS
  CmdCap,      \* capacity of the command channel
  EventCap,    \* capacity of the NetEvent channel
  ChatCap,     \* capacity of a ChatManager's event channel
  OfflineCap,  \* capacity of the offline message queue
  MaxKeys,     \* bound: lines submitted and other keys pressed
  MaxArrivals, \* bound: envelopes of other peers and rooms joined
  MaxOutages   \* bound: outages

ASSUME ClientAssumption ==
  /\ Values = Remotes \cup {""}
  /\ {CmdCap, EventCap, ChatCap} \subseteq Nat \ {0}
  /\ {OfflineCap, MaxKeys, MaxArrivals, MaxOutages} \subseteq Nat

\* NetEvents. "note" stands for those that only show a line: Error, JoinDenied,
\* JoinRequestReceived and RoomList; "quiet" for those that show none of what is
\* modelled: TypingChanged, and StatusChanged for a message that was sent.
NetEvent ==
  [kind : {"message"}, from : Remotes]
    \cup [kind : {"quiet", "delivered", "note", "up", "down", "reconnecting", "failed"}]
    \cup [kind : {"presence"}, from : Remotes, status : Presence \ {"unknown"}]
    \cup [kind : {"joined"}, room : Rooms]

\* What a ChatManager reports.
ChatEvent ==
  {e \in NetEvent : e.kind \in {"message", "quiet", "delivered", "presence"}}

VARIABLES
  loop,       \* the main loop: "drain" the events, wait for a "key"
  connected,  \* App::is_connected
  commands,   \* the command channel
  netEvents,  \* the NetEvent channel
  online,     \* spawn_net has connected: the channels and the tasks exist
  session,    \* "up": there is a ChatManager; "down"; "gone": given up
  chat,       \* the event channel of the ChatManager
  queued,     \* texts in the offline queue
  unacked,    \* texts the remote peer has not acknowledged
  acked,      \* texts it has acknowledged
  keys, arrivals, outages

appVars == <<taskVars, convVars>>
chatVars == <<session, chat, unacked, acked>>
clientVars == <<appVars, chatVars, loop, connected, commands, netEvents, online, queued,
                keys, arrivals, outages>>

CommandKinds == {"text", "room"}

ClientTypeOK ==
  /\ TaskPanelTypeOK /\ ConversationTypeOK
  /\ RowsAreSound /\ ScreenExists
  /\ loop \in {"drain", "key"}
  /\ connected \in BOOLEAN
  /\ commands \in Seq(CommandKinds) /\ Len(commands) <= CmdCap
  /\ netEvents \in Seq(NetEvent) /\ Len(netEvents) <= EventCap
  /\ online \in BOOLEAN
  /\ session \in {"up", "down", "gone"}
  /\ chat \in Seq(ChatEvent) /\ Len(chat) <= ChatCap
  /\ queued \in 0..OfflineCap
  /\ {unacked, acked} \subseteq Nat
  /\ keys \in 0..MaxKeys /\ arrivals \in 0..MaxArrivals /\ outages \in 0..MaxOutages

\* Without a NetConfig there are no conversations; with one there is that of the
\* remote peer, and a line says whether spawn_net has connected. If it has, it says
\* so in an event, too.
StartWith(config) ==
  /\ \/ /\ ~HasNetConfig(config) /\ online = FALSE
        /\ ConversationInit(<< >>)
     \/ /\ HasNetConfig(config) /\ online \in BOOLEAN
        /\ ConversationInit(<<config["remote_peer"]>>)
  /\ connected = online
  /\ session = IF online THEN "up" ELSE "gone"
  /\ netEvents = IF online THEN <<[kind |-> "up"]>> ELSE << >>

ClientInit ==
  /\ \E cli \in CliArgs, file \in ConfigFile : StartWith(Load(cli, file))
  /\ TaskPanelInit
  /\ loop = "drain" /\ commands = << >>
  /\ chat = << >> /\ unacked = 0 /\ acked = 0 /\ queued = 0
  /\ keys = 0 /\ arrivals = 0 /\ outages = 0

-----------------------------------------------------------------------------
(* The main loop: keys *)

\* A key was pressed (or none, before the poll timed out).
Key ==
  /\ loop = "key" /\ loop' = "drain"
  /\ keys < MaxKeys /\ keys' = keys + 1
  /\ UNCHANGED <<chatVars, connected, netEvents, queued, arrivals>>

NoKey ==
  /\ loop = "key" /\ loop' = "drain"
  /\ UNCHANGED <<appVars, chatVars, connected, commands, netEvents, queued,
                 keys, arrivals>>

\* try_send, if the gate lets it pass. (The handler runs as long as the main loop.)
Accepted == connected /\ Len(commands) < CmdCap
Dispatch(c) == commands' = IF Accepted THEN Append(commands, c) ELSE commands

\* Enter on a text, with a conversation on screen: it is shown as being sent before
\* it is offered to the network, if there is one; if that fails, a line says so,
\* wrongly calling it queued when the channel is full. Without a conversation the
\* text is gone.
SubmitText ==
  /\ Key
  /\ \/ /\ OnScreen(convs) # System
        /\ PushMessage(OnScreen(convs),
             IF Accepted \/ ~online THEN <<"sending">> ELSE <<"sending", "system">>)
        /\ Dispatch("text")
     \/ /\ OnScreen(convs) = System
        /\ UNCHANGED <<convVars, commands>>
  /\ UNCHANGED taskVars

\* Enter on a text that is blank, or longer than 64 KB, which is refused.
SubmitRefused ==
  /\ Key
  /\ PushSystemMessage \/ UNCHANGED convVars
  /\ UNCHANGED <<taskVars, commands>>

\* Enter on /create-room, /list-rooms, /join-room, /approve or /deny: the last two
\* in a room only, whose name they take for its id. The network gets the command,
\* or a line says why not, or there is no network and nothing happens.
SubmitRoomCommand ==
  /\ Key
  /\ \/ Accepted /\ Dispatch("room") /\ UNCHANGED convVars
     \/ PushSystemMessage /\ UNCHANGED commands
     \/ ~online /\ UNCHANGED <<convVars, commands>>
  /\ UNCHANGED taskVars

\* /invite-agent looks for the room on the screen; no bridge is started yet.
InviteAgent == UNCHANGED taskVars

\* Enter on /task, /invite-agent or an unknown command: a line reports what was
\* done, or what was wrong.
SubmitLocalCommand ==
  /\ Key
  /\ \/ TaskAdd
     \/ \E n \in Numbers : TaskDone(n) \/ TaskDelete(n)
     \/ InviteAgent
  /\ PushSystemMessage
  /\ UNCHANGED commands

\* The keys of the other panels.
MoveInPanel ==
  /\ \/ Key /\ SelectConversation /\ UNCHANGED taskVars
     \/ Key /\ Scroll /\ UNCHANGED taskVars
     \/ Key /\ (MoveRow \/ CycleStatus) /\ UNCHANGED convVars
  /\ UNCHANGED commands

-----------------------------------------------------------------------------
(* The main loop: drain_net_events *)

ShowEvent(e) ==
  \/ /\ e.kind = "message" /\ PushMessage(Direct(e.from), <<"theirs">>)
     /\ UNCHANGED connected
  \/ /\ e.kind = "delivered" /\ MarkDelivered
     /\ UNCHANGED connected
  \/ /\ e.kind \in {"up", "down", "reconnecting", "failed"} /\ PushSystemMessage
     /\ connected' = (e.kind = "up")
  \/ /\ e.kind = "quiet"
     /\ UNCHANGED <<convVars, connected>>
  \/ /\ e.kind = "note" /\ PushSystemMessage
     /\ UNCHANGED connected
  \/ /\ e.kind = "presence" /\ SetPeerPresence(e.from, e.status)
     /\ UNCHANGED connected
  \/ /\ e.kind = "joined" /\ Announce(Added(convs, RoomConv(e.room)))
     /\ UNCHANGED connected

DrainEvent ==
  /\ loop = "drain" /\ netEvents # << >>
  /\ netEvents' = Tail(netEvents)
  /\ ShowEvent(Head(netEvents))
  /\ UNCHANGED <<taskVars, chatVars, loop, commands, queued,
                 keys, arrivals>>

\* try_recv found the channel empty.
DrainDone ==
  /\ loop = "drain" /\ netEvents = << >>
  /\ loop' = "key"
  /\ UNCHANGED <<appVars, chatVars, connected, commands, netEvents, queued, keys,
                 arrivals>>

-----------------------------------------------------------------------------
(* The network *)

\* A task waits for room in the channel of NetEvents.
Report(list) ==
  /\ Len(netEvents) + Len(list) <= EventCap
  /\ netEvents' = netEvents \o [i \in DOMAIN list |-> [kind |-> list[i]]]

\* The ChatManager reports with try_send: an event that finds the channel full is
\* lost.
Emitted(e) == IF Len(chat) < ChatCap THEN Append(chat, e) ELSE chat

\* send_room_message is a stub that logs the message and succeeds.
SendRoomMessage == UNCHANGED netEvents

\* The commands about rooms. Without a manager they are refused.
HandleRoomCommand ==
  /\ \/ session = "up" /\ SendRoomMessage
     \/ session # "up" /\ Report(<<"note">>)
  /\ UNCHANGED <<chat, queued, unacked>>

\* command_handler. A text goes to the remote peer whatever conversation it was
\* typed in; without a manager, or if sending fails, it is queued, or dropped if
\* the queue is full.
HandleCommand ==
  /\ commands # << >>
  /\ commands' = Tail(commands)
  /\ \/ /\ Head(commands) = "text" /\ session = "up"
        /\ unacked' = unacked + 1
        /\ chat' = Emitted([kind |-> "quiet"])
        /\ UNCHANGED <<netEvents, queued>>
     \/ /\ Head(commands) = "text"
        /\ Report(<<"note">>)
        /\ queued' = IF queued < OfflineCap THEN queued + 1 ELSE queued
        /\ UNCHANGED <<chat, unacked>>
     \/ Head(commands) = "room" /\ HandleRoomCommand
  /\ UNCHANGED <<appVars, session, acked, loop, connected, keys, arrivals>>

Emit(e) ==
  /\ session = "up"
  /\ chat' = Emitted(e)
  /\ UNCHANGED <<appVars, session, loop, connected, commands, netEvents, queued, keys>>

\* The remote peer has acknowledged a text.
Acknowledged ==
  /\ unacked > 0
  /\ unacked' = unacked - 1 /\ acked' = acked + 1
  /\ Emit([kind |-> "delivered"])
  /\ UNCHANGED arrivals

\* A message, a presence or a typing envelope of peer p.
Arrives ==
  /\ arrivals < MaxArrivals /\ arrivals' = arrivals + 1
  /\ \E p \in Remotes :
       \/ Emit([kind |-> "message", from |-> p])
       \/ \E s \in {"Online", "Offline"} :
            Emit([kind |-> "presence", from |-> p, status |-> s])
       \/ Emit([kind |-> "quiet"])
  /\ UNCHANGED <<unacked, acked>>

\* Mutant: the forwarder passes an event on and keeps it.
ForwardCopies ==
  /\ chat # << >> /\ Len(netEvents) < EventCap
  /\ netEvents' = Append(netEvents, Head(chat))
  /\ UNCHANGED <<appVars, chatVars, loop, connected, commands, queued, keys,
                 arrivals>>

\* chat_event_forwarder.
Forward ==
  /\ chat # << >> /\ Len(netEvents) < EventCap
  /\ chat' = Tail(chat)
  /\ netEvents' = Append(netEvents, Head(chat))
  /\ UNCHANGED <<appVars, session, unacked, acked, loop, connected, commands,
                 queued, keys, arrivals>>

\* The connection is lost: the receive loop and the supervisor both say so, the
\* manager goes, and the forwarder is aborted with what it has not passed on.
Outage ==
  /\ session = "up"
  /\ outages < MaxOutages /\ outages' = outages + 1
  /\ session' = "down" /\ chat' = << >>
  /\ Report(<<"down", "down">>)
  /\ UNCHANGED <<appVars, unacked, acked, loop, connected, commands, queued, keys, arrivals>>

\* reconnect_with_backoff: an attempt is announced; it succeeds, and the queue is
\* sent to the relay; or the last one has failed.
Reconnect ==
  /\ session = "down"
  /\ \/ session' = "up" /\ Report(<<"reconnecting", "up">>)
        /\ unacked' = unacked + queued /\ queued' = 0
        /\ chat' = [i \in 1..Min({queued, ChatCap}) |-> [kind |-> "quiet"]]
     \/ session' = "gone" /\ Report(<<"reconnecting", "failed">>)
        /\ UNCHANGED <<chat, unacked, queued>>
  /\ UNCHANGED <<appVars, acked, loop, connected, commands, keys, arrivals>>

\* RoomCreated and JoinApproved: the main loop handles them, the receive loop does
\* not send them yet.
RoomJoined ==
  /\ online
  /\ arrivals < MaxArrivals /\ arrivals' = arrivals + 1
  /\ Len(netEvents) < EventCap
  /\ \E n \in Rooms : netEvents' = Append(netEvents, [kind |-> "joined", room |-> n])
  /\ UNCHANGED <<appVars, chatVars, loop, connected, commands, queued, keys>>

-----------------------------------------------------------------------------

MainLoop ==
  \/ NoKey \/ MoveInPanel
  \/ SubmitText \/ SubmitRefused \/ SubmitRoomCommand \/ SubmitLocalCommand
  \/ DrainEvent \/ DrainDone

Network ==
  \/ HandleCommand \/ Forward
  \/ Acknowledged \/ Arrives \/ Reconnect \/ RoomJoined

ClientNext ==
  /\ ((MainLoop \/ Network) /\ UNCHANGED outages) \/ Outage
  /\ UNCHANGED online

ClientSpec == ClientInit /\ [][ClientNext]_clientVars

-----------------------------------------------------------------------------
(* Properties *)

\* The lines that the screen shows as delivered.
Delivered ==
  UNION {{k} \X {i \in DOMAIN messages[k] : messages[k][i] = "delivered"} : k \in Keys}

\* drain_net_events, chat_event_forwarder: what the screen says of messages is
\* true. No more own messages are shown as delivered than were acknowledged
\* (which of them are is a guess), though events are lost on the way and the
\* mark is looked for in all conversations; and the unread counts and what the
\* sidebar says of a peer are right.
ScreenIsTrue == Cardinality(Delivered) <= acked /\ UnreadIsNew /\ PresenceIsLatest
=============================================================================
