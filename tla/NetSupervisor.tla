---------------------------- MODULE NetSupervisor ----------------------------
(***************************************************************************)
(* The networking layer of the client (termchat/src/net.rs): the command   *)
(* handler that sends or queues what the user writes, the supervisor that  *)
(* reconnects and drains the queue, its receive loop, and the main loop    *)
(* that fills the command channel and reads the events. The tasks share    *)
(* the swappable ChatManager, the offline queue and the shutdown flag.     *)
(*                                                                         *)
(* A text message is its number in the order of submission. The commands   *)
(* about rooms and typing only log (send_room_message is a stub).          *)
(***************************************************************************)
EXTENDS Naturals, Sequences

CONSTANTS
  MaxAttempts,   \* ReconnectConfig::max_attempts
  QueueCap,      \* ReconnectConfig::message_queue_cap
  ChannelCap,    \* NetConfig::channel_capacity of the command channel
  Refused,       \* texts that send_message refuses on any connection (validate)
  MaxMessages,   \* bound: texts submitted
  MaxSessions    \* bound: connections made

ASSUME NetAssumption ==
  /\ MaxAttempts \in Nat
  /\ QueueCap \in Nat
  /\ ChannelCap \in Nat \ {0}
  /\ MaxMessages \in Nat
  /\ Refused \subseteq Nat
  /\ MaxSessions \in Nat \ {0}   \* the first one is made before the start

Messages == 1..MaxMessages
Shutdown == 0                     \* NetCommand::Shutdown
Commands == Messages \cup {Shutdown}

VARIABLES
  submitted,    \* texts the user submitted
  cmds,         \* the command channel
  cmd,          \* where the command handler stands
  cur,          \* the text it handles
  queue,        \* message_queue
  batch,        \* what drain_message_queue has taken and not sent yet
  mgr,          \* shared_mgr is Some
  link,         \* the connection of the newest session: "up"; "down": closed, and
                \* the network stack says so; "silent": dead, and nobody said so
  sessions,     \* connections made
  sup,          \* where the supervisor stands
  attempt,      \* reconnect attempts of the current outage
  recv,         \* the receive loop: "run" or "ended"
  wire,         \* texts the relay got, in order
  lost,         \* texts that nobody will send: those the user is "told" of, those
                \* he is told the network is "busy", those a "dead" connection took
  events,       \* status events on their way to the main loop
  uiConnected,  \* App::is_connected
  shutdown,     \* shutdown_flag
  quit          \* the main loop has returned

cmdVars == <<cmd, cur>>
uiVars  == <<submitted, uiConnected, quit>>
relayVars == <<wire, lost>>
supVars == <<sup, attempt>>
netVars == <<link, sessions>>
vars == <<uiVars, cmds, cmdVars, queue, batch, mgr, netVars, supVars, recv,
          relayVars, events, shutdown>>

TypeOK ==
  /\ submitted \in 0..MaxMessages
  /\ cmds \in Seq(Commands) /\ Len(cmds) <= ChannelCap
  /\ cmd \in {"recv", "send", "queue", "done"}
  /\ cur \in Commands
  /\ queue \in Seq(Messages) /\ Len(queue) <= QueueCap
  /\ batch \in Seq(Messages)
  /\ mgr \in BOOLEAN
  /\ link \in {"up", "down", "silent"}
  /\ sessions \in 1..MaxSessions
  /\ sup \in {"watch", "clear", "notify", "backoff", "connect", "swap",
              "drain", "send", "announce", "exit"}
  /\ attempt \in 0..MaxAttempts
  /\ recv \in {"run", "ended"}
  /\ wire \in Seq(Messages)
  /\ lost \in [{"told", "busy", "dead"} -> SUBSET Messages]
  /\ events \in Seq({"up", "down", "retry", "failed"})
  /\ uiConnected \in BOOLEAN
  /\ shutdown \in BOOLEAN
  /\ quit \in BOOLEAN

\* spawn_net returned: the first connection is made, its status is on its way.
Init ==
  /\ submitted = 0
  /\ cmds = << >>
  /\ cmd = "recv"
  /\ cur = Shutdown
  /\ queue = << >>
  /\ batch = << >>
  /\ mgr = TRUE
  /\ link = "up"
  /\ sessions = 1
  /\ sup = "watch"
  /\ attempt = 0
  /\ recv = "run"
  /\ wire = << >>
  /\ lost = [how \in {"told", "busy", "dead"} |-> {}]
  /\ events = <<"up">>
  /\ uiConnected = TRUE
  /\ shutdown = FALSE
  /\ quit = FALSE

-----------------------------------------------------------------------------
(* The main loop *)

Lose(m, how) == lost' = [lost EXCEPT ![how] = @ \cup {m}]

\* A text is submitted. Without a connection it is not sent, and a line says so;
\* if the channel is full it is not sent either, and the line calls it queued.
Submit ==
  /\ ~quit
  /\ submitted < MaxMessages
  /\ submitted' = submitted + 1
  /\ \/ ~uiConnected /\ Lose(submitted', "told") /\ UNCHANGED cmds
     \/ /\ uiConnected /\ Len(cmds) < ChannelCap
        /\ cmds' = Append(cmds, submitted')
        /\ UNCHANGED lost
     \/ /\ uiConnected /\ Len(cmds) = ChannelCap
        /\ Lose(submitted', "busy")
        /\ UNCHANGED cmds
  /\ UNCHANGED <<uiConnected, quit, cmdVars, queue, batch, mgr, netVars,
                 supVars, recv, wire, events, shutdown>>

\* drain_net_events takes one status event.
UiTakes ==
  /\ ~quit
  /\ events # << >>
  /\ uiConnected' = (Head(events) = "up")
  /\ events' = Tail(events)
  /\ UNCHANGED <<submitted, quit, cmds, cmdVars, queue, batch, mgr, netVars,
                 supVars, recv, relayVars, shutdown>>

\* The user quits: Shutdown is tried on the channel, then the channels close.
Quit ==
  /\ ~quit
  /\ quit' = TRUE
  /\ cmds' = IF Len(cmds) < ChannelCap THEN Append(cmds, Shutdown) ELSE cmds
  /\ UNCHANGED <<submitted, uiConnected, cmdVars, queue, batch, mgr, netVars,
                 supVars, recv, relayVars, events, shutdown>>

-----------------------------------------------------------------------------
(* The command handler *)

\* Takes a command; Shutdown, or the end of the channel, ends the task.
TakeCommand ==
  /\ cmd = "recv"
  /\ \/ /\ cmds # << >>
        /\ cur' = Head(cmds)
        /\ cmds' = Tail(cmds)
        /\ cmd' = IF cur' = Shutdown THEN "done" ELSE "send"
        /\ shutdown' = (shutdown \/ cur' = Shutdown)
     \/ /\ cmds = << >> /\ quit
        /\ cmd' = "done"
        /\ UNCHANGED <<cur, cmds, shutdown>>
  /\ UNCHANGED <<uiVars, queue, batch, mgr, netVars, supVars, recv, relayVars, events>>

\* send_message returns Ok: the relay gets the text, or a dead connection takes it,
\* as long as the network stack has not noticed or said so.
Sent(m) ==
  /\ m \notin Refused
  /\ \/ link = "up" /\ wire' = Append(wire, m) /\ UNCHANGED lost
     \/ link # "up" /\ Lose(m, "dead") /\ UNCHANGED wire

\* It returns an error: the text is refused, or the connection is known to be closed.
SendFails(m) == m \in Refused \/ link = "down"

\* Mutant: a text submitted while there is no ChatManager is forgotten.
SendDirectForgets ==
  /\ cmd = "send"
  /\ \/ mgr /\ Sent(cur)
     \/ (~mgr \/ SendFails(cur)) /\ UNCHANGED relayVars
  /\ cmd' = "recv"
  /\ UNCHANGED <<uiVars, cmds, cur, queue, batch, mgr, netVars, supVars, recv,
                 events, shutdown>>

\* Reads shared_mgr and sends. What cannot be sent is to be queued.
SendDirect ==
  /\ cmd = "send"
  /\ \/ mgr /\ Sent(cur) /\ cmd' = "recv"
     \/ (~mgr \/ SendFails(cur)) /\ cmd' = "queue" /\ UNCHANGED relayVars
  /\ UNCHANGED <<uiVars, cmds, cur, queue, batch, mgr, netVars, supVars, recv,
                 events, shutdown>>

HandlerQueues ==
  /\ cmd = "queue" /\ cmd' = "recv"
  /\ UNCHANGED <<uiVars, cmds, cur, batch, mgr, netVars, supVars, recv, wire,
                 events, shutdown>>

\* Mutant: the newest text goes to the front of the queue.
QueueForLaterFront ==
  /\ HandlerQueues
  /\ \/ Len(queue) < QueueCap /\ queue' = <<cur>> \o queue /\ UNCHANGED lost
     \/ Len(queue) = QueueCap /\ Lose(cur, "told") /\ UNCHANGED queue

\* Mutant: the cap is off by one.
QueueForLaterOverCap ==
  /\ HandlerQueues
  /\ \/ Len(queue) <= QueueCap /\ queue' = Append(queue, cur) /\ UNCHANGED lost
     \/ Len(queue) > QueueCap /\ Lose(cur, "told") /\ UNCHANGED queue

\* The read guard is gone by now; a full queue drops the new text and says so.
QueueForLater ==
  /\ HandlerQueues
  /\ \/ Len(queue) < QueueCap /\ queue' = Append(queue, cur) /\ UNCHANGED lost
     \/ Len(queue) = QueueCap /\ Lose(cur, "told") /\ UNCHANGED queue

-----------------------------------------------------------------------------
(* The connection and the receive loop *)

\* The relay closes the connection or its host resets it; or the network fails,
\* and as the client sends no pings and sets no timeout, nothing says so.
LinkDrops ==
  /\ link = "up"
  /\ link' \in {"down", "silent"}
  /\ UNCHANGED <<uiVars, cmds, cmdVars, queue, batch, mgr, sessions, supVars,
                 recv, relayVars, events, shutdown>>

\* The network stack gives up on data that is not acknowledged, or is told at last
\* that the other end is gone. On an idle connection neither has to happen.
LinkGivesUp ==
  /\ link = "silent"
  /\ link' = "down"
  /\ UNCHANGED <<uiVars, cmds, cmdVars, queue, batch, mgr, sessions, supVars,
                 recv, relayVars, events, shutdown>>

\* Mutant: the receive loop leaves the status event to the supervisor.
ReceiveClosedSilent ==
  /\ sup = "watch" /\ recv = "run" /\ link = "down"
  /\ recv' = "ended"
  /\ UNCHANGED <<uiVars, cmds, cmdVars, queue, batch, mgr, netVars, supVars,
                 relayVars, events, shutdown>>

\* Mutant: the closed connection is taken for an error to log and go on after.
ReceiveClosedUnnoticed ==
  /\ sup = "watch" /\ recv = "run" /\ link = "down"
  /\ UNCHANGED vars

\* receive_one reports the closed connection: the loop sends the status and
\* ends, releasing its read guard.
ReceiveClosed ==
  /\ sup = "watch" /\ recv = "run" /\ link = "down"
  /\ recv' = "ended"
  /\ events' = Append(events, "down")
  /\ UNCHANGED <<uiVars, cmds, cmdVars, queue, batch, mgr, netVars, supVars,
                 relayVars, shutdown>>

-----------------------------------------------------------------------------
(* The supervisor *)

\* The receive loop has been joined.
Joined ==
  /\ sup = "watch" /\ recv = "ended"
  /\ sup' = IF shutdown THEN "exit" ELSE "clear"
  /\ UNCHANGED <<uiVars, cmds, cmdVars, queue, batch, mgr, netVars, attempt,
                 recv, relayVars, events, shutdown>>

ClearManager ==
  /\ sup = "clear"
  /\ mgr' = FALSE
  /\ sup' = "notify"
  /\ UNCHANGED <<uiVars, cmds, cmdVars, queue, batch, netVars, attempt, recv,
                 relayVars, events, shutdown>>

\* The disconnected status; the forwarder is aborted and an outage begins.
NotifyDown ==
  /\ sup = "notify"
  /\ events' = Append(events, "down")
  /\ attempt' = 0
  /\ sup' = "backoff"
  /\ UNCHANGED <<uiVars, cmds, cmdVars, queue, batch, mgr, netVars, recv, relayVars,
                 shutdown>>

\* reconnect_with_backoff, before a connection attempt (the flag is read before
\* and after the sleep). When the attempts are used up, the supervisor ends.
StartAttempt ==
  /\ sup = "backoff"
  /\ \/ /\ shutdown
        /\ sup' = "exit"
        /\ UNCHANGED events
     \/ /\ ~shutdown /\ attempt < MaxAttempts
        /\ events' = Append(events, "retry")
        /\ sup' = "connect"
     \/ /\ ~shutdown /\ attempt = MaxAttempts
        /\ events' = Append(events, "failed")
        /\ sup' = "exit"
  /\ UNCHANGED <<uiVars, cmds, cmdVars, queue, batch, mgr, netVars, attempt,
                 recv, relayVars, shutdown>>

\* RelayTransport::connect succeeds.
Connected ==
  /\ sup = "connect"
  /\ sessions < MaxSessions
  /\ sessions' = sessions + 1
  /\ link' = "up"
  /\ sup' = "swap"
  /\ UNCHANGED <<uiVars, cmds, cmdVars, queue, batch, mgr, attempt, recv, relayVars,
                 events, shutdown>>

\* Mutant: a failed attempt is not counted.
ConnectFailsUncounted ==
  /\ sup = "connect"
  /\ sup' = "backoff"
  /\ UNCHANGED <<uiVars, cmds, cmdVars, queue, batch, mgr, netVars, attempt, recv,
                 relayVars, events, shutdown>>

\* It fails or times out.
ConnectFails ==
  /\ sup = "connect"
  /\ attempt' = attempt + 1
  /\ sup' = "backoff"
  /\ UNCHANGED <<uiVars, cmds, cmdVars, queue, batch, mgr, netVars, recv, relayVars,
                 events, shutdown>>

SwapManager ==
  /\ sup = "swap"
  /\ mgr' = TRUE
  /\ sup' = "drain"
  /\ UNCHANGED <<uiVars, cmds, cmdVars, queue, batch, netVars, attempt, recv,
                 relayVars, events, shutdown>>

\* Mutant: the texts are copied out of the queue and stay in it.
TakeQueueCopy ==
  /\ sup = "drain"
  /\ batch' = queue
  /\ sup' = "send"
  /\ UNCHANGED <<uiVars, cmds, cmdVars, queue, mgr, netVars, attempt, recv, relayVars,
                 events, shutdown>>

\* drain_message_queue takes the whole queue.
TakeQueue ==
  /\ sup = "drain"
  /\ batch' = queue
  /\ queue' = << >>
  /\ sup' = "send"
  /\ UNCHANGED <<uiVars, cmds, cmdVars, mgr, netVars, attempt, recv, relayVars,
                 events, shutdown>>

\* One message of it; one that fails is reported and given up.
SendQueued ==
  /\ sup = "send" /\ batch # << >>
  /\ batch' = Tail(batch)
  /\ \/ Sent(Head(batch))
     \/ SendFails(Head(batch)) /\ Lose(Head(batch), "told") /\ UNCHANGED wire
  /\ UNCHANGED <<uiVars, cmds, cmdVars, queue, mgr, netVars, supVars, recv,
                 events, shutdown>>

Drained ==
  /\ sup = "send" /\ batch = << >>
  /\ sup' = "announce"
  /\ UNCHANGED <<uiVars, cmds, cmdVars, queue, batch, mgr, netVars, attempt,
                 recv, relayVars, events, shutdown>>

\* The connected status; a new receive loop starts.
AnnounceUp ==
  /\ sup = "announce"
  /\ events' = Append(events, "up")
  /\ sup' = "watch"
  /\ recv' = "run"
  /\ UNCHANGED <<uiVars, cmds, cmdVars, queue, batch, mgr, netVars, attempt,
                 relayVars, shutdown>>

-----------------------------------------------------------------------------

CommandHandler == TakeCommand \/ SendDirect \/ QueueForLater

Supervisor ==
  \/ Joined \/ ClearManager \/ NotifyDown \/ StartAttempt
  \/ Connected \/ ConnectFails \/ SwapManager
  \/ TakeQueue \/ SendQueued \/ Drained \/ AnnounceUp

Next ==
  \/ Submit \/ UiTakes \/ Quit
  \/ CommandHandler \/ LinkDrops \/ LinkGivesUp \/ ReceiveClosed \/ Supervisor

Spec == Init /\ [][Next]_vars

\* Every task keeps running, the main loop polls its events, a sleep and a
\* connection attempt end (they have timeouts), and a reader is told of a connection
\* that was closed. Nobody has to submit or quit, no connection has to drop, and
\* one that is silent may stay so.
Fairness ==
  /\ WF_vars(UiTakes) /\ WF_vars(CommandHandler)
  /\ WF_vars(ReceiveClosed) /\ WF_vars(Supervisor)

FairSpec == Spec /\ Fairness

-----------------------------------------------------------------------------
(* Properties *)

Texts(q) == {q[i] : i \in 1..Len(q)} \ {Shutdown}
Current == IF cmd \in {"send", "queue"} THEN <<cur>> ELSE << >>

\* What waits to be sent, the oldest first (and Shutdown, which is no text).
Waiting == batch \o queue \o Current \o cmds

\* The texts of q are in the order of submission, and none is in it twice.
Sorted(q) == \A i, j \in 1..Len(q) :
               i < j /\ Shutdown \notin {q[i], q[j]} => q[i] < q[j]

Service == INSTANCE Mailbox WITH
  Peers <- {"relay"},
  taken <- submitted,
  pending <- {<<m, "relay">> : m \in Texts(Waiting)},
  inbox <- [p \in {"relay"} |-> Texts(wire)]

\* A submitted text reaches the relay at most once, although it may travel
\* through the channel, the handler, the offline queue and the drain.
SentAtMostOnce ==
  /\ Service!Spec
  /\ [](\A i, j \in 1..Len(wire) : wire[i] = wire[j] => i = j)

\* The command channel, the handler, the queue and the batch being drained keep
\* the order of submission (what is drained was queued in that order).
WaitingInOrder == Sorted(Waiting)

Lost == lost["told"] \cup lost["busy"] \cup lost["dead"]

\* No text vanishes: each one submitted waits, or has reached the relay, or was taken
\* by a dead connection, or is one of which the user was told that it is not sent,
\* dropped or failed, or that the network is busy. And what he was told was not
\* sent is not sent after all, and will not be.
NoTextVanishes ==
  /\ 1..submitted = Texts(Waiting) \cup Texts(wire) \cup Lost
  /\ Lost \cap (Texts(Waiting) \cup Texts(wire)) = {}

\* What the user sees last: if the newest status is "connected", there is a
\* ChatManager to send with, so a command that the gate lets pass can be sent.
\* It holds because the receive loop reports the outage before it ends.
NewestStatus == IF events = << >> THEN uiConnected
                                  ELSE events[Len(events)] = "up"
ConnectedMeansManager == NewestStatus => mgr

\* An outage ends: the supervisor watches a new connection, or it has ended.
OutageEnds == sup \notin {"watch", "exit"} ~> sup \in {"watch", "exit"}

\* The user learns of every outage that lasts, if the network stack does.
OutageIsShown == link = "down" ~> link = "up" \/ ~uiConnected \/ quit

\* UC-011, "Relay WebSocket connection drops (server restart, network blip, etc.)":
\* of any outage that lasts. (Not of a silent one: nothing ever reads an error.)
EveryOutageIsShown == link # "up" ~> link = "up" \/ ~uiConnected \/ quit

\* UC-011 invariant 2, "no message loss for messages sent during disconnection": a
\* text that the user is not told about waits or has reached the relay. (Not
\* if a connection took it whose death nobody had noticed.)
OutageLosesNothing == 1..submitted \subseteq Texts(Waiting \o wire) \cup lost["told"]

\* UC-010 7a, "Message queued, network busy": what the user is told is queued waits
\* somewhere or was sent. (It was dropped: try_send gives the command back.)
BusyMeansQueued == lost["busy"] \subseteq Texts(Waiting \o wire)

\* UC-011 postcondition 2, "messages queued during disconnection are sent after
\* reconnect": with a connection watched and the handler idle, nothing waits in
\* the queue. (It may: the handler can queue after the queue was drained.)
QueueIsDrained ==
  sup = "watch" /\ recv = "run" /\ link = "up" /\ cmd = "recv" => queue = << >>
=============================================================================
