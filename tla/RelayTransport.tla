--------------------------- MODULE RelayTransport ---------------------------
(***************************************************************************)
(* The WebSocket transport of the client: connecting and registering with  *)
(* the relay, the send half with its connected flag, and, at the receiving *)
(* client, the reader task that feeds the bounded channel recv reads from. *)
(* Payloads go from the client that connects here to the other one. What   *)
(* the relay does between them is in RelayServer; here, what it promises:  *)
(* a payload arrives at most once, in any order, and any may be lost.      *)
(***************************************************************************)
EXTENDS Naturals, Sequences

CONSTANTS
  RelayPayloads,  \* what is sent
  ChannelCap      \* capacity of the channel between reader_loop and recv

ASSUME RelayTransportAssumption == ChannelCap \in Nat \ {0}

VARIABLES
  joining,    \* where connect_with_timeouts stands
  link,       \* the sender's WebSocket
  connected,  \* RelayTransport::connected of the sender
  relayed,    \* what the relay took and the receiver has not read
  reader,     \* the receiver's reader_loop: "run", "exit"
  arrived,    \* what reader_loop has read, in order (history)
  incoming    \* the receiver's channel

relayVars == <<joining, link, connected, relayed, reader, arrived, incoming>>

RelayTransportTypeOK ==
  /\ joining \in {"dial", "register", "await", "ready", "failed"}
  /\ link \in {"up", "down"}
  /\ connected \in BOOLEAN
  /\ relayed \subseteq RelayPayloads
  /\ reader \in {"run", "exit"}
  /\ arrived \in Seq(RelayPayloads)
  /\ incoming \in Seq(RelayPayloads) /\ Len(incoming) <= ChannelCap

RelayTransportInit ==
  /\ joining = "dial"
  /\ link = "down" /\ connected = FALSE
  /\ relayed = {}
  /\ reader = "run" /\ arrived = << >> /\ incoming = << >>

-----------------------------------------------------------------------------

\* connect_with_timeouts: the WebSocket is opened (or refused, or the timeout
\* passes), Register is sent, and the answer awaited. Only Registered makes a
\* transport; Error, anything else, a malformed or non-binary frame, the end of
\* the stream and the timeout do not.
RelayJoin ==
  /\ \/ joining = "dial" /\ joining' = "register" /\ link' = "up" /\ UNCHANGED connected
     \/ joining = "register" /\ link = "up" /\ joining' = "await"
        /\ UNCHANGED <<link, connected>>
     \/ joining = "await" /\ link = "up" /\ joining' = "ready"
        /\ connected' = TRUE /\ UNCHANGED link
     \/ joining \in {"dial", "register", "await"} /\ joining' = "failed"
        /\ link' = "down" /\ UNCHANGED connected
  /\ UNCHANGED <<relayed, reader, arrived, incoming>>

RelayLinkDrops ==
  /\ link = "up"
  /\ link' = "down"
  /\ UNCHANGED <<joining, connected, relayed, reader, arrived, incoming>>

\* The sender's own reader_loop sees the end of the connection and clears the
\* flag. Nothing ever sets it again.
RelayLinkNoticed ==
  /\ joining = "ready" /\ link = "down" /\ connected
  /\ connected' = FALSE
  /\ UNCHANGED <<joining, link, relayed, reader, arrived, incoming>>

\* send: accepted by a live connection, or swallowed by the network stack of one
\* that is gone and not noticed yet.
RelaySend(m) ==
  /\ connected
  /\ relayed' = IF link = "up" THEN relayed \cup {m} ELSE relayed
  /\ UNCHANGED <<joining, link, connected, reader, arrived, incoming>>

\* The relay refuses a payload above its limit, evicts one from a full queue, or
\* drops one with a connection.
RelayLoses ==
  /\ relayed # {}
  /\ \E m \in relayed : relayed' = relayed \ {m}
  /\ UNCHANGED <<joining, link, connected, reader, arrived, incoming>>

\* The flag is down already, or the write fails and takes it down.
RelaySendFails ==
  /\ ~connected \/ link = "down"
  /\ connected' = FALSE
  /\ UNCHANGED <<joining, link, relayed, reader, arrived, incoming>>

\* The relay delivers m, and reader_loop reads it off the socket.
RelayArrives(m) ==
  /\ reader = "run"
  /\ relayed' = relayed \ {m}
  /\ arrived' = Append(arrived, m)
  /\ UNCHANGED <<joining, link, connected, reader>>

\* Mutant: the reader does not wait for room in the channel.
RelayReadLossy ==
  \E m \in relayed :
    /\ RelayArrives(m)
    /\ incoming' = IF Len(incoming) < ChannelCap THEN Append(incoming, m) ELSE incoming

\* Mutant: an unbounded channel.
RelayReadUnbounded ==
  \E m \in relayed : RelayArrives(m) /\ incoming' = Append(incoming, m)

\* reader_loop passes a RelayPayload on, waiting while the channel is full. The
\* other frames (Queued, Error, Room, what cannot be decoded) it logs.
RelayRead ==
  \E m \in relayed :
    /\ Len(incoming) < ChannelCap
    /\ RelayArrives(m)
    /\ incoming' = Append(incoming, m)

\* The receiver's connection ends, and its reader with it.
RelayReaderExits ==
  /\ reader = "run"
  /\ reader' = "exit"
  /\ UNCHANGED <<joining, link, connected, relayed, arrived, incoming>>

\* recv: a payload is there.
RelayRecv(m) ==
  /\ incoming # << >> /\ Head(incoming) = m
  /\ incoming' = Tail(incoming)
  /\ UNCHANGED <<joining, link, connected, relayed, reader, arrived>>

\* recv reports the closed connection: the reader is gone and the channel empty.
RelayRecvClosed ==
  /\ incoming = << >> /\ reader = "exit"
  /\ UNCHANGED relayVars
=============================================================================
