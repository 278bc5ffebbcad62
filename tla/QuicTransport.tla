---------------------------- MODULE QuicTransport ----------------------------
(***************************************************************************)
(* The peer-to-peer transport of the client: how a QUIC connection with    *)
(* its one stream is set up between the peer that dials and the peer that  *)
(* listens, and how payloads are framed on the stream, dialer to listener: *)
(* a length prefix and then the payload, each written and read by an await *)
(* of its own.                                                             *)
(*                                                                         *)
(* A frame is two chunks of the stream. The bytes a read takes out of      *)
(* step with the frames are whatever they are: see QuicMisreads.           *)
(***************************************************************************)
EXTENDS Naturals, Sequences

CONSTANTS
  MaxSends,    \* bound: payloads given to the transport
  Oversized,   \* the payloads longer than MAX_PAYLOAD_SIZE
  NoTask,      \* nobody holds the send_stream mutex
  NoPayload    \* recv has read no prefix

Payloads == 1..MaxSends

ASSUME QuicAssumption ==
  /\ MaxSends \in Nat
  /\ Oversized \subseteq Payloads
  /\ NoPayload \notin Payloads

\* "junk" is what an out of step read leaves of a chunk.
Chunk == [part : {"marker", "prefix", "payload", "junk"},
          of : Payloads \cup {NoPayload}]
Marker == [part |-> "marker", of |-> NoPayload]
Junk == [part |-> "junk", of |-> NoPayload]
Prefix(m) == [part |-> "prefix", of |-> m]
Body(m) == [part |-> "payload", of |-> m]

VARIABLES
  dialer,    \* where connect_with_timeout stands
  listener,  \* where accept stands
  conn,      \* the connection: "none", "up", "closed"
  stream,    \* chunks written and not read yet
  writing,   \* the task that holds send_stream, between prefix and payload
  reading,   \* recv: "off", "prefix" or "payload", the part it waits for
  expected,  \* the payload whose prefix recv has read
  torn       \* a frame was cut: written or read in part only

setupVars == <<dialer, listener>>
readVars == <<reading, expected>>
quicVars == <<setupVars, conn, stream, writing, readVars, torn>>

QuicTypeOK(tasks) ==
  /\ dialer \in {"dial", "open", "mark", "ready", "failed"}
  /\ listener \in {"accept", "stream", "marker", "ready", "failed"}
  /\ conn \in {"none", "up", "closed"}
  /\ stream \in Seq(Chunk)
  /\ writing \in tasks \cup {NoTask}
  /\ reading \in {"off", "prefix", "payload"}
  /\ expected \in Payloads \cup {NoPayload}
  /\ torn \in BOOLEAN

QuicInit ==
  /\ dialer = "dial" /\ listener = "accept"
  /\ conn = "none"
  /\ stream = << >>
  /\ writing = NoTask
  /\ reading = "off" /\ expected = NoPayload
  /\ torn = FALSE

-----------------------------------------------------------------------------
(* Setting up *)

\* connect_with_timeout: the handshake succeeds, or it fails or times out.
QuicDial ==
  /\ dialer = "dial"
  /\ \/ dialer' = "open" /\ conn' = "up"
     \/ dialer' = "failed" /\ UNCHANGED conn
  /\ UNCHANGED <<listener, stream, writing, readVars, torn>>

\* open_bi, and then the marker, without which the listener sees no stream.
QuicOpen ==
  /\ \/ /\ dialer = "open" /\ conn = "up"
        /\ dialer' = "mark"
        /\ UNCHANGED stream
     \/ /\ dialer = "mark" /\ conn = "up"
        /\ dialer' = "ready"
        /\ stream' = Append(stream, Marker)
     \/ /\ dialer \in {"open", "mark"} /\ conn = "closed"
        /\ dialer' = "failed"
        /\ UNCHANGED stream
  /\ UNCHANGED <<listener, conn, writing, readVars, torn>>

\* Mutant: the listener leaves the marker to the first receive.
QuicAcceptKeepsMarker ==
  /\ \/ /\ listener = "accept" /\ conn = "up"
        /\ listener' = "stream"
     \/ /\ listener = "stream" /\ stream # << >>
        /\ listener' = "ready"
     \/ /\ listener \in {"accept", "stream"} /\ conn = "closed"
        /\ stream = << >>
        /\ listener' = "failed"
  /\ UNCHANGED <<dialer, stream, conn, writing, readVars, torn>>

\* QuicListener::accept: the connection, its first stream (once it carries
\* data), and the marker, which is read and discarded.
QuicAccept ==
  /\ \/ /\ listener = "accept" /\ conn = "up"
        /\ listener' = "stream"
        /\ UNCHANGED stream
     \/ /\ listener = "stream" /\ stream # << >>
        /\ listener' = "marker"
        /\ UNCHANGED stream
     \/ /\ listener = "marker" /\ stream # << >>
        /\ listener' = "ready"
        /\ stream' = Tail(stream)
     \/ /\ listener \in {"accept", "stream", "marker"} /\ conn = "closed"
        /\ stream = << >>
        /\ listener' = "failed"
        /\ UNCHANGED stream
  /\ UNCHANGED <<dialer, conn, writing, readVars, torn>>

\* The connection ends, for both sides and for good: nothing reconnects a
\* QuicTransport. Of what is under way, some has arrived.
QuicCloses ==
  /\ conn = "up"
  /\ conn' = "closed"
  /\ \E n \in 0..Len(stream) : stream' = SubSeq(stream, 1, n)
  /\ UNCHANGED <<setupVars, writing, readVars, torn>>

-----------------------------------------------------------------------------
(* send, by task t, of payload m *)

\* The mutex is free, and the length is written (whatever it is).
QuicSendPrefix(t, m) ==
  /\ writing = NoTask
  /\ conn = "up"
  /\ stream' = Append(stream, Prefix(m))
  /\ writing' = t
  /\ UNCHANGED <<setupVars, conn, readVars, torn>>

QuicSendPayload(t, m) ==
  /\ writing = t
  /\ conn = "up"
  /\ stream' = Append(stream, Body(m))
  /\ writing' = NoTask
  /\ UNCHANGED <<setupVars, conn, readVars, torn>>

\* Either write fails.
QuicSendFails(t) ==
  /\ writing \in {NoTask, t}
  /\ conn = "closed"
  /\ writing' = NoTask
  /\ UNCHANGED <<setupVars, conn, stream, readVars, torn>>

\* The task is aborted: between the two writes it leaves a prefix behind.
QuicSendAborted(t) ==
  /\ writing' = IF writing = t THEN NoTask ELSE writing
  /\ torn' = (torn \/ writing = t)
  /\ UNCHANGED <<setupVars, conn, stream, readVars>>

-----------------------------------------------------------------------------
(* recv at the listener *)

QuicRecvCalled ==
  /\ listener = "ready" /\ reading = "off"
  /\ reading' = "prefix"
  /\ UNCHANGED <<setupVars, conn, stream, writing, expected, torn>>

RecvOver == reading' = "off" /\ expected' = NoPayload

\* A length within the limit; one above it is an error that leaves the payload
\* where it is.
QuicReadPrefix ==
  /\ reading = "prefix"
  /\ stream # << >> /\ Head(stream).part = "prefix"
  /\ stream' = Tail(stream)
  /\ \/ /\ Head(stream).of \notin Oversized
        /\ reading' = "payload" /\ expected' = Head(stream).of
        /\ UNCHANGED torn
     \/ /\ Head(stream).of \in Oversized
        /\ RecvOver
        /\ torn' = TRUE
  /\ UNCHANGED <<setupVars, conn, writing>>

\* The payload that belongs to the prefix.
QuicReadPayload(m) ==
  /\ reading = "payload" /\ expected = m
  /\ stream # << >> /\ Head(stream) = Body(m)
  /\ stream' = Tail(stream)
  /\ RecvOver
  /\ UNCHANGED <<setupVars, conn, writing, torn>>

\* The future is dropped: read_exact is not cancel safe, and a prefix that has
\* been read is gone.
QuicRecvDropped ==
  /\ RecvOver
  /\ torn' = (torn \/ reading = "payload")
  /\ UNCHANGED <<setupVars, conn, stream, writing>>

OutOfStep ==
  \/ reading = "prefix" /\ Head(stream).part # "prefix"
  \/ reading = "payload" /\ Head(stream) # Body(expected)

\* Bytes of other chunks are taken for a length or for a payload: recv ends with
\* an error or with bytes nobody sent, having used up any number of chunks and
\* perhaps the first bytes of the next. (By luck it may end in step again.)
QuicMisreads ==
  /\ reading # "off"
  /\ stream # << >> /\ OutOfStep
  /\ \E n \in 0..Len(stream) :
       LET rest == SubSeq(stream, n + 1, Len(stream)) IN
       \/ n > 0 /\ stream' = rest
       \/ rest # << >> /\ stream' = <<Junk>> \o Tail(rest)
  /\ RecvOver
  /\ UNCHANGED <<setupVars, conn, writing, torn>>

\* recv reports the closed connection, every time it is called.
QuicRecvClosed ==
  /\ reading # "off"
  /\ conn = "closed" /\ stream = << >>
  /\ RecvOver
  /\ UNCHANGED <<setupVars, conn, stream, writing, torn>>
=============================================================================
