--------------------------- MODULE HybridTransport ---------------------------
(***************************************************************************)
(* HybridTransport<QuicTransport, RelayTransport>: what is sent goes to    *)
(* the preferred transport, then to the fallback, then into the pending    *)
(* queue, which flushes drain; what is received comes from whichever of    *)
(* the two has something first, the other one's receive being dropped.     *)
(* One client sends, the other receives.                                   *)
(*                                                                         *)
(* The tasks that send and flush share the queue; each await is a step     *)
(* boundary. Payloads are numbered in the order they are handed in.        *)
(***************************************************************************)
EXTENDS QuicTransport, RelayTransport, Queues, Functions, SequencesExt

CONSTANTS
  Callers,      \* tasks that call send, or put into the public pending queue
  FlushTasks,   \* made by spawn_flush_task: they may be aborted
  Flushers,     \* tasks that call flush_pending by hand
  ByName        \* payloads addressed by another name than the one QUIC knows

Tasks == Callers \cup FlushTasks \cup Flushers

ASSUME HybridAssumption ==
  /\ RelayPayloads = Payloads
  /\ NoTask \notin Tasks
  /\ Callers \cap (FlushTasks \cup Flushers) = {}
  /\ ByName \subseteq Payloads

VARIABLES
  sends,     \* payloads handed in
  at,        \* where each task stands
  carried,   \* the payload it carries, in a sequence of at most one
  batch,     \* what a flush has drained and not come to yet
  pending,   \* HybridTransport::pending
  handed,    \* <<transport, payload>>: what a transport has taken
  returned   \* <<transport, payload>>: what recv has returned

taskVars == <<sends, at, carried, batch, pending>>
vars == <<quicVars, relayVars, taskVars, handed, returned>>

Transports == {"quic", "relay"}

TypeOK ==
  /\ QuicTypeOK(Tasks) /\ RelayTransportTypeOK
  /\ sends \in 0..MaxSends
  /\ at \in [Tasks -> {"idle", "preferred", "payload", "fallback", "queue",
                       "gone"}]
  /\ carried \in [Tasks -> Seq(Payloads)]
  /\ \A t \in Tasks :
       Len(carried[t]) = (IF at[t] \in {"idle", "gone"} THEN 0 ELSE 1)
  /\ batch \in [Tasks -> Seq(Payloads)]
  /\ pending \in Seq(Payloads)
  /\ handed \in Seq(Transports \X Payloads)
  /\ returned \in Seq(Transports \X Payloads)

Init ==
  /\ QuicInit /\ RelayTransportInit
  /\ sends = 0
  /\ at = [t \in Tasks |-> "idle"]
  /\ carried = [t \in Tasks |-> << >>]
  /\ batch = [t \in Tasks |-> << >>]
  /\ pending = << >>
  /\ handed = << >> /\ returned = << >>

\* The two transports exist, so there is a HybridTransport of them.
Built == dialer = "ready" /\ joining = "ready"

Step(t, s) == at' = [at EXCEPT ![t] = s]
Cargo(t) == Head(carried[t])

\* Task t goes on with the first payload of list, or is at the end of it.
Load(t, list) ==
  \/ /\ list = << >>
     /\ Step(t, "idle")
     /\ carried' = [carried EXCEPT ![t] = << >>]
     /\ UNCHANGED batch
  \/ /\ list # << >>
     /\ Step(t, "preferred")
     /\ carried' = [carried EXCEPT ![t] = <<Head(list)>>]
     /\ batch' = [batch EXCEPT ![t] = Tail(list)]

\* The task is done with its payload; a flush goes on to the next.
Unload(t) == Load(t, batch[t])

-----------------------------------------------------------------------------
(* send and flush_pending *)

\* A caller sends the next payload.
Send(c) ==
  /\ Built
  /\ at[c] = "idle" /\ sends < MaxSends
  /\ sends' = sends + 1
  /\ Step(c, "preferred")
  /\ carried' = [carried EXCEPT ![c] = <<sends'>>]
  /\ UNCHANGED <<quicVars, relayVars, batch, pending, handed, returned>>

\* A caller puts it into the queue itself, which is a public field.
EnqueueByHand(c) ==
  /\ Built
  /\ at[c] = "idle" /\ sends < MaxSends
  /\ sends' = sends + 1
  /\ pending' = Append(pending, sends')
  /\ UNCHANGED <<quicVars, relayVars, at, carried, batch, handed, returned>>

\* try_send, the preferred transport: a name it does not know is unreachable.
TryPreferred(t) ==
  /\ at[t] = "preferred"
  /\ \/ /\ Cargo(t) \notin ByName
        /\ QuicSendPrefix(t, Cargo(t))
        /\ Step(t, "payload")
     \/ /\ Cargo(t) \notin ByName
        /\ QuicSendFails(t)
        /\ Step(t, "fallback")
     \/ /\ Cargo(t) \in ByName
        /\ Step(t, "fallback")
        /\ UNCHANGED quicVars
  /\ UNCHANGED <<relayVars, sends, carried, batch, pending, handed, returned>>

FinishPreferred(t) ==
  /\ at[t] = "payload"
  /\ \/ /\ QuicSendPayload(t, Cargo(t))
        /\ handed' = Append(handed, <<"quic", Cargo(t)>>)
        /\ Unload(t)
     \/ /\ QuicSendFails(t)
        /\ Step(t, "fallback")
        /\ UNCHANGED <<carried, batch, handed>>
  /\ UNCHANGED <<relayVars, sends, pending, returned>>

TryFallback(t) ==
  /\ at[t] = "fallback"
  /\ \/ /\ RelaySend(Cargo(t))
        /\ handed' = Append(handed, <<"relay", Cargo(t)>>)
        /\ Unload(t)
     \/ /\ RelaySendFails
        /\ Step(t, "queue")
        /\ UNCHANGED <<carried, batch, handed>>
  /\ UNCHANGED <<quicVars, sends, pending, returned>>

\* Both failed: send queues the payload and reports the error; a flush queues it
\* again, behind what came in the meantime.
Enqueue(t) ==
  /\ at[t] = "queue"
  /\ pending' = Append(pending, Cargo(t))
  /\ Unload(t)
  /\ UNCHANGED <<quicVars, relayVars, sends, handed, returned>>

\* Mutant: the queue is copied and not drained.
DrainAllCopy(f) ==
  /\ at[f] = "idle" /\ pending # << >>
  /\ Load(f, pending)
  /\ UNCHANGED <<quicVars, relayVars, sends, pending, handed, returned>>

\* Mutant: off by one, a queue of one payload is not worth a flush.
DrainAllTwo(f) ==
  /\ at[f] = "idle" /\ Len(pending) > 1
  /\ Load(f, pending)
  /\ pending' = << >>
  /\ UNCHANGED <<quicVars, relayVars, sends, handed, returned>>

\* flush_pending takes everything out of the queue, to send it in order.
DrainAll(f) ==
  /\ at[f] = "idle" /\ pending # << >>
  /\ Load(f, pending)
  /\ pending' = << >>
  /\ UNCHANGED <<quicVars, relayVars, sends, handed, returned>>

\* The handle of the flush task is aborted, at whatever await it has reached:
\* what it carries and what it has drained is gone.
AbortFlush(f) ==
  /\ at[f] # "gone"
  /\ QuicSendAborted(f)
  /\ Step(f, "gone")
  /\ carried' = [carried EXCEPT ![f] = << >>]
  /\ batch' = [batch EXCEPT ![f] = << >>]
  /\ UNCHANGED <<relayVars, sends, pending, handed, returned>>

-----------------------------------------------------------------------------
(* recv, at the other client *)

Recv == QuicRecvCalled /\ UNCHANGED <<relayVars, taskVars, handed, returned>>

RecvReadsPrefix ==
  QuicReadPrefix /\ UNCHANGED <<relayVars, taskVars, handed, returned>>

RecvFromPreferred ==
  \E m \in Payloads :
    /\ QuicReadPayload(m)
    /\ returned' = Append(returned, <<"quic", m>>)
    /\ UNCHANGED <<relayVars, taskVars, handed>>

\* The fallback is first; select! drops the receive of the preferred transport.
RecvFromFallback ==
  \E m \in Payloads :
    /\ reading # "off"
    /\ RelayRecv(m)
    /\ QuicRecvDropped
    /\ returned' = Append(returned, <<"relay", m>>)
    /\ UNCHANGED <<taskVars, handed>>

\* The caller gives up waiting (await_ack), or the fallback is closed, which ends
\* the receive although the preferred transport may be alive.
RecvGivenUp ==
  /\ reading # "off"
  /\ QuicRecvDropped
  /\ RelayRecvClosed \/ UNCHANGED relayVars
  /\ UNCHANGED <<taskVars, handed, returned>>

RecvFails ==
  /\ QuicMisreads \/ QuicRecvClosed
  /\ UNCHANGED <<relayVars, taskVars, handed, returned>>

-----------------------------------------------------------------------------

Setup ==
  /\ QuicDial \/ QuicOpen \/ QuicAccept
  /\ UNCHANGED <<relayVars, taskVars, handed, returned>>

Network ==
  \/ QuicCloses /\ UNCHANGED <<relayVars, taskVars, handed, returned>>
  \/ /\ RelayJoin \/ RelayLinkDrops \/ RelayLinkNoticed
        \/ RelayLoses \/ RelayRead \/ RelayReaderExits
     /\ UNCHANGED <<quicVars, taskVars, handed, returned>>

TaskStep(t) ==
  \/ TryPreferred(t) \/ FinishPreferred(t) \/ TryFallback(t) \/ Enqueue(t)
  \/ t \notin Callers /\ DrainAll(t)

Receiver == Recv \/ RecvReadsPrefix \/ RecvFromPreferred \/ RecvFromFallback
                 \/ RecvGivenUp \/ RecvFails

Next ==
  \/ Setup \/ Network \/ Receiver
  \/ \E c \in Callers : Send(c) \/ EnqueueByHand(c)
  \/ \E t \in Tasks : TaskStep(t)
  \/ \E f \in FlushTasks : AbortFlush(f)

Spec == Init /\ [][Next]_vars

\* A task that has something to do goes on until it is aborted (a write ends: the
\* other end reads, or the connection is given up), and a flush task
\* ticks for ever. Nobody has to send or to flush by hand; the transports need
\* not fail, or work.
Fairness ==
  \A t \in Tasks : WF_vars(TaskStep(t) /\ (t \in FlushTasks \/ at[t] # "idle"))

FairSpec == Spec /\ Fairness

-----------------------------------------------------------------------------
(* Properties *)

\* The payloads of the entries of s that belong to transport tr.
Via(tr, s) ==
  LET of == Picked(s, {i \in DOMAIN s : s[i][1] = tr})
  IN [i \in DOMAIN of |-> of[i][2]]

HeldBy(t) == carried[t] \o batch[t]
Taken == {handed[i][2] : i \in DOMAIN handed}
Held == ToSet(pending) \cup UNION {ToSet(HeldBy(t)) : t \in Tasks}

\* A payload is in one place: in the queue, with one task, or with a transport.
OneHolder ==
  /\ IsInjective(pending)
  /\ \A i, j \in DOMAIN handed : handed[i][2] = handed[j][2] => i = j
  /\ Taken \cap Held = {}
  /\ \A t \in Tasks :
       /\ IsInjective(HeldBy(t))
       /\ ToSet(HeldBy(t)) \cap ToSet(pending) = {}
       /\ \A u \in Tasks \ {t} : ToSet(HeldBy(t)) \cap ToSet(HeldBy(u)) = {}

\* send, flush_pending: whatever fails and whoever flushes at the same time, a
\* payload is handed to a transport at most once, and nobody lets go of it
\* before, unless the flush task that holds it is aborted.
HeldUntilHanded ==
  [][/\ OneHolder'
     /\ \A m \in Held \ Held' :
          m \in Taken' \/ \E f \in FlushTasks : at[f] # "gone" /\ at'[f] = "gone"]_vars

\* What has come out of QUIC, or is on the stream, of what was handed to it.
OnQuic ==
  LET coming == [i \in DOMAIN stream |-> <<stream[i].part, stream[i].of>>]
  IN Via("quic", returned) \o Via("payload", coming)

Before(q, x, y) == \E i, j \in DOMAIN q : i < j /\ q[i] = x /\ q[j] = y

\* Each return of recv drops the receive of the other transport, and reads go
\* wrong after that. Still: what QUIC returns comes in the order in which it was
\* handed over, each payload once; and what reader_loop has read from the relay is
\* returned in the order of its arrival, or waits in the channel.
ReceivedInOrder ==
  LET quic == Via("quic", returned) IN
  /\ \A i, j \in DOMAIN quic : i < j => Before(Via("quic", handed), quic[i], quic[j])
  /\ Via("relay", returned) \o incoming = arrived

\* A connected QUIC transport skips nothing before a frame is cut, by a receive
\* that is dropped after the length, a flush that is aborted between the two writes,
\* or a length that is refused: neither senders at the same time, nor the marker,
\* nor the end of the connection do it.
OnlyCutsSkip ==
  /\ ~torn => IsPrefix(OnQuic, Via("quic", handed))
  /\ ~torn /\ conn = "up" => OnQuic = Via("quic", handed)

\* hybrid.rs:466, the test of interleaved receives, "all messages must arrive":
\* while recv returns what comes by the relay, what a connected QUIC transport took
\* is returned or on the stream. (It need not be: the return drops the receive of
\* QUIC, and after the length that cuts the frame.)
AllArrive == conn = "up" /\ returned # << >> => OnQuic = Via("quic", handed)

\* No transport can take the payload any more. Neither of them reconnects.
OutOfReach(m) == (conn = "closed" \/ m \in ByName) /\ ~connected

\* flush_pending, spawn_flush_task: in the end nothing is waiting, whatever came
\* in and failed before, as long as the flush task runs and a transport works.
PendingIsFlushed ==
  <>[](\A m \in Held : OutOfReach(m) \/ \E f \in FlushTasks : at[f] = "gone")
=============================================================================
