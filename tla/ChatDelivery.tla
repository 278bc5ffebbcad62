----------------------------- MODULE ChatDelivery -----------------------------
(***************************************************************************)
(* The delivery pipeline of ChatManager (termchat/src/chat): two peers,    *)
(* each with a task that sends (send_message), a task that receives        *)
(* (receive_one, called by the receive loop or by await_ack) and, if it    *)
(* was made with a history, whoever flushes its ResilientHistoryWriter.    *)
(* The tasks of a peer share the status map, the duplicate set, the        *)
(* history store and the queue of failed history writes; the peers share   *)
(* nothing but the transport.                                              *)
(*                                                                         *)
(* A failing store call and the queueing of the write it leaves are one    *)
(* step: only flush_pending looks at that queue, and it takes it whole.    *)
(***************************************************************************)
EXTENDS Naturals, Sequences, FiniteSets, SequencesExt

CONSTANTS
  Peers,        \* the two ends of a conversation
  Other,        \* the ChatManager::peer_id of each
  Historians,   \* the peers made with_history; spawn_net makes them with new,
                \* without one
  MessageIds,   \* the ids MessageId::new can return
  Author,       \* the peer that draws an id
  Oversized,    \* messages that validate() accepts and whose encoding is
                \* larger than max_payload_size (text of 64 KB and metadata)
  NoMessage,    \* a task that works on no message
  MaxTracking,  \* ChatConfig::max_duplicate_tracking
  MaxFaults,    \* bound: failures of the transport and of the store
  MaxTimeouts   \* bound: ack timeouts that interrupt receive_one

ASSUME ChatAssumption ==
  /\ Other \in [Peers -> Peers] /\ Historians \subseteq Peers
  /\ \A p \in Peers : Other[p] # p /\ Other[Other[p]] = p
  /\ IsFiniteSet(MessageIds)
  /\ Author \in [MessageIds -> Peers]
  /\ Oversized \subseteq MessageIds
  /\ NoMessage \notin MessageIds
  /\ MaxTracking \in Nat
  /\ MaxFaults \in Nat
  /\ MaxTimeouts \in Nat

\* Envelope; "junk" stands for a payload that was damaged. Tasks, presence and typing
\* leave nothing behind here.
Frame == [kind : {"chat", "ack", "nack", "junk"}, id : MessageIds]

\* MessageStatus. (Pending and Failed are never given to a message.)
Status == {"Sent", "Delivered"}

\* PendingWrite.
Write == [op : {"save", "update"}, id : MessageIds, status : Status]

VARIABLES
  used,         \* ids drawn so far
  net,          \* net[p]: what the transport carries to p
  sendPc,       \* where send_message stands
  sending,      \* the message it sends
  recvPc,       \* where receive_one stands
  handling,     \* the message of the envelope it handles
  statuses,     \* ChatManager::statuses
  seen,         \* ChatManager::seen_message_ids
  accepted,     \* messages that came and were no duplicates, ever
  pendingAcks,  \* ChatManager::pending_acks
  hist,         \* the MessageStore: the status a message is stored with
  pend,         \* ResilientHistoryWriter::pending
  flush,        \* what flush_pending has taken and not tried yet
  shown,        \* events MessageReceived emitted, per message
  cleared,      \* times the duplicate set was cleared
  acked,        \* messages whose ack was handled to the end
  faults,       \* failures so far
  timeouts      \* interrupted receives so far

sendVars == <<used, sendPc, sending>>
recvVars == <<recvPc, handling, seen, accepted, pendingAcks, shown, cleared, acked, timeouts>>
histVars == <<hist, pend, flush>>
vars == <<sendVars, recvVars, histVars, net, statuses, faults>>

TypeOK ==
  /\ used \subseteq MessageIds
  /\ net \in [Peers -> Seq(Frame)]
  /\ sendPc \in [Peers -> {"idle", "track", "save"}]
  /\ sending \in [Peers -> MessageIds \cup {NoMessage}]
  /\ recvPc \in [Peers -> {"idle", "save", "ack", "status", "record"}]
  /\ handling \in [Peers -> MessageIds \cup {NoMessage}]
  /\ statuses \in [Peers -> [MessageIds -> Status \cup {"none"}]]
  /\ seen \in [Peers -> SUBSET MessageIds]
  /\ accepted \in [Peers -> SUBSET MessageIds]
  /\ pendingAcks \in [Peers -> SUBSET MessageIds]
  /\ hist \in [Peers -> [MessageIds -> Status \cup {"none"}]]
  /\ pend \in [Peers -> Seq(Write)]
  /\ flush \in [Peers -> Seq(Write)]
  /\ shown \in [Peers -> [MessageIds -> Nat]]
  /\ cleared \in [Peers -> Nat]
  /\ acked \in [Peers -> SUBSET MessageIds]
  /\ faults \in 0..MaxFaults
  /\ timeouts \in 0..MaxTimeouts

Init ==
  /\ used = {}
  /\ net = [p \in Peers |-> << >>]
  /\ sendPc = [p \in Peers |-> "idle"]
  /\ sending = [p \in Peers |-> NoMessage]
  /\ recvPc = [p \in Peers |-> "idle"]
  /\ handling = [p \in Peers |-> NoMessage]
  /\ statuses = [p \in Peers |-> [m \in MessageIds |-> "none"]]
  /\ seen = [p \in Peers |-> {}]
  /\ accepted = [p \in Peers |-> {}]
  /\ pendingAcks = [p \in Peers |-> {}]
  /\ hist = [p \in Peers |-> [m \in MessageIds |-> "none"]]
  /\ pend = [p \in Peers |-> << >>]
  /\ flush = [p \in Peers |-> << >>]
  /\ shown = [p \in Peers |-> [m \in MessageIds |-> 0]]
  /\ cleared = [p \in Peers |-> 0]
  /\ acked = [p \in Peers |-> {}]
  /\ faults = 0
  /\ timeouts = 0

-----------------------------------------------------------------------------
(* Helpers *)

Fault == faults < MaxFaults /\ faults' = faults + 1

Carry(p, k, m) == net' = [net EXCEPT ![p] = Append(@, [kind |-> k, id |-> m])]

RecvGoto(p, s, m) ==
  /\ recvPc' = [recvPc EXCEPT ![p] = s]
  /\ handling' = [handling EXCEPT ![p] = m]

\* MessageStore::save overwrites; update_status needs the message to be there.
Applies(p, w) == w.op = "save" \/ hist[p][w.id] # "none"
Stored(p, w) == hist' = [hist EXCEPT ![p][w.id] = w.status]

\* Mutant: a status update for an unknown message is dropped.
WriteThroughNotFound(p, w) ==
  \/ /\ Applies(p, w)
     /\ Stored(p, w)
     /\ UNCHANGED <<pend, faults>>
  \/ /\ IF Applies(p, w) THEN Fault /\ pend' = [pend EXCEPT ![p] = Append(@, w)]
                         ELSE UNCHANGED <<pend, faults>>
     /\ UNCHANGED hist

\* ResilientHistoryWriter::save and update_status: a write that fails is queued.
WriteThrough(p, w) ==
  \/ /\ Applies(p, w)
     /\ Stored(p, w)
     /\ UNCHANGED <<pend, faults>>
  \/ /\ IF Applies(p, w) THEN Fault ELSE UNCHANGED faults
     /\ pend' = [pend EXCEPT ![p] = Append(@, w)]
     /\ UNCHANGED hist

\* if let Some(ref history): without one nothing is written.
Record(p, w) ==
  \/ p \in Historians /\ WriteThrough(p, w)
  \/ p \notin Historians /\ UNCHANGED <<hist, pend, faults>>

-----------------------------------------------------------------------------
(* send_message *)

\* A message is built, validated, encrypted and handed to the transport. (One
\* that validate() refuses leaves nothing behind.)
Transmit(p) ==
  /\ sendPc[p] = "idle"
  /\ \E m \in MessageIds \ used :
       /\ Author[m] = p
       /\ used' = used \cup {m}
       /\ sending' = [sending EXCEPT ![p] = m]
       /\ Carry(Other[p], "chat", m)
  /\ sendPc' = [sendPc EXCEPT ![p] = "track"]
  /\ UNCHANGED <<recvVars, histVars, statuses, faults>>

\* The transport reports an error, though it may still deliver the payload.
\* send_message returns; send_message_with_retry calls it again, and the next
\* attempt draws another id.
TransmitFails(p) ==
  /\ sendPc[p] = "idle"
  /\ Fault
  /\ \E m \in MessageIds \ used :
       /\ Author[m] = p
       /\ used' = used \cup {m}
       /\ \/ Carry(Other[p], "chat", m)
          \/ UNCHANGED net
  /\ UNCHANGED <<sendPc, sending, recvVars, histVars, statuses>>

\* The status map gets its entry only now, after the transport's await.
TrackSent(p) ==
  /\ sendPc[p] = "track"
  /\ statuses' = [statuses EXCEPT ![p][sending[p]] = "Sent"]
  /\ sendPc' = [sendPc EXCEPT ![p] = "save"]
  /\ UNCHANGED <<used, sending, recvVars, histVars, net, faults>>

\* Mutant: the message is saved as Pending, a status the pipeline never sets.
SaveSentPending(p) ==
  /\ sendPc[p] = "save"
  /\ Record(p, [op |-> "save", id |-> sending[p], status |-> "Pending"])
  /\ sendPc' = [sendPc EXCEPT ![p] = "idle"]
  /\ sending' = [sending EXCEPT ![p] = NoMessage]
  /\ UNCHANGED <<used, recvVars, flush, net, statuses>>

\* history.save and the StatusChanged event.
SaveSent(p) ==
  /\ sendPc[p] = "save"
  /\ Record(p, [op |-> "save", id |-> sending[p], status |-> "Sent"])
  /\ sendPc' = [sendPc EXCEPT ![p] = "idle"]
  /\ sending' = [sending EXCEPT ![p] = NoMessage]
  /\ UNCHANGED <<used, recvVars, flush, net, statuses>>

-----------------------------------------------------------------------------
(* receive_one *)

Arrives(p, k) ==
  /\ recvPc[p] = "idle"
  /\ net[p] # << >>
  /\ Head(net[p]).kind = k

\* A payload above the limit, and a message that is in the duplicate set.
Dropped(p, m) == m \in Oversized \/ m \in seen[p]

\* No ack, and no second ack for a duplicate. A NACK is only logged.
ReceiveDropped(p) ==
  /\ \/ Arrives(p, "chat") /\ Dropped(p, Head(net[p]).id)
     \/ Arrives(p, "nack")
  /\ net' = [net EXCEPT ![p] = Tail(@)]
  /\ UNCHANGED <<sendVars, recvVars, histVars, statuses, faults>>

\* A payload that cannot be decrypted is dropped; one that decrypts and cannot
\* be decoded is answered with a NACK under an id of its own.
ReceiveJunk(p) ==
  LET f == Head(net[p]) IN
  /\ Arrives(p, "junk")
  /\ net' \in {[net EXCEPT ![p] = Tail(@)],
               [net EXCEPT ![p] = Tail(@),
                           ![Other[p]] = Append(@, [f EXCEPT !.kind = "nack"])]}
  /\ UNCHANGED <<sendVars, recvVars, histVars, statuses, faults>>

\* Mutant: the message does not enter the duplicate set.
ReceiveChatUntracked(p) ==
  LET m == Head(net[p]).id IN
  /\ Arrives(p, "chat")
  /\ ~Dropped(p, m)
  /\ net' = [net EXCEPT ![p] = Tail(@)]
  /\ accepted' = [accepted EXCEPT ![p] = @ \cup {m}]
  /\ RecvGoto(p, "save", m)
  /\ UNCHANGED <<sendVars, histVars, seen, pendingAcks, shown, cleared, acked,
                 timeouts, statuses, faults>>

\* A new message enters the duplicate set, which is cleared when it is full.
ReceiveChat(p) ==
  LET m == Head(net[p]).id
      full == Cardinality(seen[p]) >= MaxTracking
  IN
  /\ Arrives(p, "chat")
  /\ ~Dropped(p, m)
  /\ seen' = [seen EXCEPT ![p] = (IF full THEN {} ELSE @) \cup {m}]
  /\ cleared' = [cleared EXCEPT ![p] = IF full THEN @ + 1 ELSE @]
  /\ accepted' = [accepted EXCEPT ![p] = @ \cup {m}]
  /\ net' = [net EXCEPT ![p] = Tail(@)]
  /\ RecvGoto(p, "save", m)
  /\ UNCHANGED <<sendVars, histVars, pendingAcks, shown, acked, timeouts,
                 statuses, faults>>

\* Mutant: the ack goes out before the message is saved.
SaveReceivedLast(p) ==
  /\ recvPc[p] = "save"
  /\ Carry(Other[p], "ack", handling[p])
  /\ RecvGoto(p, "ack", handling[p])
  /\ UNCHANGED <<sendVars, histVars, seen, accepted, pendingAcks, shown, cleared,
                 acked, timeouts, statuses, faults>>

\* history.save of the message, as Delivered.
SaveReceived(p) ==
  /\ recvPc[p] = "save"
  /\ Record(p, [op |-> "save", id |-> handling[p], status |-> "Delivered"])
  /\ RecvGoto(p, "ack", handling[p])
  /\ UNCHANGED <<sendVars, flush, seen, accepted, pendingAcks, shown, cleared, acked,
                 timeouts, net, statuses>>

\* The DeliveryAck, remembered in pending_acks if it cannot be sent, and the
\* MessageReceived event, lost if the event channel is full.
AckAndShow(p) ==
  LET m == handling[p] IN
  /\ recvPc[p] = "ack"
  /\ \/ Carry(Other[p], "ack", m) /\ UNCHANGED <<pendingAcks, faults>>
     \/ /\ Fault
        /\ pendingAcks' = [pendingAcks EXCEPT ![p] = @ \cup {m}]
        /\ UNCHANGED net
  /\ shown' \in {shown, [shown EXCEPT ![p][m] = @ + 1]}
  /\ RecvGoto(p, "idle", NoMessage)
  /\ UNCHANGED <<sendVars, histVars, seen, accepted, cleared, acked, timeouts, statuses>>

ReceiveAck(p) ==
  /\ Arrives(p, "ack")
  /\ net' = [net EXCEPT ![p] = Tail(@)]
  /\ RecvGoto(p, "status", Head(net[p]).id)
  /\ UNCHANGED <<sendVars, histVars, seen, accepted, pendingAcks, shown, cleared,
                 acked, timeouts, statuses, faults>>

\* statuses.get_mut: an ack for a message without an entry changes nothing.
AckStatus(p) ==
  LET m == handling[p] IN
  /\ recvPc[p] = "status"
  /\ statuses' = IF statuses[p][m] = "none" THEN statuses
                 ELSE [statuses EXCEPT ![p][m] = "Delivered"]
  /\ RecvGoto(p, "record", m)
  /\ UNCHANGED <<sendVars, histVars, seen, accepted, pendingAcks, shown, cleared, acked,
                 timeouts, net, faults>>

\* history.update_status and the StatusChanged event.
AckHistory(p) ==
  LET m == handling[p] IN
  /\ recvPc[p] = "record"
  /\ Record(p, [op |-> "update", id |-> m, status |-> "Delivered"])
  /\ acked' = [acked EXCEPT ![p] = @ \cup {m}]
  /\ RecvGoto(p, "idle", NoMessage)
  /\ UNCHANGED <<sendVars, flush, seen, accepted, pendingAcks, shown, cleared, timeouts,
                 net, statuses>>

\* await_ack wraps receive_one in a timeout: when it fires, the receive that is
\* under way is dropped at the await it has reached.
AckTimeout(p) ==
  /\ recvPc[p] # "idle"
  /\ timeouts < MaxTimeouts
  /\ timeouts' = timeouts + 1
  /\ RecvGoto(p, "idle", NoMessage)
  /\ UNCHANGED <<sendVars, histVars, seen, accepted, pendingAcks, shown, cleared, acked,
                 net, statuses, faults>>

-----------------------------------------------------------------------------
(* flush_pending, called by hand or by the retry task *)

\* Mutant: the queue is copied and stays as it is.
FlushTakeCopy(p) ==
  /\ flush[p] = << >> /\ pend[p] # << >>
  /\ flush' = [flush EXCEPT ![p] = pend[p]]
  /\ UNCHANGED <<sendVars, recvVars, hist, pend, net, statuses, faults>>

\* The whole queue is taken under the lock.
FlushTake(p) ==
  /\ flush[p] = << >> /\ pend[p] # << >>
  /\ flush' = [flush EXCEPT ![p] = pend[p]]
  /\ pend' = [pend EXCEPT ![p] = << >>]
  /\ UNCHANGED <<sendVars, recvVars, hist, net, statuses, faults>>

\* The writes are tried in order; one that fails goes to the back of the queue.
FlushOne(p) ==
  /\ flush[p] # << >>
  /\ flush' = [flush EXCEPT ![p] = Tail(@)]
  /\ WriteThrough(p, Head(flush[p]))
  /\ UNCHANGED <<sendVars, recvVars, net, statuses>>

-----------------------------------------------------------------------------
(* The transport *)

\* A payload is lost, damaged, delivered twice or overtaken by the ones behind
\* it (the two transports of a client do not keep an order between them).
Disturb(p) ==
  /\ Fault
  /\ \E i \in 1..Len(net[p]) :
       net' \in {[net EXCEPT ![p] = RemoveAt(@, i)],
                 [net EXCEPT ![p][i].kind = "junk"],
                 [net EXCEPT ![p] = Append(@, @[i])],
                 [net EXCEPT ![p] = Append(RemoveAt(@, i), @[i])]}
  /\ UNCHANGED <<sendVars, recvVars, histVars, statuses>>

-----------------------------------------------------------------------------

SendTask(p) == Transmit(p) \/ TransmitFails(p) \/ TrackSent(p) \/ SaveSent(p)

ReceiveTask(p) ==
  \/ ReceiveDropped(p) \/ ReceiveJunk(p) \/ ReceiveChat(p) \/ SaveReceived(p)
  \/ AckAndShow(p) \/ ReceiveAck(p) \/ AckStatus(p) \/ AckHistory(p)

FlushPending(p) == FlushTake(p) \/ FlushOne(p)

Next == \E p \in Peers :
  SendTask(p) \/ ReceiveTask(p) \/ AckTimeout(p) \/ FlushPending(p) \/ Disturb(p)

Spec == Init /\ [][Next]_vars

-----------------------------------------------------------------------------
(* Properties *)

Queued(p) == {pend[p][i] : i \in 1..Len(pend[p])}
             \cup {flush[p][i] : i \in 1..Len(flush[p])}

\* The message is in the history of p, or its write waits to be tried again.
Saved(p, m) ==
  hist[p][m] # "none" \/ \E w \in Queued(p) : w.op = "save" /\ w.id = m

\* What the other peer may call delivered: saved, or without a history accepted.
Kept(p, m) == IF p \in Historians THEN Saved(p, m) ELSE m \in accepted[p]

\* UC-002 failure postcondition 3, no false delivery acknowledgment: what a
\* sender shows or stores as Delivered was accepted by the other peer and, if that
\* one has a history, is kept by it, through every loss, timeout, failed write and
\* retry on both sides.
DeliveredIsKept ==
  \A p \in Peers : \A m \in MessageIds :
    Author[m] = p /\ "Delivered" \in {statuses[p][m], hist[p][m]} => Kept(Other[p], m)

\* History writes are retried out of order with new ones: an older save never
\* overwrites the Delivered a later update stored, and a status that was set
\* to Delivered stays so.
DeliveredIsFinal ==
  [][\A p \in Peers : \A m \in MessageIds :
       /\ hist[p][m] = "Delivered" => hist'[p][m] = "Delivered"
       /\ statuses[p][m] = "Delivered" => statuses'[p][m] = "Delivered"]_vars

\* ResilientHistoryWriter: what a send or an ack had to record is in the store
\* or in the queue of failed writes, never in neither.
NoWriteForgotten ==
  \A p \in Historians : \A m \in MessageIds :
    /\ statuses[p][m] # "none" /\ sending[p] # m => Saved(p, m)
    /\ m \in acked[p] => \/ hist[p][m] = "Delivered"
                         \/ \E w \in Queued(p) : w.op = "update" /\ w.id = m

\* Duplicate detection (UC-002 invariant 3) as far as it goes: a message is
\* shown again only when the duplicate set was cleared in between.
ShownOncePerWindow ==
  \A p \in Peers : \A m \in MessageIds : shown[p][m] <= 1 + cleared[p]

\* "The message status is tracked internally and updated when an ack arrives":
\* once its send has returned, an acknowledged message is Delivered. (It is
\* not if the ack was handled before the status map got the entry.)
StatusFollowsAck ==
  \A p \in Peers : \A m \in acked[p] :
    statuses[p][m] # "none" => statuses[p][m] = "Delivered"

\* "Non-ack envelopes received during the wait are still processed normally":
\* a message in the duplicate set is being handled or was kept. (It is not if
\* the timeout drops the receive between the two.)
ReceivedIsKept ==
  \A p \in Historians : \A m \in seen[p] : handling[p] = m \/ Saved(p, m)

\* UC-002 success postcondition 2, "Message is stored in Recipient's local history":
\* what its sender shows as Delivered is saved. (It is not in the client, which
\* acknowledges messages without a history to save them in.)
DeliveredIsStored ==
  \A p \in Peers : \A m \in MessageIds :
    Author[m] = p /\ statuses[p][m] = "Delivered" => Saved(Other[p], m)
=============================================================================
