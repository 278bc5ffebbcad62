-------------------------- MODULE ChatDeliveryProofs --------------------------
(***************************************************************************)
(* Proofs about ChatDelivery, for any pair of peers, any messages and any  *)
(* bounds. What a peer has still to write to its history is one line of    *)
(* writes (Line): those being flushed and those queued behind them. Every  *)
(* step leaves history and lines alone, makes one new write or retries the *)
(* first of a line (HistoryMoves); the invariant follows messages, acks    *)
(* and writes from their author to the other peer and back.                *)
(***************************************************************************)
EXTENDS ChatDelivery, SequenceLemmas, SequenceTheorems, TLAPS

Line(p) == flush[p] \o pend[p]

\* A message that is new, or whose send has not reached the history yet.
Unsaved(p, m) == m \notin used \/ sending[p] = m

\* A task holds a message while it works on one; a sender one of its own.
TaskShape ==
  \A p \in Peers :
    /\ (sendPc[p] = "idle") <=> (sending[p] = NoMessage)
    /\ (recvPc[p] = "idle") <=> (handling[p] = NoMessage)
    /\ sendPc[p] # "idle" => sending[p] \in used /\ Author[sending[p]] = p

\* Messages travel from their authors, acks to them, once the message is kept.
FrameInv ==
  \A p \in Peers : \A f \in Elems(net[p]) :
    /\ f.kind = "chat" => Author[f.id] = Other[p]
    /\ f.kind = "ack" => Author[f.id] = p /\ Kept(Other[p], f.id)

ReceiveInv ==
  \A p \in Peers :
    /\ recvPc[p] \in {"save", "ack"} => Author[handling[p]] = Other[p]
    /\ recvPc[p] = "save" => handling[p] \in accepted[p]
    /\ recvPc[p] = "ack" => Kept(p, handling[p])
    /\ recvPc[p] \in {"status", "record"} =>
         Author[handling[p]] = p /\ Kept(Other[p], handling[p])

\* Status entries and acks are the author's; a new message has no entry.
StatusInv ==
  \A p \in Peers : \A m \in MessageIds :
    /\ statuses[p][m] # "none" \/ m \in acked[p] => Author[m] = p
    /\ m \notin used => statuses[p][m] = "none"
    /\ sendPc[p] = "track" /\ sending[p] = m => statuses[p][m] = "none"

\* A write that waits: that of a sent message, if it is not in the history; of a
\* received one; of an ack.
WriteInv ==
  \A p \in Peers : \A w \in Queued(p) :
    /\ w.status = "Sent" => /\ w.op = "save" /\ Author[w.id] = p
                            /\ hist[p][w.id] = "none" /\ ~Unsaved(p, w.id)
    /\ w.op = "save" /\ w.status = "Delivered" => Author[w.id] = Other[p]
    /\ w.op = "update" => /\ w.status = "Delivered" /\ Author[w.id] = p
                          /\ Kept(Other[p], w.id)

\* A sent message waits to be saved in one place.
OneSent(s) ==
  \A i, j \in 1..Len(s) :
    s[i].status = "Sent" /\ s[j].status = "Sent" /\ s[i].id = s[j].id => i = j

OneSave == \A p \in Peers : OneSent(Line(p))

HistoryInv ==
  \A p \in Peers : \A m \in MessageIds :
    Author[m] = p /\ Unsaved(p, m) => hist[p][m] = "none"

\* A message that is on its way to the screen counts as shown.
ShownInv ==
  \A p \in Peers : \A m \in MessageIds :
    shown[p][m] + (IF recvPc[p] \in {"save", "ack"} /\ handling[p] = m THEN 1 ELSE 0)
      <= cleared[p] + (IF m \in seen[p] THEN 1 ELSE 0)

ChatInv ==
  /\ TypeOK /\ TaskShape /\ FrameInv /\ ReceiveInv /\ StatusInv
  /\ WriteInv /\ OneSave /\ HistoryInv
  /\ DeliveredIsKept /\ NoWriteForgotten /\ ShownInv

-----------------------------------------------------------------------------
(* What a step does to the transport *)

LEMMA Peering ==
  \A p \in Peers : Other[p] \in Peers /\ Other[p] # p /\ Other[Other[p]] = p
  BY ChatAssumption

\* The payloads that may join those on the way to p in a step: damaged ones and
\* NACKs, messages of the other peer, and its ack of the message it handles.
NewFrame(p, f) ==
  \/ f.kind \in {"junk", "nack"}
  \/ f.kind = "chat" /\ Author[f.id] = Other[p]
  \/ /\ f.kind = "ack" /\ recvPc[Other[p]] = "ack"
     /\ f.id = handling[Other[p]]

NetMoves ==
  /\ net' \in [Peers -> Seq(Frame)]
  /\ \A p \in Peers : \A f \in Elems(net'[p]) : f \in Elems(net[p]) \/ NewFrame(p, f)

\* One queue of the transport changes.
LEMMA OneQueueMoves ==
  ASSUME TypeOK, NEW p \in Peers, NEW q \in Seq(Frame),
         \A f \in Elems(q) : f \in Elems(net[p]) \/ NewFrame(p, f),
         net' = [net EXCEPT ![p] = q]
  PROVE  NetMoves
  BY DEF TypeOK, NetMoves

LEMMA CarryMoves ==
  ASSUME TypeOK, NEW p \in Peers, NEW k \in {"chat", "ack", "nack", "junk"},
         NEW m \in MessageIds, NewFrame(p, [kind |-> k, id |-> m]), Carry(p, k, m)
  PROVE  NetMoves
<1> DEFINE f == [kind |-> k, id |-> m]
<1>1. f \in Frame /\ net[p] \in Seq(Frame)
  BY DEF Frame, TypeOK
<1>2. net' = [net EXCEPT ![p] = Append(net[p], f)]
  BY DEF Carry
<1>3. NewFrame(p, f)
  OBVIOUS
<1> HIDE DEF f
<1>4. Append(net[p], f) \in Seq(Frame) /\ Elems(Append(net[p], f)) = Elems(net[p]) \cup {f}
  BY <1>1, AppendElems
<1> QED
  BY <1>2, <1>3, <1>4, OneQueueMoves

\* The first payload is taken.
LEMMA TakeMoves ==
  ASSUME TypeOK, NEW p \in Peers, net[p] # << >>
  PROVE  /\ Tail(net[p]) \in Seq(Frame) /\ Head(net[p]) \in Frame
         /\ Head(net[p]) \in Elems(net[p])
         /\ net' = [net EXCEPT ![p] = Tail(@)] => NetMoves
<1>1. net[p] \in Seq(Frame)
  BY DEF TypeOK
<1>2. /\ Tail(net[p]) \in Seq(Frame) /\ Head(net[p]) \in Frame
      /\ Elems(net[p]) = {Head(net[p])} \cup Elems(Tail(net[p]))
  BY <1>1, TailElems
<1>3. ASSUME net' = [net EXCEPT ![p] = Tail(@)] PROVE NetMoves
  <2>1. net' = [net EXCEPT ![p] = Tail(net[p])]
    BY <1>3
  <2> QED
    BY <1>2, <2>1, OneQueueMoves
<1> QED
  BY <1>2, <1>3

LEMMA JunkMoves ==
  ASSUME TypeOK, NEW p \in Peers, ReceiveJunk(p)
  PROVE  NetMoves
<1> DEFINE f == Head(net[p])  g == [f EXCEPT !.kind = "nack"]  o == Other[p]
<1>1. /\ Tail(net[p]) \in Seq(Frame) /\ f \in Frame
      /\ net' = [net EXCEPT ![p] = Tail(@)] => NetMoves
  BY TakeMoves DEF ReceiveJunk, Arrives
<1>2. g \in Frame /\ g.kind = "nack"
  BY <1>1 DEF Frame
<1>3. \/ net' = [net EXCEPT ![p] = Tail(@)]
      \/ net' = [net EXCEPT ![p] = Tail(@), ![o] = Append(@, g)]
  BY DEF ReceiveJunk
<1> HIDE DEF g
<1>4. CASE net' = [net EXCEPT ![p] = Tail(@), ![o] = Append(@, g)]
  <2>1. o \in Peers /\ o # p /\ net \in [Peers -> Seq(Frame)]
    BY Peering DEF TypeOK
  <2>2. net' = [net EXCEPT ![p] = Tail(net[p]), ![o] = Append(net[o], g)]
    BY <1>4, <2>1
  <2>3. net[o] \in Seq(Frame) /\ net[p] \in Seq(Frame)
    BY <2>1
  <2>4. Append(net[o], g) \in Seq(Frame) /\ Elems(Append(net[o], g)) = Elems(net[o]) \cup {g}
    BY <1>2, <2>3, AppendElems
  <2>5. Elems(Tail(net[p])) \subseteq Elems(net[p])
    BY <2>3, TailElems DEF ReceiveJunk, Arrives
  <2>6. NewFrame(o, g)
    BY <1>2 DEF NewFrame
  <2>7. /\ net' \in [Peers -> Seq(Frame)]
        /\ \A q \in Peers : net'[q] = IF q = p THEN Tail(net[p])
                                      ELSE IF q = o THEN Append(net[o], g) ELSE net[q]
    BY <1>1, <2>1, <2>2, <2>4
  <2> QED
    BY <2>4, <2>5, <2>6, <2>7 DEF NetMoves
<1> QED
  BY <1>1, <1>3, <1>4

LEMMA DisturbMoves ==
  ASSUME TypeOK, NEW p \in Peers, Disturb(p)
  PROVE  NetMoves
<1> DEFINE s == net[p]
<1>1. s \in Seq(Frame)
  BY DEF TypeOK
<1>2. PICK i \in 1..Len(s) :
        net' \in {[net EXCEPT ![p] = RemoveAt(@, i)],
                  [net EXCEPT ![p][i].kind = "junk"],
                  [net EXCEPT ![p] = Append(@, @[i])],
                  [net EXCEPT ![p] = Append(RemoveAt(@, i), @[i])]}
  BY DEF Disturb
<1>3. s[i] \in Frame /\ s[i] \in Elems(s)
  BY <1>1, ElementOfSeq DEF Elems
<1>4. RemoveAt(s, i) \in Seq(Frame) /\ Elems(RemoveAt(s, i)) \subseteq Elems(s)
  BY <1>1, RemoveAtProperties
<1>5. Append(s, s[i]) \in Seq(Frame) /\ Elems(Append(s, s[i])) = Elems(s) \cup {s[i]}
  BY <1>1, <1>3, AppendElems
<1>6. /\ Append(RemoveAt(s, i), s[i]) \in Seq(Frame)
      /\ Elems(Append(RemoveAt(s, i), s[i])) = Elems(RemoveAt(s, i)) \cup {s[i]}
  BY <1>3, <1>4, AppendElems
<1> DEFINE g == [s[i] EXCEPT !.kind = "junk"]  r == [s EXCEPT ![i] = g]
<1>7. g \in Frame /\ g.kind = "junk"
  BY <1>3 DEF Frame
<1>8. r \in Seq(Frame) /\ Elems(r) \subseteq Elems(s) \cup {g}
  <2>1. g \in Frame
    BY <1>7
  <2> HIDE DEF g
  <2>2. /\ r \in Seq(Frame) /\ Len(r) = Len(s)
        /\ \A j \in 1..Len(s) : r[j] = IF j = i THEN g ELSE s[j]
    BY <1>1, <2>1, ExceptSeq
  <2> QED
    BY <2>2 DEF Elems
<1>9. \/ net' = [net EXCEPT ![p] = RemoveAt(s, i)]
      \/ net' = [net EXCEPT ![p] = r]
      \/ net' = [net EXCEPT ![p] = Append(s, s[i])]
      \/ net' = [net EXCEPT ![p] = Append(RemoveAt(s, i), s[i])]
  BY <1>2
<1>10. NewFrame(p, g)
  BY <1>7 DEF NewFrame
<1> HIDE DEF r, g
<1>11. CASE net' = [net EXCEPT ![p] = RemoveAt(s, i)]
  BY <1>4, <1>11, OneQueueMoves
<1>12. CASE net' = [net EXCEPT ![p] = r]
  BY <1>8, <1>10, <1>12, OneQueueMoves
<1>13. CASE net' = [net EXCEPT ![p] = Append(s, s[i])]
  BY <1>3, <1>5, <1>13, OneQueueMoves
<1>14. CASE net' = [net EXCEPT ![p] = Append(RemoveAt(s, i), s[i])]
  BY <1>3, <1>4, <1>6, <1>14, OneQueueMoves
<1> QED
  BY <1>9, <1>11, <1>12, <1>13, <1>14

\* The frames on the way keep their type and gain only the ones of NewFrame.
LEMMA NetStep ==
  ASSUME TypeOK, TaskShape, ReceiveInv, [Next]_vars
  PROVE  NetMoves
<1>1. ASSUME UNCHANGED net PROVE NetMoves
  BY <1>1 DEF TypeOK, NetMoves
<1>2. CASE UNCHANGED vars
  BY <1>1, <1>2 DEF vars
<1>3. ASSUME NEW p \in Peers, SendTask(p) PROVE NetMoves
  <2>1. ASSUME NEW m \in MessageIds, Author[m] = p, Carry(Other[p], "chat", m)
        PROVE  NetMoves
    <3> DEFINE f == [kind |-> "chat", id |-> m]
    <3>1. Other[p] \in Peers /\ NewFrame(Other[p], f)
      BY <2>1, Peering DEF NewFrame
    <3> QED
      BY <2>1, <3>1, CarryMoves
  <2>2. CASE Transmit(p)
    BY <2>1, <2>2 DEF Transmit
  <2>3. CASE TransmitFails(p)
    BY <1>1, <2>1, <2>3 DEF TransmitFails
  <2>4. CASE TrackSent(p) \/ SaveSent(p)
    BY <1>1, <2>4 DEF TrackSent, SaveSent
  <2> QED
    BY <1>3, <2>2, <2>3, <2>4 DEF SendTask
<1>4. ASSUME NEW p \in Peers, ReceiveTask(p) PROVE NetMoves
  <2>1. CASE ReceiveDropped(p) \/ ReceiveChat(p) \/ ReceiveAck(p)
    <3>1. net[p] # << >> /\ net' = [net EXCEPT ![p] = Tail(@)]
      BY <2>1 DEF ReceiveDropped, ReceiveChat, ReceiveAck, Arrives
    <3> QED
      BY <3>1, TakeMoves
  <2>2. CASE ReceiveJunk(p)
    BY <2>2, JunkMoves
  <2>3. CASE AckAndShow(p)
    <3>1. CASE Carry(Other[p], "ack", handling[p])
      <4> DEFINE f == [kind |-> "ack", id |-> handling[p]]
      <4>1. handling[p] \in MessageIds /\ recvPc[p] = "ack"
        BY <2>3 DEF AckAndShow, TypeOK, TaskShape
      <4>2. Other[p] \in Peers /\ NewFrame(Other[p], f)
        BY <4>1, Peering DEF NewFrame
      <4> QED
        BY <3>1, <4>1, <4>2, CarryMoves
    <3> QED
      BY <1>1, <2>3, <3>1 DEF AckAndShow
  <2>4. CASE SaveReceived(p) \/ AckStatus(p) \/ AckHistory(p)
    BY <1>1, <2>4 DEF SaveReceived, AckStatus, AckHistory
  <2> QED
    BY <1>4, <2>1, <2>2, <2>3, <2>4 DEF ReceiveTask
<1>5. ASSUME NEW p \in Peers, AckTimeout(p) \/ FlushPending(p) PROVE NetMoves
  BY <1>1, <1>5 DEF AckTimeout, FlushPending, FlushTake, FlushOne
<1> QED
  BY <1>2, <1>3, <1>4, <1>5, DisturbMoves DEF Next

-----------------------------------------------------------------------------
(* What a step does to the histories and to the writes that wait *)

\* The store takes write w of p.
Applied(p, w) == Applies(p, w) /\ hist' = [hist EXCEPT ![p][w.id] = w.status]

OtherLinesStay(p) == \A q \in Peers \ {p} : Line(q)' = Line(q)

LinesStay == \A q \in Peers : Line(q)' = Line(q)

\* A new write is applied, or joins the line.
Written(p, w) ==
  \/ Applied(p, w) /\ LinesStay
  \/ UNCHANGED hist /\ Line(p)' = Append(Line(p), w) /\ OtherLinesStay(p)

\* The first write of a line is applied, or goes to its end.
Retried(p) ==
  /\ Line(p) # << >>
  /\ OtherLinesStay(p)
  /\ \/ Applied(p, Head(Line(p))) /\ Line(p)' = Tail(Line(p))
     \/ UNCHANGED hist /\ Line(p)' = Append(Tail(Line(p)), Head(Line(p)))

\* The write of the send, of a received message, of an ack.
NewWrite(p, w) ==
  \/ SaveSent(p) /\ w = [op |-> "save", id |-> sending[p], status |-> "Sent"]
  \/ SaveReceived(p) /\ w = [op |-> "save", id |-> handling[p], status |-> "Delivered"]
  \/ AckHistory(p) /\ w = [op |-> "update", id |-> handling[p], status |-> "Delivered"]

HistoryMoves ==
  \/ UNCHANGED hist /\ LinesStay
  \/ \E p \in Peers, w \in Write : NewWrite(p, w) /\ Written(p, w)
  \/ \E p \in Peers : FlushOne(p) /\ Retried(p)

HistoryTypes ==
  /\ hist \in [Peers -> [MessageIds -> Status \cup {"none"}]]
  /\ pend \in [Peers -> Seq(Write)] /\ flush \in [Peers -> Seq(Write)]

LinesTyped == \A p \in Peers : Line(p) \in Seq(Write) /\ Queued(p) = Elems(Line(p))

LEMMA LineType == HistoryTypes => LinesTyped
<1> SUFFICES ASSUME HistoryTypes, NEW p \in Peers
             PROVE  Line(p) \in Seq(Write) /\ Queued(p) = Elems(Line(p))
  BY DEF LinesTyped
<1>1. pend[p] \in Seq(Write) /\ flush[p] \in Seq(Write)
  BY DEF HistoryTypes
<1>2. /\ flush[p] \o pend[p] \in Seq(Write)
      /\ Elems(flush[p] \o pend[p]) = Elems(flush[p]) \cup Elems(pend[p])
  BY <1>1, ConcatElems
<1> QED
  BY <1>2 DEF Line, Queued, Elems

\* ResilientHistoryWriter, called with write w while the lines are untouched.
LEMMA WriteThroughWrites ==
  ASSUME HistoryTypes, NEW p \in Peers, NEW w \in Write, WriteThrough(p, w),
         UNCHANGED flush
  PROVE  HistoryTypes' /\ Written(p, w)
<1>1. w.id \in MessageIds /\ w.status \in Status
  BY DEF Write
<1>2. CASE Applies(p, w) /\ Stored(p, w) /\ UNCHANGED pend
  <2>1. LinesStay
    BY <1>2 DEF LinesStay, Line
  <2>2. hist' \in [Peers -> [MessageIds -> Status \cup {"none"}]]
    BY <1>1, <1>2 DEF HistoryTypes, Stored
  <2> QED
    BY <1>2, <2>1, <2>2 DEF HistoryTypes, Stored, Applied, Written
<1>3. CASE pend' = [pend EXCEPT ![p] = Append(@, w)] /\ UNCHANGED hist
  <2>1. pend[p] \in Seq(Write) /\ flush[p] \in Seq(Write)
    BY DEF HistoryTypes
  <2>2. Append(pend[p], w) \in Seq(Write)
    BY <2>1, AppendElems
  <2>3. HistoryTypes'
    BY <1>3, <2>2 DEF HistoryTypes
  <2>4. /\ pend'[p] = Append(pend[p], w)
        /\ \A q \in Peers \ {p} : pend'[q] = pend[q]
    BY <1>3, <2>1 DEF HistoryTypes
  <2>5. flush[p] \o Append(pend[p], w) = Append(flush[p] \o pend[p], w)
    <3> DEFINE r == flush[p]  s == pend[p]
    <3>1. r \in Seq(Write) /\ s \in Seq(Write)
      BY <2>1
    <3> HIDE DEF r, s
    <3>2. r \o Append(s, w) = Append(r \o s, w)
      BY <3>1, ConcatAppend
    <3> QED
      BY <3>2 DEF r, s
  <2>6. Line(p)' = flush[p] \o Append(pend[p], w)
    BY <2>4 DEF Line
  <2>7. Line(p)' = Append(Line(p), w)
    BY <2>5, <2>6 DEF Line
  <2>8. OtherLinesStay(p)
    BY <2>4 DEF OtherLinesStay, Line
  <2> QED
    BY <1>3, <2>3, <2>7, <2>8 DEF Written
<1> QED
  BY <1>2, <1>3 DEF WriteThrough

\* flush_pending takes the queue into an empty batch.
LEMMA FlushTakeKeepsLines ==
  ASSUME HistoryTypes, NEW p \in Peers, FlushTake(p)
  PROVE  HistoryTypes' /\ UNCHANGED hist /\ LinesStay
<1>1. pend[p] \in Seq(Write) /\ << >> \in Seq(Write)
  BY EmptySeq DEF HistoryTypes
<1>2. /\ pend' = [pend EXCEPT ![p] = << >>] /\ flush' = [flush EXCEPT ![p] = pend[p]]
      /\ flush[p] = << >> /\ UNCHANGED hist
  BY DEF FlushTake, histVars
<1>3. HistoryTypes'
  BY <1>1, <1>2 DEF HistoryTypes
<1>4. flush'[p] = pend[p] /\ pend'[p] = << >>
  BY <1>2 DEF HistoryTypes
<1>5. Line(p)' = Line(p)
  BY <1>1, <1>2, <1>4, ConcatEmptySeq DEF Line
<1>6. \A q \in Peers \ {p} : Line(q)' = Line(q)
  BY <1>2 DEF HistoryTypes, Line
<1> QED
  BY <1>2, <1>3, <1>5, <1>6 DEF LinesStay

\* It tries the first write of the batch.
LEMMA FlushOneRetries ==
  ASSUME HistoryTypes, NEW p \in Peers, FlushOne(p)
  PROVE  HistoryTypes' /\ Retried(p)
<1> DEFINE w == Head(flush[p])
<1>1. pend[p] \in Seq(Write) /\ flush[p] \in Seq(Write) /\ flush[p] # << >>
  BY DEF HistoryTypes, FlushOne
<1>2. Tail(flush[p]) \in Seq(Write) /\ w \in Write
  BY <1>1, TailElems
<1>3. /\ flush' = [flush EXCEPT ![p] = Tail(@)]
      /\ flush'[p] = Tail(flush[p]) /\ \A q \in Peers \ {p} : flush'[q] = flush[q]
  BY DEF FlushOne, HistoryTypes
<1>4. /\ Line(p) # << >> /\ Head(Line(p)) = w
      /\ Tail(Line(p)) = Tail(flush[p]) \o pend[p]
  BY <1>1, ConcatTail DEF Line
<1>5. w.id \in MessageIds /\ w.status \in Status
  BY <1>2 DEF Write
<1>6. WriteThrough(p, w)
  BY DEF FlushOne
<1> HIDE DEF w
<1>7. CASE Applies(p, w) /\ Stored(p, w) /\ UNCHANGED pend
  <2>1. HistoryTypes'
    BY <1>2, <1>3, <1>5, <1>7 DEF HistoryTypes, Stored
  <2>2. Line(p)' = Tail(Line(p)) /\ OtherLinesStay(p)
    BY <1>3, <1>4, <1>7 DEF Line, OtherLinesStay
  <2> QED
    BY <1>4, <1>7, <2>1, <2>2 DEF Retried, Applied, Stored
<1>8. CASE pend' = [pend EXCEPT ![p] = Append(@, w)] /\ UNCHANGED hist
  <2>1. Append(pend[p], w) \in Seq(Write)
    BY <1>1, <1>2, AppendElems
  <2>2. HistoryTypes'
    BY <1>2, <1>3, <1>8, <2>1 DEF HistoryTypes
  <2>3. pend'[p] = Append(pend[p], w) /\ \A q \in Peers \ {p} : pend'[q] = pend[q]
    BY <1>8 DEF HistoryTypes
  <2>4. Tail(flush[p]) \o Append(pend[p], w) = Append(Tail(flush[p]) \o pend[p], w)
    <3> DEFINE r == Tail(flush[p])
    <3>1. r \in Seq(Write) /\ pend[p] \in Seq(Write)
      BY <1>1, <1>2
    <3> HIDE DEF r
    <3>2. r \o Append(pend[p], w) = Append(r \o pend[p], w)
      BY <1>2, <3>1, ConcatAppend
    <3> QED
      BY <3>2 DEF r
  <2>5. Line(p)' = Append(Tail(Line(p)), Head(Line(p))) /\ OtherLinesStay(p)
    BY <1>3, <1>4, <2>3, <2>4 DEF Line, OtherLinesStay
  <2> QED
    BY <1>4, <1>8, <2>2, <2>5 DEF Retried
<1> QED
  BY <1>6, <1>7, <1>8 DEF WriteThrough

\* Every step is one of the three.
LEMMA HistoryStep ==
  ASSUME TypeOK, TaskShape, [Next]_vars
  PROVE  HistoryTypes' /\ HistoryMoves
<1>0. HistoryTypes
  BY DEF TypeOK, HistoryTypes
<1>1. ASSUME UNCHANGED histVars PROVE HistoryTypes' /\ HistoryMoves
  BY <1>0, <1>1 DEF histVars, HistoryTypes, HistoryMoves, LinesStay, Line
<1>2. CASE UNCHANGED vars
  BY <1>1, <1>2 DEF vars
<1>3. ASSUME NEW p \in Peers, NEW w \in Write, NewWrite(p, w), Record(p, w)
      PROVE  HistoryTypes' /\ HistoryMoves
  <2>1. UNCHANGED flush
    BY <1>3 DEF NewWrite, SaveSent, SaveReceived, AckHistory
  <2>2. CASE WriteThrough(p, w)
    <3>1. HistoryTypes' /\ Written(p, w)
      BY <1>0, <2>1, <2>2, WriteThroughWrites
    <3> QED
      BY <1>3, <3>1 DEF HistoryMoves
  <2>3. CASE UNCHANGED <<hist, pend, faults>>
    BY <1>1, <2>1, <2>3 DEF histVars
  <2> QED
    BY <1>3, <2>2, <2>3 DEF Record
<1>4. ASSUME NEW p \in Peers, SendTask(p) PROVE HistoryTypes' /\ HistoryMoves
  <2>1. CASE SaveSent(p)
    <3> DEFINE w == [op |-> "save", id |-> sending[p], status |-> "Sent"]
    <3>1. sending[p] \in MessageIds
      BY <2>1 DEF SaveSent, TypeOK, TaskShape
    <3>2. w \in Write /\ NewWrite(p, w) /\ Record(p, w)
      BY <2>1, <3>1 DEF Write, Status, NewWrite, SaveSent
    <3> QED
      BY <1>3, <3>2
  <2> QED
    BY <1>1, <1>4, <2>1 DEF SendTask, Transmit, TransmitFails, TrackSent
<1>5. ASSUME NEW p \in Peers, ReceiveTask(p) PROVE HistoryTypes' /\ HistoryMoves
  <2>1. CASE SaveReceived(p)
    <3> DEFINE w == [op |-> "save", id |-> handling[p], status |-> "Delivered"]
    <3>1. handling[p] \in MessageIds
      BY <2>1 DEF SaveReceived, TypeOK, TaskShape
    <3>2. w \in Write /\ NewWrite(p, w) /\ Record(p, w)
      BY <2>1, <3>1 DEF Write, Status, NewWrite, SaveReceived
    <3> QED
      BY <1>3, <3>2
  <2>2. CASE AckHistory(p)
    <3> DEFINE w == [op |-> "update", id |-> handling[p], status |-> "Delivered"]
    <3>1. handling[p] \in MessageIds
      BY <2>2 DEF AckHistory, TypeOK, TaskShape
    <3>2. w \in Write /\ NewWrite(p, w) /\ Record(p, w)
      BY <2>2, <3>1 DEF Write, Status, NewWrite, AckHistory
    <3> QED
      BY <1>3, <3>2
  <2> QED
    BY <1>1, <1>5, <2>1, <2>2 DEF ReceiveTask, ReceiveDropped, ReceiveJunk,
       ReceiveChat, AckAndShow, ReceiveAck, AckStatus
<1>6. ASSUME NEW p \in Peers, FlushPending(p) PROVE HistoryTypes' /\ HistoryMoves
  BY <1>0, <1>6, FlushTakeKeepsLines, FlushOneRetries DEF FlushPending, HistoryMoves
<1>7. ASSUME NEW p \in Peers, AckTimeout(p) \/ Disturb(p) PROVE HistoryTypes' /\ HistoryMoves
  BY <1>1, <1>7 DEF AckTimeout, Disturb
<1> QED
  BY <1>2, <1>4, <1>5, <1>6, <1>7 DEF Next

\* The first of the sent messages' writes is not among the others.
LEMMA OneSentTail ==
  ASSUME NEW s \in Seq(Write), s # << >>, OneSent(s)
  PROVE  /\ OneSent(Tail(s))
         /\ \A v \in Elems(Tail(s)) :
              Head(s).status = "Sent" /\ v.status = "Sent" => v.id # Head(s).id
<1> DEFINE r == Tail(s)
<1>1. /\ Head(s) = s[1] /\ Len(r) = Len(s) - 1 /\ Len(s) \in Nat /\ Len(s) # 0
      /\ \A i \in 1..Len(r) : r[i] = s[i + 1]
  BY HeadTailProperties, LenProperties, EmptySeq
<1> HIDE DEF r
<1>2. \A i \in 1..Len(r) : i + 1 \in 1..Len(s)
  BY <1>1
<1>3. OneSent(r)
  <2> SUFFICES ASSUME NEW i \in 1..Len(r), NEW j \in 1..Len(r),
                      r[i].status = "Sent", r[j].status = "Sent", r[i].id = r[j].id
               PROVE  i = j
    BY DEF OneSent
  <2>1. i + 1 = j + 1
    BY <1>1, <1>2 DEF OneSent
  <2> QED
    BY <1>1, <2>1
<1>4. ASSUME NEW v \in Elems(r), s[1].status = "Sent", v.status = "Sent"
      PROVE  v.id # s[1].id
  <2>1. PICK i \in 1..Len(r) : v = r[i]
    BY DEF Elems
  <2>2. 1 \in 1..Len(s) /\ i + 1 # 1 /\ i + 1 \in 1..Len(s) /\ v = s[i + 1]
    BY <1>1, <1>2, <2>1
  <2> QED
    BY <1>4, <2>2 DEF OneSent
<1> QED
  BY <1>1, <1>3, <1>4 DEF r

LEMMA OneSentAppend ==
  ASSUME NEW s \in Seq(Write), NEW e \in Write, OneSent(s),
         \A v \in Elems(s) : e.status = "Sent" /\ v.status = "Sent" => v.id # e.id
  PROVE  OneSent(Append(s, e))
<1> DEFINE r == Append(s, e)
<1>1. /\ Len(r) = Len(s) + 1 /\ Len(s) \in Nat
      /\ \A i \in 1..Len(s) : r[i] = s[i] /\ s[i] \in Elems(s)
      /\ r[Len(s) + 1] = e
  BY AppendProperties, LenProperties DEF Elems
<1> HIDE DEF r
<1>2. \A i \in 1..Len(r) : i \in 1..Len(s) \/ i = Len(s) + 1
  BY <1>1
<1> SUFFICES ASSUME NEW i \in 1..Len(r), NEW j \in 1..Len(r),
                    r[i].status = "Sent", r[j].status = "Sent", r[i].id = r[j].id
             PROVE  i = j
  BY DEF OneSent, r
<1>3. CASE i \in 1..Len(s) /\ j \in 1..Len(s)
  BY <1>1, <1>3 DEF OneSent
<1>4. CASE i = Len(s) + 1 /\ j \in 1..Len(s)
  BY <1>1, <1>4
<1>5. CASE j = Len(s) + 1 /\ i \in 1..Len(s)
  BY <1>1, <1>5
<1> QED
  BY <1>2, <1>3, <1>4, <1>5

-----------------------------------------------------------------------------
(* The same, for the sets of writes that wait *)

OthersWait(p) == \A q \in Peers \ {p} : Queued(q)' = Queued(q)

NothingMoves == UNCHANGED hist /\ \A q \in Peers : Queued(q)' = Queued(q)

NewIsStored(p, w) ==
  NewWrite(p, w) /\ Applied(p, w) /\ \A q \in Peers : Queued(q)' = Queued(q)

NewIsQueued(p, w) ==
  /\ NewWrite(p, w) /\ UNCHANGED hist
  /\ Queued(p)' = Queued(p) \cup {w} /\ OthersWait(p)

QueuedIsStored(p, w) ==
  /\ FlushOne(p) /\ w \in Queued(p) /\ Applied(p, w)
  /\ Queued(p) = Queued(p)' \cup {w} /\ OthersWait(p)
  /\ \A v \in Queued(p)' : w.status = "Sent" /\ v.status = "Sent" => v.id # w.id

WriteMoves ==
  \/ NothingMoves
  \/ \E p \in Peers, w \in Write :
       NewIsStored(p, w) \/ NewIsQueued(p, w) \/ QueuedIsStored(p, w)

LEMMA WriteStep ==
  ASSUME TypeOK, TaskShape, OneSave, [Next]_vars
  PROVE  WriteMoves
<1>1. HistoryTypes /\ HistoryTypes' /\ HistoryMoves
  BY HistoryStep DEF TypeOK, HistoryTypes
<1>2. LinesTyped
  BY <1>1, LineType
<1>3. LinesTyped'
  BY <1>1, LineType, PTL
<1>4. \A q \in Peers : Line(q) \in Seq(Write) /\ Queued(q) = Elems(Line(q))
  BY <1>2 DEF LinesTyped
<1>5. \A q \in Peers : Queued(q)' = Elems(Line(q)')
  BY <1>3 DEF LinesTyped, Elems
<1>6. \A q \in Peers : Line(q)' = Line(q) => Queued(q)' = Queued(q)
  BY <1>4, <1>5
<1>7. CASE UNCHANGED hist /\ LinesStay
  BY <1>6, <1>7 DEF LinesStay, WriteMoves, NothingMoves
<1>8. ASSUME NEW p \in Peers, NEW w \in Write, NewWrite(p, w), Written(p, w)
      PROVE  NewIsStored(p, w) \/ NewIsQueued(p, w)
  <2>1. CASE Applied(p, w) /\ LinesStay
    BY <1>6, <1>8, <2>1 DEF LinesStay, NewIsStored
  <2>2. CASE UNCHANGED hist /\ Line(p)' = Append(Line(p), w) /\ OtherLinesStay(p)
    <3> DEFINE s == Line(p)
    <3>1. s \in Seq(Write)
      BY <1>4
    <3> HIDE DEF s
    <3>2. Elems(Append(s, w)) = Elems(s) \cup {w}
      BY <3>1, AppendElems
    <3>3. Queued(p)' = Elems(Line(p)') /\ Queued(p) = Elems(s)
      BY <1>4, <1>5 DEF s
    <3>4. Queued(p)' = Queued(p) \cup {w}
      BY <2>2, <3>2, <3>3 DEF s
    <3> QED
      BY <1>6, <1>8, <2>2, <3>4 DEF OtherLinesStay, NewIsQueued, OthersWait
  <2> QED
    BY <1>8, <2>1, <2>2 DEF Written
<1>9. ASSUME NEW p \in Peers, FlushOne(p), Retried(p)
      PROVE  NothingMoves \/ \E w \in Write : QueuedIsStored(p, w)
  <2> DEFINE s == Line(p)  w == Head(s)
  <2>1. s \in Seq(Write) /\ s # << >> /\ OneSent(s) /\ OthersWait(p)
    BY <1>4, <1>6, <1>9 DEF Retried, OneSave, OtherLinesStay, OthersWait
  <2>2. Tail(s) \in Seq(Write) /\ w \in Write /\ Elems(s) = {w} \cup Elems(Tail(s))
    BY <2>1, TailElems
  <2>3. \A v \in Elems(Tail(s)) : w.status = "Sent" /\ v.status = "Sent" => v.id # w.id
    BY <2>1, OneSentTail
  <2>4. CASE Applied(p, w) /\ s' = Tail(s)
    <3>1. Queued(p)' = Elems(Tail(s)) /\ Queued(p) = Elems(s)
      BY <1>4, <1>5, <2>4
    <3> QED
      BY <1>9, <2>1, <2>2, <2>3, <2>4, <3>1 DEF QueuedIsStored
  <2>5. CASE UNCHANGED hist /\ s' = Append(Tail(s), w)
    <3> DEFINE r == Tail(s)  v == w
    <3>1. r \in Seq(Write) /\ v \in Write
      BY <2>2
    <3> HIDE DEF r, v
    <3>2. Elems(Append(r, v)) = Elems(r) \cup {v}
      BY <3>1, AppendElems
    <3>3. Queued(p)' = Elems(Line(p)') /\ Queued(p) = Elems(s)
      BY <1>4, <1>5
    <3>4. Queued(p)' = Queued(p)
      BY <2>2, <2>5, <3>2, <3>3 DEF r, v
    <3> QED
      BY <2>1, <2>5, <3>4 DEF NothingMoves, OthersWait
  <2> QED
    BY <1>9, <2>4, <2>5 DEF Retried
<1> QED
  BY <1>1, <1>7, <1>8, <1>9 DEF HistoryMoves, WriteMoves

-----------------------------------------------------------------------------
(* What no step takes back *)

\* A message that was accepted stays so.
LEMMA AcceptedForever ==
  ASSUME TypeOK, [Next]_vars
  PROVE  \A p \in Peers : accepted[p] \subseteq accepted'[p]
<1>1. accepted \in [Peers -> SUBSET MessageIds]
  BY DEF TypeOK
<1>2. CASE UNCHANGED accepted
  BY <1>2
<1>3. ASSUME NEW q \in Peers, ReceiveChat(q)
      PROVE  \A p \in Peers : accepted[p] \subseteq accepted'[p]
  BY <1>1, <1>3 DEF ReceiveChat
<1>4. ASSUME NEW q \in Peers,
             \/ ReceiveDropped(q) \/ ReceiveJunk(q) \/ SaveReceived(q) \/ AckAndShow(q)
             \/ ReceiveAck(q) \/ AckStatus(q) \/ AckHistory(q) \/ AckTimeout(q)
      PROVE  UNCHANGED accepted
  BY <1>4 DEF ReceiveDropped, ReceiveJunk, SaveReceived, AckAndShow, ReceiveAck,
     AckStatus, AckHistory, AckTimeout, recvVars
<1>5. ASSUME NEW q \in Peers, SendTask(q) \/ FlushPending(q) \/ Disturb(q)
      PROVE  UNCHANGED accepted
  BY <1>5 DEF SendTask, Transmit, TransmitFails, TrackSent, SaveSent, FlushPending,
     FlushTake, FlushOne, Disturb, recvVars
<1> QED
  BY <1>2, <1>3, <1>4, <1>5 DEF Next, ReceiveTask, vars, recvVars

\* A saved or kept message stays so, a stored one stored.
LEMMA KeptForever ==
  ASSUME TypeOK, WriteMoves, [Next]_vars
  PROVE  \A p \in Peers : \A m \in MessageIds :
           /\ hist[p][m] # "none" => hist'[p][m] # "none"
           /\ Saved(p, m) => Saved(p, m)'
           /\ Kept(p, m) => Kept(p, m)'
<1>1. CASE NothingMoves
  BY <1>1, AcceptedForever DEF NothingMoves, Kept, Saved
<1>2. ASSUME NEW p \in Peers, NEW w \in Write, Applied(p, w)
      PROVE  /\ hist'[p][w.id] = w.status /\ w.status \in Status /\ w.id \in MessageIds
             /\ \A q \in Peers : \A m \in MessageIds :
                  q # p \/ m # w.id => hist'[q][m] = hist[q][m]
  BY <1>2 DEF Applied, TypeOK, Write
<1>3. ASSUME NEW p \in Peers, NEW w \in Write, NewIsStored(p, w)
      PROVE  \A q \in Peers : \A m \in MessageIds :
               /\ hist[q][m] # "none" => hist'[q][m] # "none"
               /\ Saved(q, m) => Saved(q, m)'
  BY <1>2, <1>3 DEF NewIsStored, Saved, Status
<1>4. ASSUME NEW p \in Peers, NEW w \in Write, NewIsQueued(p, w)
      PROVE  \A q \in Peers : \A m \in MessageIds :
               /\ hist[q][m] # "none" => hist'[q][m] # "none"
               /\ Saved(q, m) => Saved(q, m)'
  BY <1>4 DEF NewIsQueued, OthersWait, Saved
<1>5. ASSUME NEW p \in Peers, NEW w \in Write, QueuedIsStored(p, w)
      PROVE  \A q \in Peers : \A m \in MessageIds :
               /\ hist[q][m] # "none" => hist'[q][m] # "none"
               /\ Saved(q, m) => Saved(q, m)'
  BY <1>2, <1>5 DEF QueuedIsStored, OthersWait, Saved, Status
<1> QED
  BY <1>1, <1>3, <1>4, <1>5, AcceptedForever DEF WriteMoves, Kept

\* A write ends in the store or in the queue.
LEMMA WriteLands ==
  ASSUME TypeOK, NEW p \in Peers, NEW w \in Write, WriteThrough(p, w)
  PROVE  hist'[p][w.id] = w.status \/ w \in Queued(p)'
<1>1. CASE Stored(p, w)
  BY <1>1 DEF Stored, TypeOK, Write
<1>2. CASE pend' = [pend EXCEPT ![p] = Append(@, w)]
  <2> DEFINE s == pend[p]
  <2>1. s \in Seq(Write) /\ pend'[p] = Append(s, w)
    BY <1>2 DEF TypeOK
  <2> HIDE DEF s
  <2>2. w \in Elems(Append(s, w))
    BY <2>1, AppendElems
  <2> QED
    BY <2>1, <2>2 DEF Queued, Elems
<1> QED
  BY <1>1, <1>2 DEF WriteThrough

\* Every variable but the histories, the lines and the transport.
TaskTypes ==
  /\ used \subseteq MessageIds
  /\ sendPc \in [Peers -> {"idle", "track", "save"}]
  /\ sending \in [Peers -> MessageIds \cup {NoMessage}]
  /\ recvPc \in [Peers -> {"idle", "save", "ack", "status", "record"}]
  /\ handling \in [Peers -> MessageIds \cup {NoMessage}]
  /\ statuses \in [Peers -> [MessageIds -> Status \cup {"none"}]]
  /\ seen \in [Peers -> SUBSET MessageIds]
  /\ accepted \in [Peers -> SUBSET MessageIds]
  /\ pendingAcks \in [Peers -> SUBSET MessageIds]
  /\ shown \in [Peers -> [MessageIds -> Nat]]
  /\ cleared \in [Peers -> Nat]
  /\ acked \in [Peers -> SUBSET MessageIds]
  /\ faults \in 0..MaxFaults
  /\ timeouts \in 0..MaxTimeouts

\* The message at the head of a queue of the transport.
LEMMA HeadIsAMessage ==
  ASSUME TypeOK, NEW p \in Peers, net[p] # << >>
  PROVE  Head(net[p]).id \in MessageIds
  BY TakeMoves DEF Frame

LEMMA TaskTypesStep ==
  ASSUME TypeOK, TaskShape, [Next]_vars
  PROVE  TaskTypes' /\ TaskShape'
<1> USE DEF TaskTypes, TaskShape
<1>1. TaskTypes /\ NoMessage \notin MessageIds
  BY ChatAssumption DEF TypeOK
<1>2. CASE UNCHANGED vars
  BY <1>1, <1>2 DEF vars, sendVars, recvVars
<1>3. Fault => faults' \in 0..MaxFaults
  BY <1>1, ChatAssumption DEF Fault
<1>4. ASSUME NEW p \in Peers, Transmit(p) PROVE TaskTypes' /\ TaskShape'
  BY <1>1, <1>4 DEF Transmit, recvVars
<1>5. ASSUME NEW p \in Peers, TransmitFails(p) PROVE TaskTypes' /\ TaskShape'
  BY <1>1, <1>3, <1>5 DEF TransmitFails, recvVars
<1>6. ASSUME NEW p \in Peers, TrackSent(p) PROVE TaskTypes' /\ TaskShape'
  BY <1>1, <1>6 DEF TrackSent, recvVars, Status
<1>7. ASSUME NEW p \in Peers, NEW w, WriteThrough(p, w) \/ Record(p, w)
      PROVE  faults' \in 0..MaxFaults
  BY <1>1, <1>3, <1>7 DEF WriteThrough, Record
<1>8. ASSUME NEW p \in Peers, SaveSent(p) PROVE TaskTypes' /\ TaskShape'
  BY <1>1, <1>7, <1>8 DEF SaveSent, recvVars
<1>9. ASSUME NEW p \in Peers, ReceiveDropped(p) \/ ReceiveJunk(p) PROVE TaskTypes' /\ TaskShape'
  BY <1>1, <1>9 DEF ReceiveDropped, ReceiveJunk, recvVars, sendVars
<1>10. ASSUME NEW p \in Peers, ReceiveChat(p) PROVE TaskTypes' /\ TaskShape'
  <2>1. Head(net[p]).id \in MessageIds
    BY <1>10, HeadIsAMessage DEF ReceiveChat, Arrives
  <2> QED
    BY <1>1, <1>10, <2>1 DEF ReceiveChat, RecvGoto, sendVars
<1>11. ASSUME NEW p \in Peers, SaveReceived(p) PROVE TaskTypes' /\ TaskShape'
  BY <1>1, <1>7, <1>11 DEF SaveReceived, RecvGoto, sendVars
<1>12. ASSUME NEW p \in Peers, AckAndShow(p) PROVE TaskTypes' /\ TaskShape'
  <2>1. handling[p] \in MessageIds
    BY <1>1, <1>12 DEF AckAndShow
  <2>2. pendingAcks' \in [Peers -> SUBSET MessageIds] /\ faults' \in 0..MaxFaults
    <3>1. CASE UNCHANGED <<pendingAcks, faults>>
      BY <1>1, <3>1
    <3>2. CASE Fault /\ pendingAcks' = [pendingAcks EXCEPT ![p] = @ \cup {handling[p]}]
      <4>1. pendingAcks[p] \cup {handling[p]} \in SUBSET MessageIds
        BY <1>1, <2>1
      <4> QED
        BY <1>1, <1>3, <3>2, <4>1
    <3> QED
      BY <1>12, <3>1, <3>2 DEF AckAndShow
  <2>3. shown' \in [Peers -> [MessageIds -> Nat]]
    <3>1. shown' = shown \/ shown' = [shown EXCEPT ![p][handling[p]] = @ + 1]
      BY <1>12 DEF AckAndShow
    <3>2. shown \in [Peers -> [MessageIds -> Nat]]
      BY <1>1
    <3>3. shown[p] \in [MessageIds -> Nat] /\ shown[p][handling[p]] + 1 \in Nat
      BY <2>1, <3>2
    <3> HIDE DEF TaskTypes, TaskShape
    <3> DEFINE r == [shown[p] EXCEPT ![handling[p]] = shown[p][handling[p]] + 1]
    <3>4. r \in [MessageIds -> Nat]
      BY <3>3
    <3>5. shown' = shown \/ shown' = [shown EXCEPT ![p] = r]
      BY <3>1
    <3> HIDE DEF r
    <3> QED
      BY <3>2, <3>4, <3>5
  <2> QED
    <3>1. /\ recvPc' = [recvPc EXCEPT ![p] = "idle"]
          /\ handling' = [handling EXCEPT ![p] = NoMessage]
          /\ UNCHANGED <<used, sendPc, sending, seen, accepted, cleared, acked, timeouts,
                          statuses>>
      BY <1>12 DEF AckAndShow, RecvGoto, sendVars
    <3>2. TaskTypes'
      BY <1>1, <2>2, <2>3, <3>1
    <3>3. TaskShape'
      BY <1>1, <3>1
    <3> QED
      BY <3>2, <3>3
<1>13. ASSUME NEW p \in Peers, ReceiveAck(p) PROVE TaskTypes' /\ TaskShape'
  <2>1. Head(net[p]).id \in MessageIds
    BY <1>13, HeadIsAMessage DEF ReceiveAck, Arrives
  <2> QED
    BY <1>1, <1>13, <2>1 DEF ReceiveAck, RecvGoto, sendVars
<1>14. ASSUME NEW p \in Peers, AckStatus(p) PROVE TaskTypes' /\ TaskShape'
  BY <1>1, <1>14 DEF AckStatus, RecvGoto, sendVars, Status
<1>15. ASSUME NEW p \in Peers, AckHistory(p) PROVE TaskTypes' /\ TaskShape'
  BY <1>1, <1>7, <1>15 DEF AckHistory, RecvGoto, sendVars
<1>16. ASSUME NEW p \in Peers, AckTimeout(p) PROVE TaskTypes' /\ TaskShape'
  BY <1>1, <1>16, ChatAssumption DEF AckTimeout, RecvGoto, sendVars
<1>17. ASSUME NEW p \in Peers, FlushTake(p) PROVE TaskTypes' /\ TaskShape'
  BY <1>1, <1>17 DEF FlushTake, sendVars, recvVars
<1>18. ASSUME NEW p \in Peers, FlushOne(p) PROVE TaskTypes' /\ TaskShape'
  BY <1>1, <1>7, <1>18 DEF FlushOne, sendVars, recvVars
<1>19. ASSUME NEW p \in Peers, Disturb(p) PROVE TaskTypes' /\ TaskShape'
  BY <1>1, <1>3, <1>19 DEF Disturb, sendVars, recvVars
<1> QED
  BY <1>2, <1>4, <1>5, <1>6, <1>8, <1>9, <1>10, <1>11, <1>12, <1>13, <1>14, <1>15,
     <1>16, <1>17, <1>18, <1>19 DEF Next, SendTask, ReceiveTask, FlushPending

\* A message leaves Unsaved once and for all, when its author's save is made.
LEMMA UnsavedStep ==
  ASSUME TypeOK, TaskShape, [Next]_vars, NEW p \in Peers, NEW m \in MessageIds
  PROVE  /\ ~Unsaved(p, m) => ~Unsaved(p, m)'
         /\ Author[m] = p /\ Unsaved(p, m)' => Unsaved(p, m)
         /\ sending[p] = m /\ sending'[p] # m => SaveSent(p)
<1> USE DEF Unsaved, TaskShape
<1>1. NoMessage \notin MessageIds /\ sending \in [Peers -> MessageIds \cup {NoMessage}]
  BY ChatAssumption DEF TypeOK
<1>2. CASE UNCHANGED <<used, sending>>
  BY <1>2
<1>3. ASSUME NEW q \in Peers, Transmit(q)
      PROVE  /\ ~Unsaved(p, m) => ~Unsaved(p, m)'
             /\ Author[m] = p /\ Unsaved(p, m)' => Unsaved(p, m)
             /\ sending[p] = m => sending'[p] = m
  <2>1. sending[q] = NoMessage
    BY <1>3 DEF Transmit
  <2>2. PICK n \in MessageIds \ used :
          /\ Author[n] = q /\ used' = used \cup {n}
          /\ sending' = [sending EXCEPT ![q] = n]
    BY <1>3 DEF Transmit
  <2> QED
    BY <1>1, <2>1, <2>2
<1>4. ASSUME NEW q \in Peers, TransmitFails(q)
      PROVE  /\ ~Unsaved(p, m) => ~Unsaved(p, m)'
             /\ Author[m] = p /\ Unsaved(p, m)' => Unsaved(p, m)
             /\ sending[p] = m => sending'[p] = m
  BY <1>1, <1>4 DEF TransmitFails
<1>5. ASSUME NEW q \in Peers, SaveSent(q)
      PROVE  /\ ~Unsaved(p, m) => ~Unsaved(p, m)'
             /\ Author[m] = p /\ Unsaved(p, m)' => Unsaved(p, m)
             /\ sending[p] = m /\ sending'[p] # m => SaveSent(p)
  <2>1. /\ sending[q] \in used /\ Author[sending[q]] = q /\ used' = used
        /\ sending' = [sending EXCEPT ![q] = NoMessage]
    BY <1>5 DEF SaveSent
  <2>2. CASE q = p
    BY <1>1, <1>5, <2>1, <2>2
  <2>3. CASE q # p
    BY <1>1, <2>1, <2>3
  <2> QED
    BY <2>2, <2>3
<1>6. \/ UNCHANGED <<used, sending>>
      \/ \E q \in Peers : Transmit(q) \/ TransmitFails(q) \/ SaveSent(q)
  <2>1. ASSUME NEW q \in Peers, ReceiveTask(q) PROVE UNCHANGED sendVars
    BY <2>1 DEF ReceiveTask, ReceiveDropped, ReceiveJunk, ReceiveChat, SaveReceived,
       AckAndShow, ReceiveAck, AckStatus, AckHistory
  <2>2. ASSUME NEW q \in Peers, AckTimeout(q) \/ FlushPending(q) \/ Disturb(q)
        PROVE  UNCHANGED sendVars
    BY <2>2 DEF AckTimeout, FlushPending, FlushTake, FlushOne, Disturb
  <2>3. ASSUME NEW q \in Peers, TrackSent(q) PROVE UNCHANGED <<used, sending>>
    BY <2>3 DEF TrackSent
  <2> QED
    BY <2>1, <2>2, <2>3 DEF Next, SendTask, vars, sendVars
<1> QED
  BY <1>2, <1>3, <1>4, <1>5, <1>6

LEMMA FrameInvStep ==
  ASSUME TypeOK, TaskShape, FrameInv, ReceiveInv, WriteMoves, NetMoves, [Next]_vars
  PROVE  FrameInv'
<1>1. \A p \in Peers : \A f \in Elems(net[p]) : f \in Frame
  BY ElementOfSeq DEF TypeOK, Elems
<1> SUFFICES ASSUME NEW p \in Peers, NEW f \in Elems(net'[p])
             PROVE  /\ f.kind = "chat" => Author[f.id] = Other[p]
                    /\ f.kind = "ack" => Author[f.id] = p /\ Kept(Other[p], f.id)'
  BY DEF FrameInv, Elems, Kept, Saved, Queued
<1>2. CASE f \in Elems(net[p])
  <2>1. f.id \in MessageIds
    BY <1>1, <1>2 DEF Frame
  <2> QED
    BY <1>2, <2>1, Peering, KeptForever DEF FrameInv
<1>3. CASE NewFrame(p, f)
  <2>1. f.kind = "ack" => handling[Other[p]] \in MessageIds
    BY <1>3, Peering DEF NewFrame, TypeOK, TaskShape
  <2> QED
    BY <1>3, <2>1, Peering, KeptForever DEF NewFrame, ReceiveInv
<1> QED
  BY <1>2, <1>3 DEF NetMoves

LEMMA HistoryInvStep ==
  ASSUME TypeOK, TaskShape, ReceiveInv, WriteInv, HistoryInv, WriteMoves, [Next]_vars
  PROVE  HistoryInv'
<1> SUFFICES ASSUME NEW p \in Peers, NEW m \in MessageIds,
                    Author[m] = p, Unsaved(p, m)', hist'[p][m] # "none"
             PROVE  FALSE
  BY DEF HistoryInv
<1>1. Unsaved(p, m) /\ hist[p][m] = "none"
  BY UnsavedStep DEF HistoryInv
<1>2. PICK q \in Peers, w \in Write :
        Applied(q, w) /\ (NewWrite(q, w) \/ w \in Queued(q))
  BY <1>1 DEF WriteMoves, NothingMoves, NewIsStored, NewIsQueued, QueuedIsStored
<1>3. q = p /\ w.id = m /\ w.op = "save"
  BY <1>1, <1>2 DEF Applied, Applies, TypeOK, Write
<1>4. CASE SaveSent(p) /\ w.id = sending[p]
  BY <1>3, <1>4, UnsavedStep, ChatAssumption DEF SaveSent, Unsaved, TypeOK, TaskShape
<1>5. CASE SaveReceived(p) /\ w.id = handling[p]
  BY <1>3, <1>5, Peering DEF SaveReceived, ReceiveInv
<1>6. CASE w \in Queued(p)
  BY <1>1, <1>3, <1>6, Peering DEF WriteInv, Write, Status
<1> QED
  BY <1>2, <1>3, <1>4, <1>5, <1>6 DEF NewWrite

\* The status of a message that is stored as Delivered is final.
LEMMA HistoryIsFinal ==
  ASSUME TypeOK, TaskShape, WriteInv, HistoryInv, WriteMoves, [Next]_vars,
         NEW p \in Peers, NEW m \in MessageIds, hist[p][m] = "Delivered"
  PROVE  hist'[p][m] = "Delivered"
<1> SUFFICES ASSUME hist'[p][m] # hist[p][m], hist'[p][m] # "Delivered"
             PROVE  FALSE
  OBVIOUS
<1>1. PICK q \in Peers, w \in Write :
        Applied(q, w) /\ (NewWrite(q, w) \/ w \in Queued(q))
  BY DEF WriteMoves, NothingMoves, NewIsStored, NewIsQueued, QueuedIsStored
<1>2. q = p /\ w.id = m /\ w.status = "Sent"
  BY <1>1 DEF Applied, TypeOK, Write, Status
<1>3. CASE w \in Queued(p)
  BY <1>2, <1>3 DEF WriteInv
<1>4. CASE SaveSent(p) /\ w.id = sending[p]
  BY <1>2, <1>4 DEF SaveSent, HistoryInv, Unsaved, TaskShape
<1> QED
  BY <1>1, <1>2, <1>3, <1>4 DEF NewWrite

LEMMA ReceiveInvStep ==
  ASSUME TypeOK, TaskShape, FrameInv, ReceiveInv, WriteMoves, [Next]_vars
  PROVE  ReceiveInv'
<1> DEFINE Fine(q, s, m) ==
      /\ s \in {"save", "ack"} => Author[m] = Other[q]
      /\ s = "save" => m \in accepted'[q]
      /\ s = "ack" => Kept(q, m)'
      /\ s \in {"status", "record"} => Author[m] = q /\ Kept(Other[q], m)'
<1>1. SUFFICES ASSUME NEW q \in Peers, NEW m, m = handling'[q]
               PROVE  Fine(q, recvPc'[q], m)
  BY DEF ReceiveInv, Kept, Saved, Queued
<1>2. CASE recvPc'[q] = recvPc[q] /\ m = handling[q]
  <2>1. recvPc[q] # "idle" => m \in MessageIds
    BY <1>2 DEF TypeOK, TaskShape
  <2>2. CASE recvPc[q] = "idle"
    BY <1>2, <2>2
  <2>3. CASE recvPc[q] # "idle"
    <3>1. Kept(q, m) => Kept(q, m)'
      BY <2>1, <2>3, KeptForever
    <3>2. Kept(Other[q], m) => Kept(Other[q], m)'
      BY <2>1, <2>3, Peering, KeptForever
    <3> QED
      BY <1>2, <3>1, <3>2, AcceptedForever DEF ReceiveInv
  <2> QED
    BY <2>2, <2>3
<1>3. CASE recvPc'[q] = "idle"
  BY <1>3
<1>4. CASE ReceiveChat(q)
  <2>1. recvPc'[q] = "save" /\ m = Head(net[q]).id /\ m \in accepted'[q]
    BY <1>1, <1>4 DEF ReceiveChat, RecvGoto, TypeOK
  <2>2. Author[Head(net[q]).id] = Other[q]
    BY <1>4, TakeMoves DEF ReceiveChat, Arrives, FrameInv
  <2> QED
    BY <2>1, <2>2
<1>5. CASE SaveReceived(q)
  <2>1. recvPc'[q] = "ack" /\ m = handling[q] /\ m \in MessageIds
    BY <1>1, <1>5 DEF SaveReceived, RecvGoto, TypeOK, TaskShape
  <2>2. Author[m] = Other[q] /\ m \in accepted'[q]
    BY <1>5, <2>1, AcceptedForever DEF SaveReceived, ReceiveInv
  <2>3. CASE q \in Historians
    <3> DEFINE w == [op |-> "save", id |-> m, status |-> "Delivered"]
    <3>1. WriteThrough(q, w) /\ w \in Write /\ w.id = m /\ w.op = "save"
          /\ w.status # "none"
      BY <1>5, <2>1, <2>3 DEF SaveReceived, Record, Write, Status
    <3> HIDE DEF w
    <3>2. Kept(q, m)'
      BY <2>1, <2>3, <3>1, WriteLands DEF Kept, Saved
    <3> QED
      BY <2>1, <2>2, <3>2
  <2>4. CASE q \notin Historians
    BY <2>1, <2>2, <2>4 DEF Kept
  <2> QED
    BY <2>3, <2>4
<1>6. CASE ReceiveAck(q)
  <2>1. recvPc'[q] = "status" /\ m = Head(net[q]).id
    BY <1>1, <1>6 DEF ReceiveAck, RecvGoto, TypeOK
  <2>2. /\ Head(net[q]) \in Elems(net[q]) /\ Head(net[q]).kind = "ack"
        /\ Head(net[q]).id \in MessageIds
    BY <1>6, TakeMoves, HeadIsAMessage DEF ReceiveAck, Arrives
  <2>3. m \in MessageIds /\ Author[m] = q /\ Kept(Other[q], m)
    BY <2>1, <2>2 DEF FrameInv
  <2>4. Kept(Other[q], m)'
    BY <2>3, Peering, KeptForever
  <2> QED
    BY <2>1, <2>3, <2>4
<1>7. CASE AckStatus(q)
  <2>1. recvPc'[q] = "record" /\ m = handling[q] /\ m \in MessageIds
    BY <1>1, <1>7 DEF AckStatus, RecvGoto, TypeOK, TaskShape
  <2>2. Author[m] = q /\ Kept(Other[q], m)
    BY <1>7, <2>1 DEF ReceiveInv, AckStatus
  <2>3. Kept(Other[q], m)'
    BY <2>1, <2>2, Peering, KeptForever
  <2> QED
    BY <2>1, <2>2, <2>3
<1>8. \/ recvPc'[q] = recvPc[q] /\ handling'[q] = handling[q]
      \/ recvPc'[q] = "idle"
      \/ ReceiveChat(q) \/ SaveReceived(q) \/ ReceiveAck(q) \/ AckStatus(q)
  <2> USE DEF RecvGoto
  <2>0. /\ recvPc \in [Peers -> {"idle", "save", "ack", "status", "record"}]
        /\ handling \in [Peers -> MessageIds \cup {NoMessage}]
    BY DEF TypeOK
  <2>1. CASE UNCHANGED <<recvPc, handling>>
    BY <2>1
  <2>2. ASSUME NEW p \in Peers, ReceiveTask(p) \/ AckTimeout(p)
        PROVE  \/ recvPc'[q] = recvPc[q] /\ handling'[q] = handling[q]
               \/ recvPc'[q] = "idle"
               \/ ReceiveChat(q) \/ SaveReceived(q) \/ ReceiveAck(q) \/ AckStatus(q)
    <3>1. CASE ReceiveDropped(p) \/ ReceiveJunk(p)
      BY <3>1 DEF ReceiveDropped, ReceiveJunk, recvVars
    <3>2. CASE ReceiveChat(p) \/ SaveReceived(p) \/ ReceiveAck(p) \/ AckStatus(p)
      BY <2>0, <3>2 DEF ReceiveChat, SaveReceived, ReceiveAck, AckStatus
    <3>3. CASE AckAndShow(p) \/ AckHistory(p) \/ AckTimeout(p)
      BY <2>0, <3>3 DEF AckAndShow, AckHistory, AckTimeout
    <3> QED
      BY <2>2, <3>1, <3>2, <3>3 DEF ReceiveTask
  <2>3. ASSUME NEW p \in Peers, SendTask(p) \/ FlushPending(p) \/ Disturb(p)
        PROVE  UNCHANGED <<recvPc, handling>>
    BY <2>3 DEF SendTask, Transmit, TransmitFails, TrackSent, SaveSent, FlushPending,
       FlushTake, FlushOne, Disturb, recvVars
  <2> QED
    BY <2>1, <2>2, <2>3 DEF Next, vars, recvVars
<1> QED
  BY <1>1, <1>2, <1>3, <1>4, <1>5, <1>6, <1>7, <1>8

\* What becomes of a message's entry in the status map, and of its ack.
LEMMA StatusStep ==
  ASSUME TypeOK, TaskShape, [Next]_vars, NEW p \in Peers, NEW m \in MessageIds
  PROVE  /\ \/ statuses'[p][m] = statuses[p][m]
            \/ TrackSent(p) /\ sending[p] = m /\ statuses'[p][m] = "Sent"
            \/ /\ AckStatus(p) /\ handling[p] = m
               /\ statuses[p][m] # "none" /\ statuses'[p][m] = "Delivered"
         /\ m \in acked'[p] => m \in acked[p] \/ (AckHistory(p) /\ handling[p] = m)
         /\ sendPc'[p] = "track" /\ sendPc[p] # "track" => Transmit(p)
         /\ sending'[p] # sending[p] => Transmit(p) \/ SaveSent(p)
         /\ m \in used => m \in used'
<1> DEFINE Fine ==
      /\ \/ statuses'[p][m] = statuses[p][m]
         \/ TrackSent(p) /\ sending[p] = m /\ statuses'[p][m] = "Sent"
         \/ /\ AckStatus(p) /\ handling[p] = m
            /\ statuses[p][m] # "none" /\ statuses'[p][m] = "Delivered"
      /\ m \in acked'[p] => m \in acked[p] \/ (AckHistory(p) /\ handling[p] = m)
      /\ sendPc'[p] = "track" /\ sendPc[p] # "track" => Transmit(p)
      /\ sending'[p] # sending[p] => Transmit(p) \/ SaveSent(p)
      /\ m \in used => m \in used'
<1>1. /\ statuses \in [Peers -> [MessageIds -> Status \cup {"none"}]]
      /\ acked \in [Peers -> SUBSET MessageIds]
      /\ sending \in [Peers -> MessageIds \cup {NoMessage}]
      /\ sendPc \in [Peers -> {"idle", "track", "save"}]
  BY DEF TypeOK
<1>2. CASE UNCHANGED <<statuses, acked, sendPc, sending, used>>
  BY <1>2
<1>3. ASSUME NEW q \in Peers, Transmit(q) \/ TransmitFails(q) \/ SaveSent(q) PROVE Fine
  BY <1>1, <1>3 DEF Transmit, TransmitFails, SaveSent, recvVars
<1>4. ASSUME NEW q \in Peers, TrackSent(q) PROVE Fine
  <2>1. sending[q] \in MessageIds
    BY <1>1, <1>4 DEF TrackSent, TaskShape
  <2>2. /\ statuses' = [statuses EXCEPT ![q][sending[q]] = "Sent"]
        /\ sendPc' = [sendPc EXCEPT ![q] = "save"]
        /\ UNCHANGED <<used, sending, acked>>
    BY <1>4 DEF TrackSent, recvVars
  <2>3. CASE q = p /\ sending[q] = m
    BY <1>1, <1>4, <2>2, <2>3
  <2>4. CASE q # p \/ sending[q] # m
    BY <1>1, <2>1, <2>2, <2>4
  <2> QED
    BY <2>3, <2>4
<1>5. ASSUME NEW q \in Peers, AckStatus(q) PROVE Fine
  <2>1. handling[q] \in MessageIds
    BY <1>5 DEF AckStatus, TaskShape, TypeOK
  <2>2. /\ UNCHANGED <<used, sending, sendPc, acked>>
        /\ statuses' = IF statuses[q][handling[q]] = "none" THEN statuses
                       ELSE [statuses EXCEPT ![q][handling[q]] = "Delivered"]
    BY <1>5 DEF AckStatus, sendVars
  <2>3. CASE q = p /\ handling[q] = m
    BY <1>1, <1>5, <2>2, <2>3
  <2>4. CASE q # p \/ handling[q] # m
    BY <1>1, <2>1, <2>2, <2>4
  <2> QED
    BY <2>3, <2>4
<1>6. ASSUME NEW q \in Peers, AckHistory(q) PROVE Fine
  BY <1>1, <1>6 DEF AckHistory, sendVars
<1>7. \/ UNCHANGED <<statuses, acked, sendPc, sending, used>>
      \/ \E q \in Peers : \/ Transmit(q) \/ TransmitFails(q) \/ SaveSent(q)
                          \/ TrackSent(q) \/ AckStatus(q) \/ AckHistory(q)
  <2>1. ASSUME NEW q \in Peers,
               \/ ReceiveDropped(q) \/ ReceiveJunk(q) \/ ReceiveChat(q)
               \/ SaveReceived(q) \/ AckAndShow(q) \/ ReceiveAck(q)
        PROVE  UNCHANGED <<statuses, acked, sendPc, sending, used>>
    BY <2>1 DEF ReceiveDropped, ReceiveJunk, ReceiveChat, SaveReceived, AckAndShow,
       ReceiveAck, sendVars, recvVars
  <2>2. ASSUME NEW q \in Peers, AckTimeout(q) \/ FlushPending(q) \/ Disturb(q)
        PROVE  UNCHANGED <<statuses, acked, sendPc, sending, used>>
    BY <2>2 DEF AckTimeout, FlushPending, FlushTake, FlushOne, Disturb, sendVars, recvVars
  <2> QED
    BY <2>1, <2>2 DEF Next, SendTask, ReceiveTask, vars, sendVars, recvVars
<1> QED
  BY <1>2, <1>3, <1>4, <1>5, <1>6, <1>7

LEMMA StatusInvStep ==
  ASSUME TypeOK, TaskShape, ReceiveInv, StatusInv, [Next]_vars
  PROVE  StatusInv'
<1> SUFFICES ASSUME NEW p \in Peers, NEW m \in MessageIds
             PROVE  /\ statuses'[p][m] # "none" \/ m \in acked'[p] => Author[m] = p
                    /\ m \notin used' => statuses'[p][m] = "none"
                    /\ sendPc'[p] = "track" /\ sending'[p] = m => statuses'[p][m] = "none"
  BY DEF StatusInv
<1>1. /\ statuses[p][m] # "none" \/ m \in acked[p] => Author[m] = p
      /\ m \notin used => statuses[p][m] = "none"
      /\ sendPc[p] = "track" /\ sending[p] = m => statuses[p][m] = "none"
  BY DEF StatusInv
<1>2. TrackSent(p) => sendPc[p] = "track" /\ sendPc'[p] = "save" /\ sending[p] \in used
                      /\ Author[sending[p]] = p
  BY DEF TrackSent, TaskShape, TypeOK
<1>3. AckHistory(p) => Author[handling[p]] = p
  BY DEF AckHistory, ReceiveInv
<1>4. Transmit(p) /\ sending'[p] = m => m \notin used /\ statuses'[p][m] = statuses[p][m]
  BY DEF Transmit, TypeOK
<1>5. SaveSent(p) => sendPc'[p] = "idle"
  BY DEF SaveSent, TypeOK
<1> QED
  BY <1>1, <1>2, <1>3, <1>4, <1>5, StatusStep

LEMMA WriteInvStep ==
  ASSUME TypeOK, TaskShape, ReceiveInv, WriteInv, HistoryInv, WriteMoves, [Next]_vars
  PROVE  WriteInv'
<1> SUFFICES ASSUME NEW p \in Peers, NEW w \in Queued(p)'
             PROVE  /\ w.status = "Sent" => /\ w.op = "save" /\ Author[w.id] = p
                                            /\ hist'[p][w.id] = "none"
                                            /\ ~Unsaved(p, w.id)'
                    /\ w.op = "save" /\ w.status = "Delivered" => Author[w.id] = Other[p]
                    /\ w.op = "update" => /\ w.status = "Delivered" /\ Author[w.id] = p
                                          /\ Kept(Other[p], w.id)'
  BY DEF WriteInv, Queued, Unsaved, Kept, Saved
<1>1. CASE w \in Queued(p)
  <2>1. w \in Write /\ w.id \in MessageIds
    <3>1. pend[p] \in Seq(Write) /\ flush[p] \in Seq(Write)
      BY DEF TypeOK
    <3>2. w \in Write
      BY <1>1, <3>1, ElementOfSeq DEF Queued
    <3> QED
      BY <3>2 DEF Write
  <2>2. w.op = "update" => Kept(Other[p], w.id)'
    BY <1>1, <2>1, Peering, KeptForever DEF WriteInv
  <2>3. w.status = "Sent" => ~Unsaved(p, w.id)'
    BY <1>1, <2>1, UnsavedStep DEF WriteInv
  <2>4. ASSUME w.status = "Sent", hist'[p][w.id] # "none" PROVE FALSE
    <3>1. w.op = "save" /\ Author[w.id] = p /\ hist[p][w.id] = "none" /\ ~Unsaved(p, w.id)
      BY <1>1, <2>4 DEF WriteInv
    <3>2. PICK q \in Peers, v \in Write :
            /\ Applied(q, v)
            /\ NewWrite(q, v) \/ QueuedIsStored(q, v)
      BY <2>4, <3>1 DEF WriteMoves, NothingMoves, NewIsStored, NewIsQueued, QueuedIsStored
    <3>3. q = p /\ v.id = w.id /\ v.op = "save"
      BY <2>1, <2>4, <3>1, <3>2 DEF Applied, Applies, TypeOK, Write
    <3>4. CASE SaveSent(p) /\ v.id = sending[p]
      BY <3>1, <3>3, <3>4 DEF Unsaved
    <3>5. CASE SaveReceived(p) /\ v.id = handling[p]
      BY <3>1, <3>3, <3>5, Peering DEF SaveReceived, ReceiveInv
    <3>6. CASE QueuedIsStored(p, v)
      <4>1. v.status = "Delivered" \/ v.id # w.id
        BY <2>4, <3>2, <3>6 DEF QueuedIsStored, Write, Status
      <4> QED
        BY <3>1, <3>3, <3>6, <4>1, Peering DEF QueuedIsStored, WriteInv
    <3> QED
      BY <3>2, <3>3, <3>4, <3>5, <3>6 DEF NewWrite
  <2> QED
    BY <1>1, <2>2, <2>3, <2>4 DEF WriteInv
<1>2. CASE w \notin Queued(p)
  <2>1. PICK v \in Write : NewIsQueued(p, v) /\ v = w
    BY <1>2 DEF WriteMoves, NothingMoves, NewIsStored, NewIsQueued, QueuedIsStored, OthersWait
  <2>2. w \in Write /\ NewWrite(p, w) /\ UNCHANGED hist
    BY <2>1 DEF NewIsQueued
  <2>3. CASE SaveSent(p) /\ w = [op |-> "save", id |-> sending[p], status |-> "Sent"]
    <3>1. w.op = "save" /\ w.status = "Sent" /\ w.id = sending[p] /\ w.id \in MessageIds
      BY <2>2, <2>3 DEF Write
    <3>2. Author[w.id] = p /\ w.id \in used
      BY <2>3, <3>1 DEF SaveSent, TaskShape
    <3>3. hist[p][w.id] = "none"
      BY <3>1, <3>2 DEF HistoryInv, Unsaved
    <3>4. ~Unsaved(p, w.id)'
      BY <2>3, <3>1, <3>2, ChatAssumption DEF SaveSent, Unsaved, TypeOK
    <3> QED
      BY <2>2, <3>1, <3>2, <3>3, <3>4
  <2>4. CASE SaveReceived(p)
             /\ w = [op |-> "save", id |-> handling[p], status |-> "Delivered"]
    BY <2>4 DEF SaveReceived, ReceiveInv
  <2>5. CASE AckHistory(p)
             /\ w = [op |-> "update", id |-> handling[p], status |-> "Delivered"]
    <3>1. w.op = "update" /\ w.status = "Delivered" /\ w.id = handling[p]
          /\ w.id \in MessageIds
      BY <2>2, <2>5 DEF Write
    <3>2. Author[w.id] = p /\ Kept(Other[p], w.id)
      BY <2>5, <3>1 DEF AckHistory, ReceiveInv
    <3>3. Kept(Other[p], w.id)'
      BY <3>1, <3>2, Peering, KeptForever
    <3> QED
      BY <3>1, <3>2, <3>3
  <2> QED
    BY <2>2, <2>3, <2>4, <2>5 DEF NewWrite
<1> QED
  BY <1>1, <1>2

LEMMA OneSaveStep ==
  ASSUME TypeOK, TaskShape, WriteInv, OneSave, [Next]_vars
  PROVE  OneSave'
<1>1. HistoryTypes /\ HistoryMoves
  BY HistoryStep DEF TypeOK, HistoryTypes
<1>2. \A q \in Peers : Line(q) \in Seq(Write) /\ Queued(q) = Elems(Line(q))
  BY <1>1, LineType DEF LinesTyped
<1>3. SUFFICES ASSUME NEW q \in Peers, NEW t, t = Line(q)' PROVE OneSent(t)
  BY DEF OneSave, OneSent
<1> DEFINE s == Line(q)
<1>4. s \in Seq(Write) /\ OneSent(s) /\ Queued(q) = Elems(s)
  BY <1>2 DEF OneSave
<1>5. CASE t = s
  BY <1>4, <1>5
<1>6. ASSUME NEW w \in Write, NewWrite(q, w), t = Append(s, w) PROVE OneSent(t)
  <2>1. ASSUME NEW v \in Elems(s), w.status = "Sent", v.status = "Sent" PROVE v.id # w.id
    <3>1. w.id = sending[q]
      BY <1>6, <2>1 DEF NewWrite
    <3>2. ~Unsaved(q, v.id)
      BY <1>4, <2>1 DEF WriteInv
    <3> QED
      BY <3>1, <3>2 DEF Unsaved
  <2> HIDE DEF s
  <2> QED
    BY <1>4, <1>6, <2>1, OneSentAppend
<1>7. ASSUME s # << >>, \/ t = Tail(s)
                        \/ t = Append(Tail(s), Head(s))
      PROVE  OneSent(t)
  <2> DEFINE r == Tail(s)  w == Head(s)
  <2>1. r \in Seq(Write) /\ w \in Write
    BY <1>4, <1>7, TailElems
  <2>2. OneSent(r) /\ \A v \in Elems(r) : w.status = "Sent" /\ v.status = "Sent" => v.id # w.id
    BY <1>4, <1>7, OneSentTail
  <2>3. t = r \/ t = Append(r, w)
    BY <1>7
  <2> HIDE DEF r, w
  <2> QED
    BY <2>1, <2>2, <2>3, OneSentAppend
<1>8. \/ t = s
      \/ \E w \in Write : NewWrite(q, w) /\ t = Append(s, w)
      \/ s # << >> /\ (t = Tail(s) \/ t = Append(Tail(s), Head(s)))
  <2>1. CASE LinesStay
    BY <1>3, <2>1 DEF LinesStay
  <2>2. ASSUME NEW p \in Peers, NEW w \in Write, NewWrite(p, w), Written(p, w), t # s
        PROVE  NewWrite(q, w) /\ t = Append(s, w)
    BY <1>3, <2>2 DEF Written, LinesStay, OtherLinesStay
  <2>3. ASSUME NEW p \in Peers, Retried(p), t # s
        PROVE  s # << >> /\ (t = Tail(s) \/ t = Append(Tail(s), Head(s)))
    BY <1>3, <2>3 DEF Retried, OtherLinesStay
  <2> QED
    BY <1>1, <2>1, <2>2, <2>3 DEF HistoryMoves
<1> QED
  BY <1>5, <1>6, <1>7, <1>8

LEMMA DeliveredStep ==
  ASSUME TypeOK, TaskShape, ReceiveInv, WriteInv, DeliveredIsKept, WriteMoves, [Next]_vars
  PROVE  DeliveredIsKept'
<1> SUFFICES ASSUME NEW p \in Peers, NEW m \in MessageIds, Author[m] = p,
                    "Delivered" \in {statuses'[p][m], hist'[p][m]}
             PROVE  Kept(Other[p], m)
  BY Peering, KeptForever DEF DeliveredIsKept, Kept, Saved, Queued
<1>1. CASE "Delivered" \in {statuses[p][m], hist[p][m]}
  BY <1>1 DEF DeliveredIsKept
<1>2. CASE statuses'[p][m] = "Delivered" /\ statuses[p][m] # "Delivered"
  <2>1. AckStatus(p) /\ handling[p] = m
    BY <1>2, StatusStep
  <2> QED
    BY <2>1 DEF AckStatus, ReceiveInv
<1>3. CASE hist'[p][m] = "Delivered" /\ hist[p][m] # "Delivered"
  <2>1. PICK q \in Peers, w \in Write :
          Applied(q, w) /\ (NewWrite(q, w) \/ w \in Queued(q))
    BY <1>3 DEF WriteMoves, NothingMoves, NewIsStored, NewIsQueued, QueuedIsStored
  <2>2. q = p /\ w.id = m /\ w.status = "Delivered"
    BY <1>3, <2>1 DEF Applied, TypeOK, Write
  <2>3. CASE w \in Queued(p)
    BY <2>2, <2>3, Peering DEF WriteInv, Write
  <2>4. CASE SaveReceived(p) /\ w.id = handling[p]
    BY <2>2, <2>4, Peering DEF SaveReceived, ReceiveInv
  <2>5. CASE AckHistory(p) /\ w.id = handling[p]
    BY <2>2, <2>5 DEF AckHistory, ReceiveInv
  <2> QED
    BY <2>1, <2>2, <2>3, <2>4, <2>5 DEF NewWrite
<1> QED
  BY <1>1, <1>2, <1>3

LEMMA ForgottenStep ==
  ASSUME TypeOK, TaskShape, ReceiveInv, WriteInv, HistoryInv, NoWriteForgotten,
         WriteMoves, [Next]_vars
  PROVE  NoWriteForgotten'
<1> SUFFICES ASSUME NEW p \in Historians, NEW m \in MessageIds
             PROVE  /\ statuses'[p][m] # "none" /\ sending'[p] # m => Saved(p, m)'
                    /\ m \in acked'[p] => \/ hist'[p][m] = "Delivered"
                                          \/ \E w \in Queued(p)' : w.op = "update" /\ w.id = m
  BY DEF NoWriteForgotten, Saved, Queued
<1>0. p \in Peers
  BY ChatAssumption
<1>1. ASSUME statuses'[p][m] # "none", sending'[p] # m PROVE Saved(p, m)'
  <2>1. CASE sending[p] = m
    <3>1. SaveSent(p) /\ m \in MessageIds
      BY <1>0, <1>1, <2>1, UnsavedStep
    <3> DEFINE w == [op |-> "save", id |-> m, status |-> "Sent"]
    <3>2. WriteThrough(p, w) /\ w \in Write /\ w.id = m /\ w.op = "save" /\ w.status # "none"
      BY <2>1, <3>1 DEF SaveSent, Record, Write, Status
    <3> HIDE DEF w
    <3> QED
      BY <1>0, <3>2, WriteLands DEF Saved
  <2>2. CASE sending[p] # m
    <3>1. statuses[p][m] # "none"
      BY <1>0, <1>1, <2>2, StatusStep
    <3> QED
      BY <1>0, <2>2, <3>1, KeptForever DEF NoWriteForgotten
  <2> QED
    BY <2>1, <2>2
<1>2. ASSUME m \in acked[p], hist[p][m] = "Delivered" PROVE hist'[p][m] = "Delivered"
  BY <1>0, <1>2, HistoryIsFinal
<1>3. ASSUME NEW w \in Queued(p), w.op = "update", w.id = m
      PROVE  hist'[p][m] = "Delivered" \/ w \in Queued(p)'
  <2>1. CASE w \in Queued(p)'
    BY <2>1
  <2>2. CASE w \notin Queued(p)'
    <3>1. Applied(p, w)
      BY <1>0, <2>2 DEF WriteMoves, NothingMoves, NewIsStored, NewIsQueued, QueuedIsStored, OthersWait
    <3>2. w.status = "Delivered"
      BY <1>0, <1>3 DEF WriteInv
    <3> QED
      BY <1>0, <1>3, <3>1, <3>2 DEF Applied, TypeOK
  <2> QED
    BY <2>1, <2>2
<1>4. ASSUME AckHistory(p), handling[p] = m
      PROVE  \/ hist'[p][m] = "Delivered"
             \/ \E w \in Queued(p)' : w.op = "update" /\ w.id = m
  <2> DEFINE w == [op |-> "update", id |-> m, status |-> "Delivered"]
  <2>1. /\ WriteThrough(p, w) /\ w \in Write /\ w.id = m /\ w.op = "update"
        /\ w.status = "Delivered"
    BY <1>4 DEF AckHistory, Record, Write, Status
  <2> HIDE DEF w
  <2> QED
    BY <1>0, <2>1, WriteLands
<1> QED
  BY <1>0, <1>1, <1>2, <1>3, <1>4, StatusStep DEF NoWriteForgotten

LEMMA ShownStep ==
  ASSUME TypeOK, TaskShape, ShownInv, [Next]_vars
  PROVE  ShownInv'
<1> DEFINE Coming(s, h, m) == IF s \in {"save", "ack"} /\ h = m THEN 1 ELSE 0
           Tracked(d, m) == IF m \in d THEN 1 ELSE 0
<1>1. SUFFICES ASSUME NEW p \in Peers, NEW m \in MessageIds
               PROVE  shown'[p][m] + Coming(recvPc'[p], handling'[p], m)
                        <= cleared'[p] + Tracked(seen'[p], m)
  BY DEF ShownInv
<1>2. /\ shown[p][m] + Coming(recvPc[p], handling[p], m) <= cleared[p] + Tracked(seen[p], m)
      /\ shown[p][m] \in Nat /\ cleared[p] \in Nat
  BY DEF ShownInv, TypeOK
<1>3. CASE /\ UNCHANGED <<shown, cleared, seen>>
           /\ \/ recvPc'[p] = recvPc[p] /\ handling'[p] = handling[p]
              \/ recvPc'[p] \notin {"save", "ack"}
              \/ recvPc[p] = "save" /\ recvPc'[p] = "ack" /\ handling'[p] = handling[p]
  BY <1>2, <1>3
<1>4. ASSUME NEW q \in Peers, ReceiveChat(q)
      PROVE  shown'[p][m] + Coming(recvPc'[p], handling'[p], m)
               <= cleared'[p] + Tracked(seen'[p], m)
  <2>1. CASE q # p
    <3>1. /\ shown' = shown /\ cleared'[p] = cleared[p] /\ seen'[p] = seen[p]
          /\ recvPc'[p] = recvPc[p] /\ handling'[p] = handling[p]
      BY <1>4, <2>1 DEF ReceiveChat, RecvGoto, TypeOK
    <3> QED
      BY <1>2, <3>1
  <2>2. CASE q = p
    <3> DEFINE h == Head(net[p]).id
               full == Cardinality(seen[p]) >= MaxTracking
    <3>1. /\ shown' = shown /\ recvPc[p] = "idle" /\ recvPc'[p] = "save"
          /\ handling'[p] = h /\ h \notin seen[p]
          /\ cleared'[p] = (IF full THEN cleared[p] + 1 ELSE cleared[p])
          /\ seen'[p] = (IF full THEN {} ELSE seen[p]) \cup {h}
      BY <1>4, <2>2 DEF ReceiveChat, RecvGoto, TypeOK, Arrives, Dropped
    <3> HIDE DEF h, full
    <3>2. shown[p][m] <= cleared[p] + Tracked(seen[p], m)
      BY <1>2, <3>1
    <3>3. Coming(recvPc'[p], handling'[p], m) = (IF m = h THEN 1 ELSE 0)
      BY <3>1
    <3>4. CASE m = h
      BY <1>2, <3>1, <3>2, <3>3, <3>4
    <3>5. CASE m # h
      BY <1>2, <3>1, <3>2, <3>3, <3>5
    <3> QED
      BY <3>4, <3>5
  <2> QED
    BY <2>1, <2>2
<1>5. ASSUME NEW q \in Peers, AckAndShow(q)
      PROVE  shown'[p][m] + Coming(recvPc'[p], handling'[p], m)
               <= cleared'[p] + Tracked(seen'[p], m)
  <2>1. /\ cleared' = cleared /\ seen' = seen /\ recvPc[q] = "ack"
        /\ recvPc' = [recvPc EXCEPT ![q] = "idle"]
        /\ handling' = [handling EXCEPT ![q] = NoMessage]
        /\ shown' = shown \/ shown' = [shown EXCEPT ![q][handling[q]] = @ + 1]
    BY <1>5 DEF AckAndShow, RecvGoto
  <2>2. CASE q # p
    <3>1. shown'[p] = shown[p] /\ recvPc'[p] = recvPc[p] /\ handling'[p] = handling[p]
      BY <2>1, <2>2 DEF TypeOK
    <3> QED
      BY <1>2, <2>1, <3>1
  <2>3. CASE q = p
    <3>1. recvPc'[p] = "idle"
      BY <2>1, <2>3 DEF TypeOK
    <3>2. shown'[p][m] <= shown[p][m] + Coming(recvPc[p], handling[p], m)
      <4>1. CASE shown' = shown
        BY <1>2, <4>1
      <4>2. CASE shown' = [shown EXCEPT ![q][handling[q]] = @ + 1]
        <5>1. shown'[p][m] = IF handling[p] = m THEN shown[p][m] + 1 ELSE shown[p][m]
          BY <2>3, <4>2 DEF TypeOK
        <5> QED
          BY <1>2, <2>1, <2>3, <5>1
      <4> QED
        BY <2>1, <4>1, <4>2
    <3>3. shown'[p][m] \in Nat
      <4>1. handling[q] \in MessageIds
        BY <2>1 DEF TypeOK, TaskShape
      <4>2. shown \in [Peers -> [MessageIds -> Nat]]
        BY DEF TypeOK
      <4>3. shown'[p][m] = shown[p][m] \/ shown'[p][m] = shown[p][m] + 1
        <5>1. CASE shown' = [shown EXCEPT ![q][handling[q]] = @ + 1]
          BY <2>3, <4>1, <4>2, <5>1
        <5> QED
          BY <2>1, <5>1
      <4> QED
        BY <1>2, <4>3
    <3> QED
      BY <1>2, <2>1, <3>1, <3>2, <3>3
  <2> QED
    BY <2>2, <2>3
<1>6. \/ \E q \in Peers : ReceiveChat(q) \/ AckAndShow(q)
      \/ /\ UNCHANGED <<shown, cleared, seen>>
         /\ \/ recvPc'[p] = recvPc[p] /\ handling'[p] = handling[p]
            \/ recvPc'[p] \notin {"save", "ack"}
            \/ recvPc[p] = "save" /\ recvPc'[p] = "ack" /\ handling'[p] = handling[p]
  <2> DEFINE Quiet ==
        /\ UNCHANGED <<shown, cleared, seen>>
        /\ \/ recvPc'[p] = recvPc[p] /\ handling'[p] = handling[p]
           \/ recvPc'[p] \notin {"save", "ack"}
           \/ recvPc[p] = "save" /\ recvPc'[p] = "ack" /\ handling'[p] = handling[p]
  <2>1. CASE UNCHANGED <<recvPc, handling, shown, cleared, seen>>
    BY <2>1
  <2>2. ASSUME NEW q \in Peers,
               SaveReceived(q) \/ ReceiveAck(q) \/ AckStatus(q) \/ AckHistory(q) \/ AckTimeout(q)
        PROVE  Quiet
    BY <2>2 DEF SaveReceived, ReceiveAck, AckStatus, AckHistory, AckTimeout, RecvGoto, TypeOK
  <2>3. ASSUME NEW q \in Peers,
               \/ SendTask(q) \/ ReceiveDropped(q) \/ ReceiveJunk(q)
               \/ FlushPending(q) \/ Disturb(q)
        PROVE  UNCHANGED <<recvPc, handling, shown, cleared, seen>>
    BY <2>3 DEF SendTask, Transmit, TransmitFails, TrackSent, SaveSent, ReceiveDropped,
       ReceiveJunk, FlushPending, FlushTake, FlushOne, Disturb, recvVars
  <2> QED
    BY <2>1, <2>2, <2>3 DEF Next, ReceiveTask, vars, recvVars
<1> QED
  BY <1>3, <1>4, <1>5, <1>6

-----------------------------------------------------------------------------
(* The theorems *)

LEMMA ChatInvInit == Init => ChatInv
<1> SUFFICES ASSUME Init PROVE ChatInv
  OBVIOUS
<1>0. NoMessage \notin MessageIds /\ MaxFaults \in Nat /\ MaxTimeouts \in Nat
  BY ChatAssumption
<1>1. TypeOK
  BY <1>0, EmptySeq DEF Init, TypeOK
<1>2. \A p \in Peers : /\ net[p] = << >> /\ pend[p] = << >> /\ flush[p] = << >>
                       /\ Elems(net[p]) = {} /\ Queued(p) = {}
  BY DEF Init, Elems, Queued
<1>3. \A p \in Peers : Line(p) = << >> /\ Len(Line(p)) = 0
  BY <1>2, ConcatEmptySeq, EmptySeq DEF Line
<1>4. TaskShape /\ FrameInv /\ ReceiveInv /\ StatusInv /\ WriteInv /\ HistoryInv
  BY <1>0, <1>2 DEF Init, TaskShape, FrameInv, ReceiveInv, StatusInv, WriteInv, HistoryInv
<1>5. OneSave
  BY <1>3 DEF OneSave, OneSent
<1>6. DeliveredIsKept /\ NoWriteForgotten
  BY ChatAssumption DEF Init, DeliveredIsKept, NoWriteForgotten
<1>7. ShownInv
  BY DEF Init, ShownInv
<1> QED
  BY <1>1, <1>4, <1>5, <1>6, <1>7 DEF ChatInv

LEMMA ChatInvStep == ChatInv /\ [Next]_vars => ChatInv'
<1> SUFFICES ASSUME ChatInv, [Next]_vars PROVE ChatInv'
  OBVIOUS
<1> USE DEF ChatInv
<1>1. HistoryTypes' /\ NetMoves /\ WriteMoves /\ TaskTypes' /\ TaskShape'
  BY HistoryStep, NetStep, WriteStep, TaskTypesStep
<1>2. TypeOK'
  BY <1>1 DEF TypeOK, HistoryTypes, NetMoves, TaskTypes
<1> QED
  BY <1>1, <1>2, FrameInvStep, ReceiveInvStep, StatusInvStep, WriteInvStep, OneSaveStep,
     HistoryInvStep, DeliveredStep, ForgottenStep, ShownStep

\* The inductive invariant holds: in every state the tasks, the payloads in the transport,
\* the histories and the writes that wait agree on what each peer keeps.
THEOREM ChatInvHolds == Spec => []ChatInv
  BY ChatInvInit, ChatInvStep, PTL DEF Spec

\* Type correctness of the pipeline.
THEOREM ChatTypeCorrect == Spec => []TypeOK
<1>1. ChatInv => TypeOK
  BY DEF ChatInv
<1> QED
  BY <1>1, ChatInvHolds, PTL

\* No false delivery acknowledgment: what a sender shows or stores as Delivered
\* was accepted by the other peer and, if that one has a history, is in it or in
\* the queue of its failed writes.
THEOREM DeliveredMessagesAreKept == Spec => []DeliveredIsKept
<1>1. ChatInv => DeliveredIsKept
  BY DEF ChatInv
<1> QED
  BY <1>1, ChatInvHolds, PTL

\* What a send or an ack had to record is in the store or in the queue of failed
\* writes, however failures, retries and timeouts fall.
THEOREM NoWriteIsForgotten == Spec => []NoWriteForgotten
<1>1. ChatInv => NoWriteForgotten
  BY DEF ChatInv
<1> QED
  BY <1>1, ChatInvHolds, PTL

\* A message is shown once more only after the duplicate set was cleared.
THEOREM ShownOnceInEveryWindow == Spec => []ShownOncePerWindow
<1>1. ChatInv => ShownOncePerWindow
  <2> SUFFICES ASSUME ChatInv, NEW p \in Peers, NEW m \in MessageIds
               PROVE  shown[p][m] <= 1 + cleared[p]
    BY DEF ShownOncePerWindow
  <2>1. shown[p][m] \in Nat /\ cleared[p] \in Nat
    BY DEF ChatInv, TypeOK
  <2> QED
    BY <2>1 DEF ChatInv, ShownInv
<1> QED
  BY <1>1, ChatInvHolds, PTL

\* A status that was set to Delivered, and a Delivered that was stored, stay so:
\* an older save that is retried late never overwrites them.
THEOREM DeliveredStaysDelivered == Spec => DeliveredIsFinal
<1>1. ASSUME ChatInv, [Next]_vars, NEW p \in Peers, NEW m \in MessageIds
      PROVE  /\ hist[p][m] = "Delivered" => hist'[p][m] = "Delivered"
             /\ statuses[p][m] = "Delivered" => statuses'[p][m] = "Delivered"
  <2>1. WriteMoves
    BY <1>1, WriteStep DEF ChatInv
  <2>2. hist[p][m] = "Delivered" => hist'[p][m] = "Delivered"
    BY <1>1, <2>1, HistoryIsFinal DEF ChatInv
  <2>3. TrackSent(p) /\ sending[p] = m => statuses[p][m] = "none"
    BY <1>1 DEF ChatInv, StatusInv, TrackSent
  <2> QED
    BY <1>1, <2>2, <2>3, StatusStep DEF ChatInv
<1>2. ChatInv /\ [Next]_vars =>
        [\A p \in Peers : \A m \in MessageIds :
           /\ hist[p][m] = "Delivered" => hist'[p][m] = "Delivered"
           /\ statuses[p][m] = "Delivered" => statuses'[p][m] = "Delivered"]_vars
  BY <1>1
<1> QED
  BY <1>2, ChatInvHolds, PTL DEF Spec, DeliveredIsFinal
===============================================================================
