----------------------------- MODULE ClientProofs -----------------------------
(***************************************************************************)
(* Proofs about the client, for any bounds.                                *)
(*                                                                         *)
(* NetSupervisor, for any caps, any number of attempts, texts and          *)
(* connections: the order of what waits is that of its four parts and of   *)
(* every two of them (OrderInv); SupInv ties the supervisor's position to  *)
(* what it holds and to what the user was told last.                       *)
(*                                                                         *)
(* ClientApp, for any peers, rooms and channels: PanelInv and ConvInv are  *)
(* kept by what the main loop does, ChannelsOK by the rest, and ReceiptInv *)
(* counts the receipts that are on their way with the marks they make.     *)
(*                                                                         *)
(* The two have their variables apart, and share lemmas only.              *)
(***************************************************************************)
EXTENDS NetSupervisor, ClientApp, SequenceLemmas

\* Every text of s is older than every text of t.
Before(s, t) == \A x \in Texts(s), y \in Texts(t) : x < y

OrderInv ==
  /\ Sorted(batch) /\ Sorted(queue) /\ Sorted(cmds)
  /\ Before(batch, queue) /\ Before(batch, Current) /\ Before(batch, cmds)
  /\ Before(queue, Current) /\ Before(queue, cmds) /\ Before(Current, cmds)

\* The texts that wait were submitted; none of them was sent, and none twice; and
\* what neither waits nor was sent is lost.
WireInv ==
  /\ Texts(Waiting) \subseteq 1..submitted
  /\ Texts(wire) \subseteq 1..submitted
  /\ Texts(wire) \cap Texts(Waiting) = {}
  /\ \A i, j \in 1..Len(wire) : wire[i] = wire[j] => i = j
  /\ NoTextVanishes

SupInv ==
  /\ batch # << >> => sup = "send"
  /\ sup = "connect" => attempt < MaxAttempts
  /\ sup \in {"watch", "clear", "drain", "send", "announce"} => mgr
  /\ NewestStatus => sup = "watch" /\ recv = "run"
  /\ cmd \in {"send", "queue"} => cur # Shutdown

NetInv == TypeOK /\ OrderInv /\ WireInv /\ SupInv

-----------------------------------------------------------------------------
(* Lemmas about sequences of commands *)

LEMMA MessagesAreCommands ==
  ASSUME NEW s \in Seq(Messages)
  PROVE  s \in Seq(Commands) /\ Texts(s) = {s[i] : i \in 1..Len(s)}
<1>1. s \in Seq(Commands)
  <2>1. Messages \subseteq Commands
    BY DEF Commands
  <2> QED
    BY <2>1, SeqMonotonic
<1>2. ASSUME NEW i \in 1..Len(s) PROVE s[i] # Shutdown
  <2>1. s[i] \in Messages
    BY ElementOfSeq
  <2> QED
    BY <2>1, NetAssumption DEF Messages, Shutdown
<1> QED
  BY <1>1, <1>2 DEF Texts

LEMMA EmptyTexts == Texts(<< >>) = {} /\ Sorted(<< >>)
  BY DEF Texts, Sorted

LEMMA OneText ==
  ASSUME NEW m \in Commands
  PROVE  /\ <<m>> \in Seq(Commands) /\ Texts(<<m>>) = {m} \ {Shutdown}
         /\ Sorted(<<m>>)
  BY DEF Texts, Sorted

LEMMA AppendTexts ==
  ASSUME NEW s \in Seq(Commands), NEW m \in Commands
  PROVE  /\ Append(s, m) \in Seq(Commands)
         /\ Texts(Append(s, m)) = Texts(s) \cup ({m} \ {Shutdown})
         /\ Sorted(s) /\ (\A x \in Texts(s) : m # Shutdown => x < m)
              => Sorted(Append(s, m))
  BY DEF Texts, Sorted

\* Shutdown is no text.
LEMMA AppendShutdown ==
  ASSUME NEW s \in Seq(Commands)
  PROVE  /\ Texts(Append(s, Shutdown)) = Texts(s)
         /\ Sorted(s) => Sorted(Append(s, Shutdown))
<1>1. Shutdown \in Commands
  BY DEF Commands
<1> QED
  BY <1>1, AppendTexts

LEMMA TailTexts ==
  ASSUME NEW s \in Seq(Commands), s # << >>
  PROVE  /\ Tail(s) \in Seq(Commands) /\ Head(s) \in Commands
         /\ Texts(s) = Texts(Tail(s)) \cup ({Head(s)} \ {Shutdown})
         /\ Sorted(s) => /\ Sorted(Tail(s))
                         /\ Head(s) # Shutdown =>
                              \A x \in Texts(Tail(s)) : Head(s) < x
<1> DEFINE r == Tail(s)
<1>1. /\ r \in Seq(Commands) /\ Head(s) \in Commands /\ Head(s) = s[1]
      /\ Len(r) = Len(s) - 1 /\ Len(s) \in Nat /\ Len(s) # 0
      /\ \A i \in 1..Len(r) : r[i] = s[i + 1]
  BY HeadTailProperties, LenProperties, EmptySeq
<1> HIDE DEF r
<1>2. Texts(s) = Texts(r) \cup ({s[1]} \ {Shutdown})
  <2>1. \A i \in 1..Len(s) : i = 1 \/ (i - 1 \in 1..Len(r) /\ s[i] = r[i - 1])
    BY <1>1
  <2>2. \A i \in 1..Len(r) : i + 1 \in 1..Len(s)
    BY <1>1
  <2>3. ASSUME NEW i \in 1..Len(s), s[i] # Shutdown
        PROVE  s[i] \in Texts(r) \cup ({s[1]} \ {Shutdown})
    <3>1. CASE i = 1
      BY <2>3, <3>1
    <3>2. CASE i - 1 \in 1..Len(r) /\ s[i] = r[i - 1]
      BY <2>3, <3>2 DEF Texts
    <3> QED
      BY <2>1, <3>1, <3>2
  <2>4. ASSUME NEW i \in 1..Len(r), r[i] # Shutdown PROVE r[i] \in Texts(s)
    BY <1>1, <2>2, <2>4 DEF Texts
  <2>5. ASSUME s[1] # Shutdown PROVE s[1] \in Texts(s)
    BY <1>1, <2>5 DEF Texts
  <2> QED
    BY <2>3, <2>4, <2>5 DEF Texts
<1>3. ASSUME Sorted(s) PROVE Sorted(r)
  BY <1>1, <1>3 DEF Sorted
<1>4. ASSUME Sorted(s), s[1] # Shutdown PROVE \A x \in Texts(r) : s[1] < x
  <2> SUFFICES ASSUME NEW i \in 1..Len(r), r[i] # Shutdown PROVE s[1] < r[i]
    BY DEF Texts
  <2>1. 1 \in 1..Len(s) /\ i + 1 \in 1..Len(s) /\ 1 < i + 1 /\ r[i] = s[i + 1]
    BY <1>1
  <2> QED
    BY <1>4, <2>1 DEF Sorted
<1> QED
  BY <1>1, <1>2, <1>3, <1>4 DEF r

\* A concatenation is in order if its parts are, and in order with each other.
LEMMA ConcatTexts ==
  ASSUME NEW s \in Seq(Commands), NEW t \in Seq(Commands)
  PROVE  /\ s \o t \in Seq(Commands)
         /\ Texts(s \o t) = Texts(s) \cup Texts(t)
         /\ Sorted(s) /\ Sorted(t) /\ Before(s, t) => Sorted(s \o t)
<1> DEFINE u == s \o t
<1>1. /\ u \in Seq(Commands) /\ Len(u) = Len(s) + Len(t)
      /\ Len(s) \in Nat /\ Len(t) \in Nat
      /\ \A i \in 1..Len(s) + Len(t) :
           u[i] = IF i <= Len(s) THEN s[i] ELSE t[i - Len(s)]
  BY ConcatProperties, LenProperties
<1> HIDE DEF u
<1>2. Texts(u) \subseteq Texts(s) \cup Texts(t)
  BY <1>1 DEF Texts
<1>3. Texts(s) \subseteq Texts(u)
  BY <1>1 DEF Texts
<1>4. Texts(t) \subseteq Texts(u)
  <2> SUFFICES ASSUME NEW i \in 1..Len(t), t[i] # Shutdown PROVE t[i] \in Texts(u)
    BY DEF Texts
  <2> DEFINE k == Len(s) + i
  <2>1. k \in 1..Len(u) /\ k \in 1..Len(s) + Len(t) /\ ~(k <= Len(s)) /\ k - Len(s) = i
    BY <1>1
  <2>2. u[k] = t[i]
    BY <1>1, <2>1
  <2> QED
    BY <2>1, <2>2 DEF Texts
<1>5. ASSUME Sorted(s), Sorted(t), Before(s, t) PROVE Sorted(u)
  <2> SUFFICES ASSUME NEW i \in 1..Len(u), NEW j \in 1..Len(u), i < j,
                      u[i] # Shutdown, u[j] # Shutdown
               PROVE  u[i] < u[j]
    BY DEF Sorted
  <2>1. CASE j <= Len(s)
    BY <1>1, <1>5, <2>1 DEF Sorted
  <2>2. CASE i > Len(s)
    <3>1. /\ u[i] = t[i - Len(s)] /\ i - Len(s) \in 1..Len(t)
          /\ u[j] = t[j - Len(s)] /\ j - Len(s) \in 1..Len(t)
          /\ i - Len(s) < j - Len(s)
      BY <1>1, <2>2
    <3> QED
      BY <3>1, <1>5 DEF Sorted
  <2>3. CASE i <= Len(s) /\ j > Len(s)
    <3>1. u[i] = s[i] /\ i \in 1..Len(s)
      BY <1>1, <2>3
    <3>2. u[j] = t[j - Len(s)] /\ j - Len(s) \in 1..Len(t)
      BY <1>1, <2>3
    <3>3. u[i] \in Texts(s) /\ u[j] \in Texts(t)
      BY <3>1, <3>2 DEF Texts
    <3> QED
      BY <3>3, <1>5 DEF Before
  <2> QED
    BY <2>1, <2>2, <2>3, <1>1
<1> QED
  BY <1>1, <1>2, <1>3, <1>4, <1>5 DEF u

\* What waits, part by part.
LEMMA WaitingTexts ==
  ASSUME NEW b \in Seq(Commands), NEW q \in Seq(Commands),
         NEW c \in Seq(Commands), NEW m \in Seq(Commands)
  PROVE  /\ Texts(b \o q \o c \o m) = Texts(b) \cup Texts(q) \cup Texts(c) \cup Texts(m)
         /\ ( /\ Sorted(b) /\ Sorted(q) /\ Sorted(c) /\ Sorted(m)
              /\ Before(b, q) /\ Before(b, c) /\ Before(b, m)
              /\ Before(q, c) /\ Before(q, m) /\ Before(c, m) )
            => Sorted(b \o q \o c \o m)
<1>1. /\ b \o q \in Seq(Commands) /\ Texts(b \o q) = Texts(b) \cup Texts(q)
      /\ Sorted(b) /\ Sorted(q) /\ Before(b, q) => Sorted(b \o q)
  BY ConcatTexts
<1>2. /\ b \o q \o c \in Seq(Commands)
      /\ Texts(b \o q \o c) = Texts(b \o q) \cup Texts(c)
      /\ Sorted(b \o q) /\ Sorted(c) /\ Before(b \o q, c) => Sorted(b \o q \o c)
  BY <1>1, ConcatTexts
<1>3. /\ Texts(b \o q \o c \o m) = Texts(b \o q \o c) \cup Texts(m)
      /\ Sorted(b \o q \o c) /\ Sorted(m) /\ Before(b \o q \o c, m)
           => Sorted(b \o q \o c \o m)
  BY <1>2, ConcatTexts
<1>4. Before(b, c) /\ Before(q, c) => Before(b \o q, c)
  BY <1>1 DEF Before
<1>5. Before(b, m) /\ Before(q, m) /\ Before(c, m) => Before(b \o q \o c, m)
  BY <1>1, <1>2 DEF Before
<1>6. Texts(b \o q \o c \o m) = Texts(b) \cup Texts(q) \cup Texts(c) \cup Texts(m)
  BY <1>1, <1>2, <1>3
<1>7. Sorted(b \o q \o c) /\ Before(b \o q \o c, m) /\ Sorted(m)
        => Sorted(b \o q \o c \o m)
  BY <1>3
<1>8. ASSUME /\ Sorted(b) /\ Sorted(q) /\ Sorted(c) /\ Sorted(m)
             /\ Before(b, q) /\ Before(b, c) /\ Before(b, m)
             /\ Before(q, c) /\ Before(q, m) /\ Before(c, m)
      PROVE  Sorted(b \o q \o c \o m)
  BY <1>1, <1>2, <1>4, <1>5, <1>7, <1>8
<1> QED
  BY <1>6, <1>8

\* Every text is one of the user's.
LEMMA TextsAreMessages ==
  ASSUME NEW s \in Seq(Commands)
  PROVE  Texts(s) \subseteq Messages
<1> SUFFICES ASSUME NEW i \in 1..Len(s), s[i] # Shutdown PROVE s[i] \in Messages
  BY DEF Texts
<1>1. s[i] \in Commands
  BY ElementOfSeq
<1> QED
  BY <1>1 DEF Commands

\* The parts of what waits, in a state of the right type.
LEMMA Parts ==
  ASSUME TypeOK
  PROVE  /\ {batch, queue, Current, cmds, wire} \subseteq Seq(Commands)
         /\ Texts(Waiting) = Texts(batch) \cup Texts(queue) \cup Texts(Current)
                             \cup Texts(cmds)
         /\ OrderInv => Sorted(Waiting)
<1>1. {batch, queue, wire, cmds} \subseteq Seq(Commands)
  BY MessagesAreCommands DEF TypeOK
<1>2. Current \in Seq(Commands) /\ Sorted(Current)
  BY EmptyTexts, OneText, EmptySeq DEF TypeOK, Current
<1> QED
  BY <1>1, <1>2, WaitingTexts DEF Waiting, OrderInv

\* A text is put on one of the lists of those that nobody will send.
LEMMA Loses ==
  ASSUME TypeOK, NEW m \in Messages, NEW how \in {"told", "busy", "dead"}, Lose(m, how)
  PROVE  /\ lost' \in [{"told", "busy", "dead"} -> SUBSET Messages]
         /\ Lost' = Lost \cup {m}
<1>1. /\ lost \in [{"told", "busy", "dead"} -> SUBSET Messages]
      /\ lost' = [lost EXCEPT ![how] = lost[how] \cup {m}]
  BY DEF TypeOK, Lose
<1>2. \A k \in {"told", "busy", "dead"} :
        lost'[k] = IF k = how THEN lost[k] \cup {m} ELSE lost[k]
  BY <1>1
<1>3. lost' \in [{"told", "busy", "dead"} -> SUBSET Messages]
  BY <1>1
<1>4. Lost' = Lost \cup {m}
  BY <1>2 DEF Lost
<1> QED
  BY <1>3, <1>4

-----------------------------------------------------------------------------
(* Initial states and types *)

LEMMA NetInvInit == Init => NetInv
<1> SUFFICES ASSUME Init PROVE NetInv
  OBVIOUS
<1>1. TypeOK
  <2>1. << >> \in Seq(Commands) /\ << >> \in Seq(Messages) /\ Len(<< >>) = 0
    BY EmptySeq
  <2>2. <<"up">> \in Seq({"up", "down", "retry", "failed"})
    OBVIOUS
  <2>3. Shutdown \in Commands
    BY DEF Commands
  <2>4. /\ 0 \in 0..MaxMessages /\ 1 \in 1..MaxSessions /\ 0 \in 0..MaxAttempts
        /\ 0 <= ChannelCap /\ 0 <= QueueCap
    BY NetAssumption
  <2> QED
    BY <2>1, <2>2, <2>3, <2>4 DEF Init, TypeOK
<1>2. OrderInv
  BY EmptyTexts DEF Init, OrderInv, Before, Current
<1>3. Texts(Waiting) = {}
  BY <1>1, Parts, EmptyTexts DEF Init, Current
<1>4. WireInv
  <2>1. Lost = {} /\ 1..submitted = {}
    BY DEF Init, Lost
  <2> QED
    BY <1>3, <2>1, EmptyTexts, EmptySeq DEF Init, WireInv, NoTextVanishes
<1>5. SupInv
  BY DEF Init, SupInv, NewestStatus
<1> QED
  BY <1>1, <1>2, <1>4, <1>5 DEF NetInv

\* Whatever a step loses is a text.
LEMMA LostType ==
  ASSUME NetInv, [Next]_vars
  PROVE  lost' \in [{"told", "busy", "dead"} -> SUBSET Messages]
<1>1. CASE UNCHANGED lost
  BY <1>1 DEF NetInv, TypeOK
<1>2. ASSUME NEW m \in Messages, NEW how \in {"told", "busy", "dead"}, Lose(m, how)
      PROVE  lost' \in [{"told", "busy", "dead"} -> SUBSET Messages]
  BY <1>2, Loses DEF NetInv
<1>3. CASE Submit
  <2>1. submitted' \in Messages
    BY <1>3, NetAssumption DEF Submit, NetInv, TypeOK, Messages
  <2> QED
    BY <1>1, <1>2, <1>3, <2>1 DEF Submit
<1>4. CASE SendDirect \/ QueueForLater
  <2>1. cur \in Messages
    BY <1>4 DEF SendDirect, QueueForLater, HandlerQueues, NetInv, SupInv, TypeOK, Commands
  <2> QED
    BY <1>1, <1>2, <1>4, <2>1 DEF SendDirect, QueueForLater, Sent, relayVars
<1>5. CASE SendQueued
  <2>1. Head(batch) \in Messages
    BY <1>5, HeadTailProperties DEF SendQueued, NetInv, TypeOK
  <2> QED
    BY <1>1, <1>2, <1>5, <2>1 DEF SendQueued, Sent
<1>6. CASE UNCHANGED relayVars
  BY <1>1, <1>6 DEF relayVars
<1> QED
  BY <1>3, <1>4, <1>5, <1>6
  DEF Next, CommandHandler, Supervisor, vars, UiTakes, Quit, TakeCommand, LinkDrops,
      LinkGivesUp, ReceiveClosed, Joined, ClearManager, NotifyDown, StartAttempt,
      Connected, ConnectFails, SwapManager, TakeQueue, Drained, AnnounceUp

LEMMA TypeStep == NetInv /\ [Next]_vars => TypeOK'
<1> SUFFICES ASSUME NetInv, [Next]_vars PROVE TypeOK'
  OBVIOUS
<1>0. lost' \in [{"told", "busy", "dead"} -> SUBSET Messages]
  BY LostType
<1> USE NetAssumption DEF NetInv, TypeOK, uiVars, cmdVars, netVars, supVars, relayVars
<1>1. CASE Submit
  <2>1. submitted' \in Messages /\ submitted' \in Commands
    BY <1>1 DEF Submit, Commands, Messages
  <2>2. cmds' \in Seq(Commands) /\ Len(cmds') <= ChannelCap
    <3>1. CASE cmds' = Append(cmds, submitted') /\ Len(cmds) < ChannelCap
      BY <2>1, <3>1, AppendProperties
    <3>2. CASE cmds' = cmds
      BY <3>2
    <3> QED
      BY <1>1, <3>1, <3>2 DEF Submit
  <2> QED
    BY <1>0, <1>1, <2>1, <2>2 DEF Submit, Messages
<1>2. CASE UiTakes
  BY <1>2 DEF UiTakes, SupInv, Commands, Messages
<1>3. CASE Quit
  BY <1>3 DEF Quit, SupInv, Commands, Messages
<1>4. CASE TakeCommand
  <2>1. /\ cmds' \in Seq(Commands) /\ Len(cmds') <= ChannelCap
        /\ cur' \in Commands
    <3>1. CASE cmds # << >> /\ cur' = Head(cmds) /\ cmds' = Tail(cmds)
      <4>1. Head(cmds) \in Commands /\ Tail(cmds) \in Seq(Commands)
            /\ Len(Tail(cmds)) = Len(cmds) - 1
        BY <3>1, HeadTailProperties
      <4> QED
        BY <3>1, <4>1, LenProperties
    <3>2. CASE UNCHANGED <<cur, cmds>>
      BY <3>2
    <3> QED
      BY <1>4, <3>1, <3>2 DEF TakeCommand
  <2>2. cmd' \in {"send", "done"} /\ shutdown' \in BOOLEAN
    BY <1>4 DEF TakeCommand
  <2>3. UNCHANGED <<uiVars, queue, batch, mgr, netVars, supVars, recv, relayVars, events>>
    BY <1>4 DEF TakeCommand
  <2> QED
    BY <2>1, <2>2, <2>3
<1>5. CASE SendDirect
  <2>1. cur \in Messages
    BY <1>5 DEF SendDirect, SupInv, Commands
  <2>2. wire' \in Seq(Messages)
    <3>1. Append(wire, cur) \in Seq(Messages)
      BY <2>1, AppendProperties
    <3> QED
      BY <1>5, <3>1 DEF SendDirect, Sent
  <2> QED
    BY <1>0, <1>5, <2>2 DEF SendDirect
<1>6. CASE QueueForLater
  <2>1. cur \in Messages
    BY <1>6 DEF QueueForLater, HandlerQueues, SupInv, Commands
  <2>2. queue' \in Seq(Messages) /\ Len(queue') <= QueueCap
    <3>1. CASE queue' = Append(queue, cur) /\ Len(queue) < QueueCap
      BY <2>1, <3>1, AppendProperties
    <3>2. CASE queue' = queue
      BY <3>2
    <3> QED
      BY <1>6, <3>1, <3>2 DEF QueueForLater
  <2> QED
    BY <1>0, <1>6, <2>2 DEF QueueForLater, HandlerQueues
<1>7. CASE LinkDrops
  BY <1>7 DEF LinkDrops, SupInv, Commands, Messages
<1>7a. CASE LinkGivesUp
  BY <1>7a DEF LinkGivesUp, SupInv, Commands, Messages
<1>8. CASE ReceiveClosed
  BY <1>8 DEF ReceiveClosed, SupInv, Commands, Messages
<1>9. CASE Joined
  BY <1>9 DEF Joined, SupInv, Commands, Messages
<1>10. CASE ClearManager
  BY <1>10 DEF ClearManager, SupInv, Commands, Messages
<1>11. CASE NotifyDown
  BY <1>11 DEF NotifyDown, SupInv, Commands, Messages
<1>12. CASE StartAttempt
  <2>1. events' \in Seq({"up", "down", "retry", "failed"})
    <3> DEFINE S == {"up", "down", "retry", "failed"}
    <3>1. Append(events, "retry") \in Seq(S) /\ Append(events, "failed") \in Seq(S)
      BY AppendProperties
    <3> QED
      BY <1>12, <3>1 DEF StartAttempt
  <2> QED
    BY <1>12, <2>1 DEF StartAttempt
<1>13. CASE Connected
  BY <1>13 DEF Connected, SupInv, Commands, Messages
<1>14. CASE ConnectFails
  BY <1>14 DEF ConnectFails, SupInv, Commands, Messages
<1>15. CASE SwapManager
  BY <1>15 DEF SwapManager, SupInv, Commands, Messages
<1>16. CASE TakeQueue
  BY <1>16 DEF TakeQueue, SupInv, Commands, Messages
<1>17. CASE SendQueued
  <2>1. batch' \in Seq(Messages) /\ Head(batch) \in Messages
    BY <1>17 DEF SendQueued
  <2>2. wire' \in Seq(Messages)
    <3>1. Append(wire, Head(batch)) \in Seq(Messages)
      BY <2>1, AppendProperties
    <3> QED
      BY <1>17, <3>1 DEF SendQueued, Sent
  <2> QED
    BY <1>0, <1>17, <2>1, <2>2 DEF SendQueued
<1>18. CASE Drained
  BY <1>18 DEF Drained, SupInv, Commands, Messages
<1>19. CASE AnnounceUp
  BY <1>19 DEF AnnounceUp, SupInv, Commands, Messages
<1>20. CASE UNCHANGED vars
  BY <1>20 DEF vars
<1> QED
  BY <1>1, <1>2, <1>3, <1>4, <1>5, <1>6, <1>7, <1>7a, <1>8, <1>9, <1>10, <1>11, <1>12, <1>13, <1>14, <1>15, <1>16, <1>17, <1>18, <1>19, <1>20
  DEF Next, CommandHandler, Supervisor

\* The event given last is the newest status.
LEMMA NewestIsLast ==
  ASSUME TypeOK, NEW e \in {"up", "down", "retry", "failed"}, events' = Append(events, e)
  PROVE  NewestStatus' <=> e = "up"
<1> DEFINE all == Append(events, e)
<1>1. events \in Seq({"up", "down", "retry", "failed"})
  BY DEF TypeOK
<1>2. /\ Len(all) = Len(events) + 1 /\ Len(events) \in Nat
      /\ all[Len(events) + 1] = e /\ all # << >>
  BY <1>1, AppendProperties, LenProperties
<1>3. events' = all
  OBVIOUS
<1> HIDE DEF all
<1> QED
  BY <1>2, <1>3 DEF NewestStatus

\* Taking an event out of the channel does not change what the newest one is.
LEMMA NewestIsKept ==
  ASSUME TypeOK, UiTakes
  PROVE  NewestStatus' <=> NewestStatus
<1> DEFINE rest == Tail(events)
<1>1. /\ events \in Seq({"up", "down", "retry", "failed"}) /\ events # << >>
      /\ events' = rest /\ (uiConnected' <=> Head(events) = "up")
  BY DEF TypeOK, UiTakes
<1>2. /\ Len(events) \in Nat /\ Len(events) # 0 /\ Head(events) = events[1]
      /\ Len(rest) = Len(events) - 1
      /\ \A i \in 1..Len(rest) : rest[i] = events[i + 1]
      /\ (rest = << >>) <=> (Len(rest) = 0)
  <2> DEFINE S == {"up", "down", "retry", "failed"}
  <2>1. Len(events) \in Nat /\ Len(events) # 0
    BY <1>1, EmptySeq, LenProperties
  <2>2. /\ rest \in Seq(S) /\ Len(rest) = Len(events) - 1
        /\ \A i \in 1..Len(rest) : rest[i] = events[i + 1]
    BY <1>1, HeadTailProperties
  <2>3. (rest = << >>) <=> (Len(rest) = 0)
    <3> HIDE DEF rest
    <3> QED
      BY <2>2, EmptySeq
  <2>4. Head(events) = events[1]
    BY <1>1
  <2> QED
    BY <2>1, <2>2, <2>3, <2>4
<1> HIDE DEF rest
<1>3. NewestStatus <=> events[Len(events)] = "up"
  BY <1>1 DEF NewestStatus
<1>4. CASE Len(events) = 1
  <2>1. rest = << >>
    BY <1>2, <1>4
  <2>2. NewestStatus' <=> uiConnected'
    BY <1>1, <2>1 DEF NewestStatus
  <2> QED
    BY <1>1, <1>2, <1>3, <1>4, <2>2
<1>5. CASE Len(events) # 1
  <2>1. rest # << >> /\ rest[Len(rest)] = events[Len(events)]
    BY <1>2, <1>5
  <2>2. NewestStatus' <=> rest[Len(rest)] = "up"
    BY <1>1, <2>1 DEF NewestStatus
  <2> QED
    BY <1>3, <2>1, <2>2
<1> QED
  BY <1>4, <1>5

\* The supervisor's position: the newest status it or its receive loop gave is
\* "connected" only while it watches a connection.
LEMMA SupStep == NetInv /\ [Next]_vars => SupInv'
<1> SUFFICES ASSUME NetInv, [Next]_vars PROVE SupInv'
  OBVIOUS
<1>0. TypeOK /\ SupInv
  BY DEF NetInv
<1> USE DEF SupInv, uiVars, cmdVars, netVars, supVars
<1>1. ASSUME UNCHANGED <<events, uiConnected>> PROVE NewestStatus' <=> NewestStatus
  BY <1>1 DEF NewestStatus
<1>2. CASE Submit
  BY <1>0, <1>1, <1>2 DEF Submit
<1>3. CASE Quit
  BY <1>0, <1>1, <1>3 DEF Quit
<1>4. CASE UiTakes
  BY <1>0, <1>4, NewestIsKept DEF UiTakes
<1>5. CASE TakeCommand
  BY <1>0, <1>1, <1>5 DEF TakeCommand
<1>6. CASE SendDirect
  BY <1>0, <1>1, <1>6 DEF SendDirect
<1>7. CASE QueueForLater
  BY <1>0, <1>1, <1>7 DEF QueueForLater, HandlerQueues
<1>8. CASE LinkDrops \/ LinkGivesUp
  BY <1>0, <1>1, <1>8 DEF LinkDrops, LinkGivesUp
<1>9. CASE ReceiveClosed
  <2>1. NewestStatus' <=> FALSE
    BY <1>0, <1>9, NewestIsLast DEF ReceiveClosed
  <2> QED
    BY <1>0, <1>9, <2>1 DEF ReceiveClosed
<1>10. CASE Joined
  BY <1>0, <1>1, <1>10 DEF Joined
<1>11. CASE ClearManager
  BY <1>0, <1>1, <1>11 DEF ClearManager
<1>12. CASE NotifyDown
  <2>1. NewestStatus' <=> FALSE
    BY <1>0, <1>12, NewestIsLast DEF NotifyDown
  <2> QED
    BY <1>0, <1>12, <2>1 DEF NotifyDown
<1>13. CASE StartAttempt
  <2>1. attempt \in 0..MaxAttempts
    BY <1>0 DEF TypeOK
  <2>2. ASSUME NEW e \in {"retry", "failed"}, events' = Append(events, e)
        PROVE  ~NewestStatus'
    BY <1>0, <2>2, NewestIsLast
  <2>3. ~NewestStatus'
    BY <1>0, <1>1, <1>13, <2>2 DEF StartAttempt
  <2> QED
    BY <1>0, <1>13, <2>1, <2>3, NetAssumption DEF StartAttempt
<1>14. CASE Connected
  BY <1>0, <1>1, <1>14 DEF Connected
<1>15. CASE ConnectFails
  BY <1>0, <1>1, <1>15 DEF ConnectFails
<1>16. CASE SwapManager
  BY <1>0, <1>1, <1>16 DEF SwapManager
<1>17. CASE TakeQueue
  BY <1>0, <1>1, <1>17 DEF TakeQueue
<1>18. CASE SendQueued
  BY <1>0, <1>1, <1>18 DEF SendQueued
<1>19. CASE Drained
  BY <1>0, <1>1, <1>19 DEF Drained
<1>20. CASE AnnounceUp
  <2>1. NewestStatus' <=> TRUE
    BY <1>0, <1>20, NewestIsLast DEF AnnounceUp
  <2> QED
    BY <1>0, <1>20, <2>1 DEF AnnounceUp
<1>21. CASE UNCHANGED vars
  BY <1>0, <1>1, <1>21 DEF vars
<1> QED
  BY <1>2, <1>3, <1>4, <1>5, <1>6, <1>7, <1>8, <1>9, <1>10, <1>11, <1>12, <1>13, <1>14, <1>15, <1>16, <1>17, <1>18, <1>19, <1>20, <1>21
  DEF Next, CommandHandler, Supervisor

-----------------------------------------------------------------------------
(* What a step does to the texts that wait, and to their order *)

\* A step that touches none of the places where texts wait.
LEMMA QuietStep ==
  ASSUME NetInv, UNCHANGED <<submitted, batch, queue, cmds, cmd, cur, relayVars>>
  PROVE  OrderInv' /\ Waiting' = Waiting /\ Lost' = Lost
  BY DEF NetInv, OrderInv, Before, Sorted, Texts, Current, Waiting, Lost, relayVars

LEMMA OrderStep == NetInv /\ [Next]_vars => OrderInv'
<1> SUFFICES ASSUME NetInv, [Next]_vars PROVE OrderInv'
  OBVIOUS
<1> USE DEF OrderInv, Before
<1>1. /\ {batch, queue, Current, cmds, wire} \subseteq Seq(Commands)
      /\ OrderInv
  BY Parts DEF NetInv
<1>2. TypeOK /\ SupInv /\ TypeOK'
  BY TypeStep DEF NetInv
<1>3. /\ Texts(batch) \cup Texts(queue) \cup Texts(Current) \cup Texts(cmds)
           \subseteq 1..submitted
      /\ 1..submitted \subseteq Nat
  <2>1. submitted \in Nat
    BY <1>2, NetAssumption DEF TypeOK
  <2>2. Texts(Waiting) \subseteq 1..submitted
    BY DEF NetInv, WireInv
  <2> QED
    BY <1>2, <2>1, <2>2, Parts
<1>4. CASE Submit
  <2>1. submitted' = submitted + 1 /\ submitted' \in Commands /\ submitted \in Nat
    BY <1>2, <1>4 DEF Submit, TypeOK, Commands, Messages
  <2>2. /\ UNCHANGED <<batch, queue, Current>>
        /\ cmds' = cmds \/ cmds' = Append(cmds, submitted')
    BY <1>4 DEF Submit, cmdVars, Current
  <2>3. CASE cmds' = Append(cmds, submitted')
    <3>1. Texts(cmds') \subseteq Texts(cmds) \cup {submitted'}
      BY <1>1, <2>1, <2>3, AppendTexts
    <3>2. Sorted(cmds')
      BY <1>1, <1>3, <2>1, <2>3, AppendTexts
    <3> QED
      BY <1>1, <1>3, <2>1, <2>2, <3>1, <3>2
  <2> QED
    BY <1>1, <2>2, <2>3
<1>5. CASE Quit
  <2>1. /\ UNCHANGED <<batch, queue, Current>>
        /\ cmds' = cmds \/ cmds' = Append(cmds, Shutdown)
    BY <1>5 DEF Quit, cmdVars, Current
  <2>2. Texts(cmds') = Texts(cmds) /\ Sorted(cmds')
    <3> DEFINE longer == Append(cmds, Shutdown)
    <3>1. Texts(longer) = Texts(cmds) /\ Sorted(longer)
      BY <1>1, AppendShutdown
    <3> HIDE DEF longer
    <3> QED
      BY <1>1, <2>1, <3>1 DEF longer
  <2> QED
    BY <1>1, <2>1, <2>2
<1>6. CASE TakeCommand
  <2>1. UNCHANGED <<batch, queue>> /\ Current = << >>
    BY <1>6 DEF TakeCommand, Current
  <2>2. CASE cmds # << >> /\ cmds' = Tail(cmds) /\ cur' = Head(cmds)
             /\ Current' \in {<< >>, <<Head(cmds)>>}
             /\ (Current' = <<Head(cmds)>> => Head(cmds) # Shutdown)
    <3>1. /\ Head(cmds) \in Commands /\ Texts(cmds') \subseteq Texts(cmds)
          /\ Sorted(cmds')
          /\ Head(cmds) # Shutdown => /\ Head(cmds) \in Texts(cmds)
                                      /\ \A x \in Texts(cmds') : Head(cmds) < x
      BY <1>1, <2>2, TailTexts
    <3>2. \/ Texts(Current') = {}
          \/ Head(cmds) # Shutdown /\ Texts(Current') = {Head(cmds)}
      BY <2>2, <3>1, EmptyTexts, OneText
    <3> QED
      BY <1>1, <2>1, <3>1, <3>2
  <2>3. CASE cmds' = cmds /\ Current' = << >>
    BY <1>1, <2>1, <2>3, EmptyTexts
  <2> QED
    BY <1>6, <2>2, <2>3 DEF TakeCommand, Current
<1>7. CASE SendDirect
  <2>1. /\ UNCHANGED <<batch, queue, cmds>>
        /\ Current' = Current \/ Current' = << >>
    BY <1>7 DEF SendDirect, Current
  <2>2. Texts(Current') \subseteq Texts(Current)
    BY <2>1, EmptyTexts
  <2> QED
    BY <1>1, <2>1, <2>2
<1>8. CASE QueueForLater
  <2>1. /\ UNCHANGED <<batch, cmds>> /\ Current' = << >> /\ Current = <<cur>>
        /\ queue' = queue \/ queue' = Append(queue, cur)
        /\ cur \in Commands /\ cur # Shutdown
    BY <1>2, <1>8 DEF QueueForLater, HandlerQueues, Current, TypeOK, SupInv
  <2>2. Texts(Current') = {} /\ Texts(Current) = {cur}
    BY <2>1, EmptyTexts, OneText
  <2>3. Texts(queue') \subseteq Texts(queue) \cup {cur} /\ Sorted(queue')
    <3> DEFINE longer == Append(queue, cur)
    <3>1. Texts(longer) = Texts(queue) \cup {cur}
      BY <1>1, <2>1, AppendTexts
    <3>2. Sorted(longer)
      <4>1. \A x \in Texts(queue) : x < cur
        BY <1>1, <2>2
      <4> QED
        BY <1>1, <2>1, <4>1, AppendTexts
    <3> HIDE DEF longer
    <3> QED
      BY <1>1, <2>1, <3>1, <3>2 DEF longer
  <2> QED
    BY <1>1, <2>1, <2>2, <2>3
<1>9. CASE TakeQueue
  <2>1. /\ batch' = queue /\ queue' = << >> /\ cmds' = cmds /\ Current' = Current
    BY <1>9 DEF TakeQueue, cmdVars, Current
  <2> QED
    BY <1>1, <2>1, EmptyTexts
<1>10. CASE SendQueued
  <2>1. UNCHANGED <<queue, cmds, Current>> /\ batch # << >> /\ batch' = Tail(batch)
    BY <1>10 DEF SendQueued, cmdVars, Current
  <2>2. Texts(batch') \subseteq Texts(batch) /\ Sorted(batch')
    BY <1>1, <2>1, TailTexts
  <2> QED
    BY <1>1, <2>1, <2>2
<1>11. CASE UNCHANGED <<submitted, batch, queue, cmds, cmd, cur, relayVars>>
  BY <1>11, QuietStep
<1> QED
  BY <1>4, <1>5, <1>6, <1>7, <1>8, <1>9, <1>10, <1>11
  DEF Next, CommandHandler, Supervisor, UiTakes, LinkDrops, LinkGivesUp,
      ReceiveClosed, Joined,
      ClearManager, NotifyDown, StartAttempt, Connected, ConnectFails, SwapManager,
      Drained, AnnounceUp, vars, uiVars, cmdVars, netVars, supVars
-----------------------------------------------------------------------------
(* What a step does to the set of texts that wait *)

Submits ==
  /\ submitted' = submitted + 1 /\ wire' = wire
  /\ \/ Texts(Waiting') = Texts(Waiting) \cup {submitted'} /\ Lost' = Lost
     \/ Texts(Waiting') = Texts(Waiting) /\ Lost' = Lost \cup {submitted'}

Sends ==
  \E m \in Texts(Waiting) :
    /\ Texts(Waiting') = Texts(Waiting) \ {m}
    /\ wire' = Append(wire, m)
    /\ UNCHANGED submitted /\ Lost' = Lost

\* A text is lost, or nothing moves.
Drops ==
  /\ UNCHANGED <<submitted, wire>>
  /\ \/ Texts(Waiting') = Texts(Waiting) /\ Lost' = Lost
     \/ \E m \in Texts(Waiting) : /\ Texts(Waiting') = Texts(Waiting) \ {m}
                                  /\ Lost' = Lost \cup {m}

\* Every step submits, sends or drops a text, or leaves the texts where they are.
LEMMA Moves == NetInv /\ [Next]_vars => Submits \/ Sends \/ Drops
<1> SUFFICES ASSUME NetInv, [Next]_vars PROVE Submits \/ Sends \/ Drops
  OBVIOUS
<1>1. /\ {batch, queue, Current, cmds, wire} \subseteq Seq(Commands)
      /\ OrderInv /\ TypeOK /\ SupInv
  BY Parts DEF NetInv
<1>2. Texts(Waiting) = Texts(batch) \cup Texts(queue) \cup Texts(Current)
                        \cup Texts(cmds)
  BY <1>1, Parts
<1>3. Texts(Waiting') = Texts(batch') \cup Texts(queue') \cup Texts(Current')
                         \cup Texts(cmds')
  <2>1. TypeOK'
    BY TypeStep
  <2>2. /\ batch' \in Seq(Commands) /\ queue' \in Seq(Commands)
        /\ cmds' \in Seq(Commands)
    BY <2>1, MessagesAreCommands DEF TypeOK
  <2>3. Current' \in Seq(Commands)
    BY <2>1, OneText, EmptySeq DEF TypeOK, Current
  <2> QED
    BY <2>2, <2>3, WaitingTexts DEF Waiting
<1>3a. UNCHANGED lost => Lost' = Lost
  BY DEF Lost
<1>4. CASE Submit
  <2>1. submitted' = submitted + 1 /\ submitted' \in Messages
    <3>1. submitted \in 0..MaxMessages
      BY <1>1 DEF TypeOK
    <3> QED
      BY <1>4, <3>1, NetAssumption DEF Submit, Messages
  <2>2. /\ UNCHANGED <<batch, queue, Current, wire>>
        /\ \/ cmds' = cmds /\ Lost' = Lost \cup {submitted'}
           \/ cmds' = Append(cmds, submitted') /\ UNCHANGED lost
    BY <1>1, <1>4, <2>1, Loses DEF Submit, cmdVars, Current
  <2>3. \/ Texts(cmds') = Texts(cmds) /\ Lost' = Lost \cup {submitted'}
        \/ Texts(cmds') = Texts(cmds) \cup {submitted'} /\ Lost' = Lost
    <3> DEFINE longer == Append(cmds, submitted')
    <3>1. submitted' \in Commands /\ submitted' # Shutdown
      BY <2>1 DEF Commands, Messages, Shutdown
    <3>2. Texts(longer) = Texts(cmds) \cup {submitted'}
      BY <1>1, <3>1, AppendTexts
    <3> HIDE DEF longer
    <3> QED
      BY <1>3a, <2>2, <3>2 DEF longer
  <2>4. Submits
    BY <1>2, <1>3, <2>1, <2>2, <2>3 DEF Submits
  <2> QED
    BY <2>4
<1>5. CASE Quit
  <2>1. /\ UNCHANGED <<submitted, batch, queue, Current, wire>> /\ Lost' = Lost
        /\ cmds' = cmds \/ cmds' = Append(cmds, Shutdown)
    BY <1>3a, <1>5 DEF Quit, cmdVars, Current, relayVars
  <2>2. Texts(cmds') = Texts(cmds)
    <3> DEFINE longer == Append(cmds, Shutdown)
    <3>1. Texts(longer) = Texts(cmds)
      BY <1>1, AppendShutdown
    <3> HIDE DEF longer
    <3> QED
      BY <2>1, <3>1 DEF longer
  <2> QED
    BY <1>2, <1>3, <2>1, <2>2 DEF Drops
<1>6. CASE TakeCommand
  <2>1. UNCHANGED <<submitted, batch, queue, wire>> /\ Lost' = Lost /\ Current = << >>
    BY <1>3a, <1>6 DEF TakeCommand, Current, uiVars, relayVars
  <2>2. CASE cmds' = cmds /\ Current' = << >>
    BY <1>2, <1>3, <2>1, <2>2 DEF Drops
  <2>3. CASE /\ cmds # << >> /\ cmds' = Tail(cmds)
             /\ \/ Head(cmds) = Shutdown /\ Current' = << >>
                \/ Head(cmds) # Shutdown /\ Current' = <<Head(cmds)>>
    <3>1. /\ Head(cmds) \in Commands
          /\ Texts(cmds) = Texts(cmds') \cup ({Head(cmds)} \ {Shutdown})
      BY <1>1, <2>3, TailTexts
    <3>2. Texts(Current) = {} /\ Texts(Current') = {Head(cmds)} \ {Shutdown}
      BY <2>1, <2>3, <3>1, EmptyTexts, OneText
    <3>3. Texts(Waiting') = Texts(Waiting)
      BY <1>2, <1>3, <2>1, <3>1, <3>2
    <3> QED
      BY <2>1, <3>3 DEF Drops
  <2> QED
    BY <1>6, <2>2, <2>3 DEF TakeCommand, Current
<1>7. CASE SendDirect
  <2>1. /\ UNCHANGED <<submitted, batch, queue, cmds>> /\ Current = <<cur>>
        /\ cur \in Messages /\ cur \in Commands /\ cur # Shutdown
    BY <1>1, <1>7 DEF SendDirect, Current, TypeOK, SupInv, uiVars, Commands
  <2>2. Texts(Current) = {cur} /\ Texts(<< >>) = {}
    BY <2>1, OneText, EmptyTexts
  <2>3. cur \notin Texts(batch) \cup Texts(queue) \cup Texts(cmds)
    <3>1. cur \in Nat
      BY <2>1, NetAssumption DEF Messages
    <3> QED
      BY <1>1, <2>2, <3>1 DEF OrderInv, Before
  <2>4. /\ cmd' = "recv" => Current' = << >>
        /\ cmd' = "queue" => Current' = Current
    BY <1>7, <2>1 DEF SendDirect, Current
  <2>5. /\ cur \in Texts(Waiting)
        /\ Current' = << >> => Texts(Waiting') = Texts(Waiting) \ {cur}
    BY <1>2, <1>3, <2>1, <2>2, <2>3
  <2>6. CASE wire' = Append(wire, cur) /\ cmd' = "recv" /\ UNCHANGED lost
    BY <1>3a, <2>1, <2>4, <2>5, <2>6 DEF Sends
  <2>7. CASE wire' = wire /\ cmd' = "recv" /\ Lost' = Lost \cup {cur}
    BY <2>1, <2>4, <2>5, <2>7 DEF Drops
  <2>8. CASE wire' = wire /\ cmd' = "queue" /\ UNCHANGED lost
    BY <1>2, <1>3, <1>3a, <2>1, <2>4, <2>8 DEF Drops
  <2> QED
    BY <1>1, <1>7, <2>1, <2>6, <2>7, <2>8, Loses DEF SendDirect, Sent, relayVars
<1>8. CASE QueueForLater
  <2>1. /\ UNCHANGED <<submitted, batch, cmds, wire>>
        /\ Current' = << >> /\ Current = <<cur>>
        /\ cur \in Messages /\ cur \in Commands /\ cur # Shutdown
    BY <1>1, <1>8 DEF QueueForLater, HandlerQueues, Current, TypeOK, SupInv, uiVars, Commands
  <2>2. /\ Texts(Current') = {} /\ Texts(Current) = {cur}
        /\ Texts(Append(queue, cur)) = Texts(queue) \cup {cur}
    BY <1>1, <2>1, EmptyTexts, OneText, AppendTexts
  <2>3. CASE queue' = Append(queue, cur) /\ UNCHANGED lost
    <3> DEFINE longer == Append(queue, cur)
    <3> HIDE DEF longer
    <3>1. Texts(queue') = Texts(queue) \cup {cur}
      BY <2>2, <2>3, Zenon
    <3> QED
      BY <1>2, <1>3, <1>3a, <2>1, <2>2, <2>3, <3>1 DEF Drops
  <2>4. CASE queue' = queue /\ Lose(cur, "told")
    <3>1. Lost' = Lost \cup {cur}
      BY <1>1, <2>1, <2>4, Loses
    <3>2. cur \notin Texts(batch) \cup Texts(queue) \cup Texts(cmds)
      <4>1. cur \in Nat
        BY <2>1, NetAssumption DEF Messages
      <4> QED
        BY <1>1, <2>2, <4>1 DEF OrderInv, Before
    <3>3. cur \in Texts(Waiting) /\ Texts(Waiting') = Texts(Waiting) \ {cur}
      BY <1>2, <1>3, <2>1, <2>2, <2>4, <3>2
    <3> QED
      BY <2>1, <3>1, <3>3 DEF Drops
  <2> QED
    BY <1>8, <2>3, <2>4 DEF QueueForLater
<1>9. CASE TakeQueue
  <2>1. /\ batch' = queue /\ queue' = << >> /\ cmds' = cmds /\ Current' = Current
        /\ UNCHANGED <<submitted, wire>> /\ Lost' = Lost /\ batch = << >>
    BY <1>1, <1>3a, <1>9 DEF TakeQueue, cmdVars, Current, uiVars, relayVars, SupInv
  <2>2. Texts(Waiting') = Texts(Waiting)
    BY <1>2, <1>3, <2>1, EmptyTexts
  <2> QED
    BY <2>1, <2>2 DEF Drops
<1>10. CASE SendQueued
  <2>1. /\ UNCHANGED <<submitted, queue, cmds, Current>>
        /\ batch # << >> /\ batch' = Tail(batch)
    BY <1>1, <1>10 DEF SendQueued, cmdVars, Current, uiVars, TypeOK
  <2>2. Head(batch) \in Messages
    BY <1>1, <2>1, HeadTailProperties DEF TypeOK
  <2>3. Head(batch) # Shutdown /\ Head(batch) \in Nat
    BY <2>2, NetAssumption DEF Messages, Shutdown
  <2>4. /\ Texts(batch) = Texts(batch') \cup {Head(batch)}
        /\ \A x \in Texts(batch') : Head(batch) < x
    BY <1>1, <2>1, <2>3, TailTexts DEF OrderInv
  <2>5. Head(batch) \notin Texts(batch') \cup Texts(queue) \cup Texts(Current)
                           \cup Texts(cmds)
    <3>1. Head(batch) \in Texts(batch)
      BY <2>4
    <3>2. \A x \in Texts(queue) \cup Texts(Current) \cup Texts(cmds) : Head(batch) < x
      BY <1>1, <3>1 DEF OrderInv, Before
    <3> QED
      BY <2>3, <2>4, <3>2
  <2>6. /\ Texts(Waiting') = Texts(Waiting) \ {Head(batch)}
        /\ Head(batch) \in Texts(Waiting)
    BY <1>2, <1>3, <2>1, <2>4, <2>5
  <2>7. CASE wire' = Append(wire, Head(batch)) /\ UNCHANGED lost
    BY <1>3a, <2>1, <2>6, <2>7 DEF Sends
  <2>8. ASSUME wire' = wire, NEW how \in {"told", "dead"}, Lose(Head(batch), how)
        PROVE  Drops
    <3>1. Lost' = Lost \cup {Head(batch)}
      BY <1>1, <2>2, <2>8, Loses
    <3> QED
      BY <2>1, <2>6, <2>8, <3>1 DEF Drops
  <2> QED
    BY <1>10, <2>7, <2>8 DEF SendQueued, Sent
<1>11. CASE UNCHANGED <<submitted, batch, queue, cmds, cmd, cur, relayVars>>
  BY <1>11, QuietStep DEF Drops, relayVars
<1> QED
  BY <1>4, <1>5, <1>6, <1>7, <1>8, <1>9, <1>10, <1>11
  DEF Next, CommandHandler, Supervisor, UiTakes, LinkDrops, LinkGivesUp,
      ReceiveClosed, Joined,
      ClearManager, NotifyDown, StartAttempt, Connected, ConnectFails, SwapManager,
      Drained, AnnounceUp, vars, uiVars, cmdVars, netVars, supVars
-----------------------------------------------------------------------------
(* The invariant and the theorems *)

LEMMA WireStep == NetInv /\ [Next]_vars => WireInv'
<1> SUFFICES ASSUME NetInv, [Next]_vars PROVE WireInv'
  OBVIOUS
<1>1. /\ WireInv /\ wire \in Seq(Commands) /\ submitted \in Nat
      /\ wire \in Seq(Messages)
  BY Parts DEF NetInv, TypeOK
<1> USE DEF WireInv
<1>2. CASE Submits
  <2>1. /\ submitted' \notin Texts(wire) /\ 1..submitted \subseteq 1..submitted'
        /\ submitted' \in 1..submitted'
    BY <1>1, <1>2 DEF Submits
  <2>2. Texts(wire') = Texts(wire) /\ 1..submitted' = 1..submitted \cup {submitted'}
        /\ submitted' \notin 1..submitted
    BY <1>1, <1>2 DEF Submits
  <2>3. NoTextVanishes'
    BY <1>1, <1>2, <2>2 DEF Submits, NoTextVanishes
  <2> QED
    BY <1>1, <1>2, <2>1, <2>2, <2>3 DEF Submits
<1>3. CASE Sends
  <2>1. PICK m \in Texts(Waiting) : /\ Texts(Waiting') = Texts(Waiting) \ {m}
                                    /\ wire' = Append(wire, m)
                                    /\ submitted' = submitted /\ Lost' = Lost
    BY <1>3 DEF Sends
  <2>2. m \in Messages /\ m \notin Texts(wire) /\ m # Shutdown
    <3>1. Waiting \in Seq(Commands)
      BY Parts, ConcatProperties DEF NetInv, Waiting
    <3> QED
      BY <1>1, <3>1, TextsAreMessages, NetAssumption DEF Messages, Shutdown
  <2>3. Texts(wire') = Texts(wire) \cup {m}
    BY <1>1, <2>1, <2>2, AppendTexts DEF Commands
  <2>4. Texts(wire) = {wire[i] : i \in 1..Len(wire)}
    BY <1>1, MessagesAreCommands
  <2>5. \A i \in 1..Len(wire) : wire[i] # m
    BY <2>2, <2>4
  <2>6. \A i, j \in 1..Len(wire') : wire'[i] = wire'[j] => i = j
    BY <1>1, <2>1, <2>2, <2>5, AppendProperties, LenProperties
  <2>7. NoTextVanishes'
    BY <1>1, <2>1, <2>3 DEF NoTextVanishes
  <2> QED
    BY <1>1, <2>1, <2>3, <2>6, <2>7
<1>4. CASE Drops
  <2>1. UNCHANGED <<submitted, wire>> /\ Texts(Waiting') \subseteq Texts(Waiting)
    BY <1>4 DEF Drops
  <2>2. Texts(wire') = Texts(wire)
    BY <2>1
  <2>3. NoTextVanishes'
    BY <1>1, <1>4, <2>2 DEF Drops, NoTextVanishes
  <2> QED
    BY <1>1, <2>1, <2>2, <2>3
<1> QED
  BY <1>2, <1>3, <1>4, Moves

LEMMA NetInvariant == Spec => []NetInv
<1>1. NetInv /\ [Next]_vars => NetInv'
  BY TypeStep, OrderStep, WireStep, SupStep DEF NetInv
<1> QED
  BY <1>1, NetInvInit, PTL DEF Spec

\* Every variable of the networking layer keeps its type; the offline queue and
\* the command channel never exceed their caps.
THEOREM NetTypeCorrect == Spec => []TypeOK
<1>1. NetInv => TypeOK
  BY DEF NetInv
<1> QED
  BY <1>1, NetInvariant, PTL

\* Whatever drops and returns, the texts that wait are in the order of submission.
THEOREM NetWaitingInOrder == Spec => []WaitingInOrder
<1>1. NetInv => WaitingInOrder
  BY Parts DEF NetInv, WaitingInOrder
<1> QED
  BY <1>1, NetInvariant, PTL

\* The user is never told "connected" last while there is nothing to send with.
THEOREM NetConnectedMeansManager == Spec => []ConnectedMeansManager
<1>1. NetInv => ConnectedMeansManager
  BY DEF NetInv, SupInv, ConnectedMeansManager
<1> QED
  BY <1>1, NetInvariant, PTL

\* Every submitted text waits, has reached the relay, was taken by a dead connection
\* or is one whose loss the user was told of, and never two of these.
THEOREM NetNoTextVanishes == Spec => []NoTextVanishes
<1>1. NetInv => NoTextVanishes
  BY DEF NetInv, WireInv
<1> QED
  BY <1>1, NetInvariant, PTL

\* A submitted text reaches the relay at most once, by whatever way it travels:
\* the networking layer implements a mailbox for the relay, and no number is on
\* the wire twice.
THEOREM NetSentAtMostOnce == Spec => SentAtMostOnce
<1>1. Init => Service!Init
  <2> SUFFICES ASSUME Init PROVE Service!Init
    OBVIOUS
  <2>1. Texts(wire) = {}
    BY EmptyTexts DEF Init
  <2>2. Texts(Waiting) = {}
    <3>1. TypeOK
      BY NetInvInit DEF NetInv
    <3> QED
      BY <3>1, Parts, EmptyTexts DEF Init, Current
  <2> QED
    BY <2>1, <2>2 DEF Init, Service!Init
<1>2. NetInv /\ [Next]_vars => [Service!Next]_(Service!vars)
  <2> SUFFICES ASSUME NetInv, [Next]_vars PROVE [Service!Next]_(Service!vars)
    OBVIOUS
  <2>1. CASE Submits
    <3>1. Service!Take("relay")
      <4> DEFINE Box(W) == {<<m, "relay">> : m \in W}
      <4>1. /\ submitted' = submitted + 1
            /\ \/ Texts(Waiting') = Texts(Waiting)
               \/ Texts(Waiting') = Texts(Waiting) \cup {submitted'}
        BY <2>1 DEF Submits
      <4>2. Box(Texts(Waiting) \cup {submitted'})
              = Box(Texts(Waiting)) \cup {<<submitted', "relay">>}
        OBVIOUS
      <4>3. Texts(wire') = Texts(wire)
        BY <2>1 DEF Submits
      <4> QED
        BY <4>1, <4>2, <4>3, Zenon DEF Service!Take
    <3> QED
      BY <3>1 DEF Service!Next
  <2>2. CASE Sends
    <3>1. PICK m \in Texts(Waiting) : /\ Texts(Waiting') = Texts(Waiting) \ {m}
                                      /\ wire' = Append(wire, m)
                                      /\ submitted' = submitted
      BY <2>2 DEF Sends
    <3>2. m \in Commands /\ wire \in Seq(Commands) /\ m # Shutdown
      <4>1. Waiting \in Seq(Commands) /\ wire \in Seq(Commands)
        BY Parts, ConcatProperties DEF NetInv, Waiting
      <4> QED
        BY <4>1, TextsAreMessages, NetAssumption DEF Messages, Commands, Shutdown
    <3>3. Texts(wire') = Texts(wire) \cup {m}
      BY <3>1, <3>2, AppendTexts
    <3>4. Service!Deliver("relay")
      <4> DEFINE Box(W) == {<<k, "relay">> : k \in W}
                 x == <<m, "relay">>
      <4>1. x \in {y \in Box(Texts(Waiting)) : y[2] = "relay"} /\ x[1] = m
        OBVIOUS
      <4>2. Box(Texts(Waiting')) = Box(Texts(Waiting)) \ {x}
        BY <3>1
      <4>3. [p \in {"relay"} |-> Texts(wire')]
              = [[p \in {"relay"} |-> Texts(wire)] EXCEPT !["relay"] = @ \cup {x[1]}]
        BY <3>3, <4>1
      <4> HIDE DEF x
      <4> QED
        BY <3>1, <4>1, <4>2, <4>3 DEF Service!Deliver
    <3> QED
      BY <3>4 DEF Service!Next
  <2>3. CASE Drops
    <3>1. Service!Drop
      <4>1. Texts(Waiting') \subseteq Texts(Waiting) /\ UNCHANGED <<submitted, wire>>
        BY <2>3 DEF Drops
      <4>2. {<<m, "relay">> : m \in Texts(Waiting')}
              \subseteq {<<m, "relay">> : m \in Texts(Waiting)}
        BY <4>1
      <4>3. Texts(wire') = Texts(wire)
        BY <4>1
      <4> QED
        BY <4>1, <4>2, <4>3 DEF Service!Drop
    <3> QED
      BY <3>1 DEF Service!Next
  <2> QED
    BY <2>1, <2>2, <2>3, Moves
<1>3. NetInv => \A i, j \in 1..Len(wire) : wire[i] = wire[j] => i = j
  BY DEF NetInv, WireInv
<1> QED
  BY <1>1, <1>2, <1>3, NetInvariant, PTL DEF Spec, SentAtMostOnce, Service!Spec

-----------------------------------------------------------------------------
(* The task panel *)

PanelTask == [number : Nat \ {0}, status : Status]

\* A set of numbers that are not above n has a greatest one.
LEMMA MaxIsGreatest ==
  ASSUME NEW T, T \subseteq Nat, T # {}, NEW n \in Nat, \A x \in T : x <= n
  PROVE  Max(T) \in T /\ \A x \in T : x <= Max(T)
<1> DEFINE U == {b \in Nat : \A x \in T : x <= b}
<1>0. n \in U /\ U \subseteq Nat
  OBVIOUS
<1> HIDE DEF U
<1>1. PICK b \in U : \A c \in U : b <= c
  BY <1>0, LeastNumber
<1>2. b \in T
  <2> SUFFICES ASSUME b \notin T PROVE FALSE
    OBVIOUS
  <2>1. b \in Nat /\ \A x \in T : x \in Nat /\ x <= b /\ x # b
    BY DEF U
  <2>2. b # 0
    <3>1. PICK x \in T : TRUE
      OBVIOUS
    <3> QED
      BY <2>1, <3>1
  <2>3. b - 1 \in Nat /\ \A x \in T : x <= b - 1
    BY <2>1, <2>2
  <2>4. b - 1 \in U
    BY <2>3 DEF U
  <2> QED
    BY <1>1, <2>1, <2>4
<1>3. \E x \in T : \A y \in T : x >= y
  BY <1>2 DEF U
<1>4. Max(T) \in T /\ \A y \in T : Max(T) >= y
  BY <1>3 DEF Max
<1> QED
  BY <1>4

\* The values of a function on 1..n have a bound.
LEMMA ValuesBounded ==
  ASSUME NEW n \in Nat, NEW f, \A i \in 1..n : f[i] \in Nat
  PROVE  \E b \in Nat : \A i \in 1..n : f[i] <= b
<1> DEFINE Bounded(k) == \E b \in Nat : \A i \in 1..k : f[i] <= b
           U == {k \in 0..n : ~Bounded(k)}
<1> SUFFICES ASSUME U # {} PROVE FALSE
  <2>1. n \in 0..n
    OBVIOUS
  <2>2. Bounded(n)
    BY <2>1
  <2> QED
    BY <2>2
<1>1. PICK k \in U : \A j \in U : k <= j
  <2>1. U \subseteq Nat
    OBVIOUS
  <2> QED
    BY <2>1, LeastNumber
<1>2. k \in 0..n /\ ~Bounded(k)
  OBVIOUS
<1>3. k # 0
  <2>1. Bounded(0)
    <3>1. 0 \in Nat /\ \A i \in 1..0 : f[i] <= 0
      OBVIOUS
    <3> QED
      BY <3>1
  <2> QED
    BY <1>2, <2>1
<1>4. Bounded(k - 1)
  <2>1. k - 1 \in 0..n /\ ~(k <= k - 1)
    BY <1>2, <1>3
  <2> QED
    BY <1>1, <2>1
<1>5. PICK b \in Nat : \A i \in 1..(k - 1) : f[i] <= b
  BY <1>4
<1>6. f[k] \in Nat
  BY <1>2, <1>3
<1>7. \A i \in 1..k : f[i] <= b + f[k]
  <2> TAKE i \in 1..k
  <2>1. i \in 1..n
    BY <1>2
  <2>2. f[i] \in Nat
    BY <2>1
  <2>3. CASE i = k
    BY <1>6, <2>3
  <2>4. CASE i # k
    <3>1. i \in 1..(k - 1)
      BY <1>2, <2>4
    <3> QED
      BY <1>5, <1>6, <2>2, <3>1
  <2> QED
    BY <2>3, <2>4
<1>8. b + f[k] \in Nat
  BY <1>6
<1> QED
  BY <1>2, <1>7, <1>8

\* TaskAdd gives a number that no task in the panel has.
LEMMA NewNumber ==
  ASSUME TaskPanelTypeOK
  PROVE  /\ Max(Numbers \cup {0}) + 1 \in Nat \ {0}
         /\ \A i \in 1..Len(tasks) : tasks[i].number < Max(Numbers \cup {0}) + 1
<1> DEFINE f == [i \in 1..Len(tasks) |-> tasks[i].number]
           T == Numbers \cup {0}
<1>1. /\ Len(tasks) \in Nat /\ DOMAIN tasks = 1..Len(tasks)
      /\ \A i \in 1..Len(tasks) : tasks[i] \in PanelTask
  BY LenProperties, ElementOfSeq DEF TaskPanelTypeOK, PanelTask
<1>2. \A i \in 1..Len(tasks) : f[i] = tasks[i].number /\ f[i] \in Nat
  BY <1>1 DEF PanelTask
<1> HIDE DEF f
<1>3. PICK b \in Nat : \A i \in 1..Len(tasks) : f[i] <= b
  BY <1>1, <1>2, ValuesBounded
<1>4. T \subseteq Nat /\ T # {} /\ \A x \in T : x <= b
  BY <1>1, <1>2, <1>3 DEF Numbers
<1>5. \A i \in 1..Len(tasks) : tasks[i].number \in T
  BY <1>1 DEF Numbers
<1> HIDE DEF T
<1>6. Max(T) \in T /\ \A x \in T : x <= Max(T)
  BY <1>4, MaxIsGreatest
<1>7. Max(T) \in Nat /\ \A i \in 1..Len(tasks) : tasks[i].number \in Nat /\ tasks[i].number <= Max(T)
  BY <1>4, <1>5, <1>6
<1>8. /\ Max(T) + 1 \in Nat \ {0}
      /\ \A i \in 1..Len(tasks) : tasks[i].number < Max(T) + 1
  BY <1>7
<1> QED
  BY <1>8 DEF T

\* RowsAreSound of a list and a row.
Rows(list, r) ==
  /\ r < Len(list) \/ (list = << >> /\ r = 0)
  /\ \A i, j \in 1..Len(list) : list[i].number = list[j].number => i = j

PanelInv == TaskPanelTypeOK /\ RowsAreSound

PanelRows == tasks \in Seq(PanelTask) /\ row \in Nat /\ Rows(tasks, row)

LEMMA PanelInvIsRows == PanelInv <=> PanelRows
<1>1. ASSUME tasks \in Seq(PanelTask) PROVE DOMAIN tasks = 1..Len(tasks)
  BY <1>1, LenProperties
<1> QED
  BY <1>1 DEF PanelInv, PanelRows, TaskPanelTypeOK, RowsAreSound, Rows, PanelTask

\* A status is set: TaskDone and CycleStatus.
LEMMA StatusSet ==
  ASSUME NEW s \in Seq(PanelTask), NEW r \in Nat, Rows(s, r), NEW i \in 1..Len(s),
         NEW st \in Status
  PROVE  LET t == [s EXCEPT ![i].status = st]
         IN  t \in Seq(PanelTask) /\ Rows(t, r)
<1> DEFINE t == [s EXCEPT ![i].status = st]
           e == [s[i] EXCEPT !.status = st]
<1>1. s[i] \in PanelTask
  BY ElementOfSeq
<1>2. e \in PanelTask /\ e.number = s[i].number
  BY <1>1 DEF PanelTask
<1>3. t = [s EXCEPT ![i] = e]
  OBVIOUS
<1> HIDE DEF t, e
<1>4. /\ t \in Seq(PanelTask) /\ Len(t) = Len(s)
      /\ \A j \in 1..Len(s) : t[j] = IF j = i THEN e ELSE s[j]
  BY <1>2, <1>3, ExceptSeq
<1>5. \A j \in 1..Len(s) : t[j].number = s[j].number
  BY <1>2, <1>4
<1>6. Len(s) \in Nat /\ (s = << >> => Len(s) = 0)
  BY LenProperties
<1>7. Rows(t, r)
  BY <1>4, <1>5, <1>6 DEF Rows
<1> QED
  BY <1>4, <1>7 DEF t

LEMMA TaskAddRows ==
  ASSUME PanelInv, TaskAdd
  PROVE  PanelInv'
<1> DEFINE e == [number |-> Max(Numbers \cup {0}) + 1, status |-> "Open"]
           t == Append(tasks, e)
           n == Len(tasks)
<1>1. tasks \in Seq(PanelTask) /\ row \in Nat /\ Rows(tasks, row)
  BY PanelInvIsRows DEF PanelRows
<1>2. e \in PanelTask /\ \A i \in 1..n : tasks[i].number < e.number
  <2>1. /\ e.number \in Nat \ {0}
        /\ \A i \in 1..n : tasks[i].number < e.number
    BY NewNumber DEF PanelInv
  <2>2. e.status \in Status
    BY DEF Status
  <2>3. e = [number |-> e.number, status |-> e.status]
    OBVIOUS
  <2> HIDE DEF e
  <2> QED
    BY <2>1, <2>2, <2>3 DEF PanelTask
<1>3. \A i \in 1..n : tasks[i].number \in Nat
  <2>1. \A i \in 1..n : tasks[i] \in PanelTask
    BY <1>1, ElementOfSeq
  <2> QED
    BY <2>1 DEF PanelTask
<1>4. tasks' = t /\ row' = row
  BY DEF TaskAdd
<1> HIDE DEF e, t
<1>5. /\ t \in Seq(PanelTask) /\ Len(t) = n + 1 /\ n \in Nat
      /\ \A i \in 1..n : t[i] = tasks[i]
      /\ t[n + 1] = e
  BY <1>1, <1>2, AppendProperties, LenProperties DEF t
<1>6. row < Len(t)
  <2>1. row < n \/ row = 0
    BY <1>1 DEF Rows
  <2> QED
    BY <1>1, <1>5, <2>1
<1>7. ASSUME NEW i \in 1..(n + 1), NEW j \in 1..(n + 1), t[i].number = t[j].number
      PROVE  i = j
  <2>1. e.number \in Nat
    BY <1>2 DEF PanelTask
  <2>2. CASE i \in 1..n /\ j \in 1..n
    BY <1>1, <1>5, <1>7, <2>2 DEF Rows
  <2>3. CASE i = n + 1 /\ j \in 1..n
    BY <1>2, <1>3, <1>5, <1>7, <2>1, <2>3
  <2>4. CASE i \in 1..n /\ j = n + 1
    BY <1>2, <1>3, <1>5, <1>7, <2>1, <2>4
  <2> QED
    BY <1>5, <2>2, <2>3, <2>4
<1>8. Rows(t, row)
  BY <1>5, <1>6, <1>7 DEF Rows
<1>9. PanelRows'
  BY <1>1, <1>4, <1>5, <1>8 DEF PanelRows, Rows
<1> QED
  BY <1>9, PanelInvIsRows, PTL

LEMMA TaskDoneRows ==
  ASSUME PanelInv, NEW n, TaskDone(n)
  PROVE  PanelInv'
<1>1. tasks \in Seq(PanelTask) /\ row \in Nat /\ Rows(tasks, row) /\ DOMAIN tasks = 1..Len(tasks)
  BY PanelInvIsRows, LenProperties DEF PanelRows
<1>2. PICK i \in 1..Len(tasks) : tasks' = [tasks EXCEPT ![i].status = "Completed"]
  BY <1>1 DEF TaskDone
<1>3. row' = row /\ "Completed" \in Status
  BY DEF TaskDone, Status
<1>4. tasks' \in Seq(PanelTask) /\ Rows(tasks', row)
  BY <1>1, <1>2, <1>3, StatusSet
<1>5. PanelRows'
  BY <1>1, <1>3, <1>4 DEF PanelRows, Rows
<1> QED
  BY <1>5, PanelInvIsRows, PTL

LEMMA CycleStatusRows ==
  ASSUME PanelInv, CycleStatus
  PROVE  PanelInv'
<1>1. tasks \in Seq(PanelTask) /\ row \in Nat /\ Rows(tasks, row) /\ Len(tasks) \in Nat
  BY PanelInvIsRows, LenProperties DEF PanelRows
<1> DEFINE i == row + 1
           st == NextStatus[tasks[i].status]
<1>2. i \in 1..Len(tasks)
  BY <1>1 DEF CycleStatus, Rows
<1> HIDE DEF i
<1>3. st \in Status
  <2>1. tasks[i] \in PanelTask
    BY <1>1, <1>2, ElementOfSeq
  <2>2. tasks[i].status \in Status
    BY <2>1 DEF PanelTask
  <2> QED
    BY <2>2 DEF Status, NextStatus
<1>4. tasks' = [tasks EXCEPT ![i].status = st] /\ row' = row
  BY DEF CycleStatus, i
<1> HIDE DEF st
<1>5. tasks' \in Seq(PanelTask) /\ Rows(tasks', row)
  BY <1>1, <1>2, <1>3, <1>4, StatusSet
<1>6. PanelRows'
  BY <1>1, <1>4, <1>5 DEF PanelRows, Rows
<1> QED
  BY <1>6, PanelInvIsRows, PTL

LEMMA MoveRowRows ==
  ASSUME PanelInv, MoveRow
  PROVE  PanelInv'
<1>1. tasks \in Seq(PanelTask) /\ row \in Nat /\ Rows(tasks, row) /\ Len(tasks) \in Nat
  BY PanelInvIsRows, LenProperties DEF PanelRows
<1>2. tasks' = tasks /\ row < Len(tasks)
  BY <1>1 DEF MoveRow, Rows
<1>3. row' \in Nat /\ row' < Len(tasks)
  BY <1>1, <1>2 DEF MoveRow
<1>4. PanelRows'
  BY <1>1, <1>2, <1>3 DEF PanelRows, Rows
<1> QED
  BY <1>4, PanelInvIsRows, PTL

LEMMA TaskDeleteRows ==
  ASSUME PanelInv, NEW n, TaskDelete(n)
  PROVE  PanelInv'
<1> DEFINE at == {i \in 1..Len(tasks) : tasks[i].number # n}
           t == Picked(tasks, at)
<1>1. tasks \in Seq(PanelTask) /\ row \in Nat /\ Rows(tasks, row) /\ DOMAIN tasks = 1..Len(tasks)
  BY PanelInvIsRows, LenProperties DEF PanelRows
<1>2. tasks' = t /\ row' = IF t # << >> /\ row >= Len(t) THEN Len(t) - 1 ELSE row
  BY <1>1 DEF TaskDelete, Without
<1>3. at \in SUBSET (1..Len(tasks))
  OBVIOUS
<1> HIDE DEF at, t
<1>4. PICK m, f : /\ Enumerates(f, m, at) /\ t = Named(tasks, f, m)
                  /\ t \in Seq(PanelTask) /\ Len(t) = m
  BY <1>1, <1>3, PickedIsEnumerated DEF t
<1>5. /\ m \in Nat /\ f \in [1..m -> at]
      /\ \A i, j \in 1..m : i < j => f[i] < f[j]
      /\ \A x \in at : \E i \in 1..m : f[i] = x
  BY <1>4 DEF Enumerates
<1>6. \A k \in 1..m : t[k] = tasks[f[k]] /\ f[k] \in 1..Len(tasks)
  BY <1>3, <1>4, <1>5 DEF Named
<1>7. ASSUME NEW i \in 1..m, NEW j \in 1..m, t[i].number = t[j].number PROVE i = j
  <2>1. f[i] = f[j]
    BY <1>1, <1>6, <1>7 DEF Rows
  <2>2. f[i] \in Nat /\ f[j] \in Nat
    BY <1>6
  <2> QED
    BY <1>5, <2>1, <2>2
<1>8. row' \in Nat /\ (row' < Len(t) \/ (t = << >> /\ row' = 0))
  <2>1. t = << >> <=> m = 0
    BY <1>4, EmptySeq
  <2>2. CASE t # << >>
    BY <1>1, <1>2, <1>4, <1>5, <2>1, <2>2
  <2>3. CASE t = << >>
    <3>1. row' = row
      BY <1>2, <2>3
    <3>2. ASSUME NEW i \in 1..Len(tasks) PROVE tasks[i].number = n
      <4>1. i \notin at
        BY <1>5, <2>1, <2>3
      <4> QED
        BY <4>1 DEF at
    <3>3. \A i, j \in 1..Len(tasks) : i = j
      BY <1>1, <3>2 DEF Rows
    <3>4. row = 0
      <4>1. Len(tasks) <= 1
        <5>1. Len(tasks) \in Nat
          BY <1>1, LenProperties
        <5>2. Len(tasks) > 1 => 1 \in 1..Len(tasks) /\ 2 \in 1..Len(tasks)
          BY <5>1
        <5> QED
          BY <3>3, <5>1, <5>2
      <4>2. Len(tasks) \in Nat
        BY <1>1, LenProperties
      <4> QED
        BY <1>1, <4>1, <4>2 DEF Rows
    <3> QED
      BY <2>3, <3>1, <3>4
  <2> QED
    BY <2>2, <2>3
<1>9. PanelRows'
  BY <1>2, <1>4, <1>7, <1>8 DEF PanelRows, Rows
<1> QED
  BY <1>9, PanelInvIsRows, PTL

-----------------------------------------------------------------------------
(* The conversations *)

\* ConversationTypeOK, ScreenExists, UnreadIsNew and PresenceIsLatest of a list, a
\* selection, messages, and so on, whichever they are.
Listing(list, sel) ==
  /\ list \in Seq(ConvItem) /\ sel \in Nat
  /\ sel < Len(list) \/ (list = << >> /\ sel = 0)
  /\ \A i, j \in 1..Len(list) : list[i].name = list[j].name => i = j

Shown(list, sel) == IF sel < Len(list) THEN list[sel + 1].name ELSE System

Lowest(list, sel, msgs) ==
  IF Shown(list, sel) = System THEN 0 ELSE Bottom(msgs, Shown(list, sel))

NewestAreTheirs(s, n) ==
  n <= Len(s) /\ \A k \in 0..(n - 1) : s[Len(s) - k] = "theirs"

Unread(list, sel, msgs) ==
  \A i \in 1..Len(list) :
    /\ NewestAreTheirs(msgs[list[i].name], list[i].unread)
    /\ i = sel + 1 => list[i].unread = 0

Heard(list, pres) ==
  \A i \in 1..Len(list), p \in Remotes :
    list[i].name = Direct(p) => list[i].presence \in {pres[p], "unknown"}

Rowed(list, sel, scr, msgs, pres) ==
  /\ Listing(list, sel)
  /\ msgs \in [Keys -> Seq(Message)] /\ pres \in [Remotes -> Presence]
  /\ Unread(list, sel, msgs) /\ Heard(list, pres)
  /\ scr \in Nat /\ scr <= Lowest(list, sel, msgs)

ConvRows == Rowed(convs, selected, scroll, messages, presence)

ConvInv == ConversationTypeOK /\ ScreenExists /\ UnreadIsNew /\ PresenceIsLatest

LEMMA ConvInvIsRows == ConvInv <=> ConvRows
<1>1. ASSUME convs \in Seq(ConvItem) PROVE DOMAIN convs = 1..Len(convs)
  BY <1>1, LenProperties
<1>2. Lowest(convs, selected, messages) = ScrolledDown(convs, messages)
  BY DEF Lowest, ScrolledDown, Shown, OnScreen
<1>3. ASSUME convs \in Seq(ConvItem)
      PROVE  /\ UnreadIsNew <=> Unread(convs, selected, messages)
             /\ PresenceIsLatest <=> Heard(convs, presence)
  BY <1>1, <1>3 DEF UnreadIsNew, Unread, NewestAreTheirs, PresenceIsLatest, Heard
<1>4. ASSUME convs \in Seq(ConvItem), selected \in Nat
      PROVE  ScreenExists <=> /\ Listing(convs, selected)
                              /\ scroll <= Lowest(convs, selected, messages)
  BY <1>1, <1>2, <1>4 DEF ScreenExists, Listing
<1> QED
  BY <1>3, <1>4 DEF ConvInv, ConvRows, Rowed, ConversationTypeOK, Listing

LEMMA SystemIsApart ==
  /\ \A c \in Conversations : c # System
  /\ \A n \in Rooms, p \in Remotes : RoomConv(n) # Direct(p)
  /\ \A p, q \in Remotes : Direct(p) = Direct(q) => p = q
  /\ Conversations \subseteq Keys /\ System \in Keys
  BY DEF Conversations, System, RoomConv, Direct, Keys

\* What the list says of the screen.
LEMMA ShownIsSelected ==
  ASSUME NEW list, NEW sel, Listing(list, sel)
  PROVE  /\ Len(list) \in Nat /\ sel \in Nat /\ DOMAIN list = 1..Len(list)
         /\ \A i \in 1..Len(list) : list[i] \in ConvItem /\ list[i].name # System
                                    /\ list[i].name \in Keys
         /\ Shown(list, sel) \in Keys
         /\ Shown(list, sel) # System <=> list # << >>
         /\ list # << >> => sel + 1 \in 1..Len(list)
         /\ \A i \in 1..Len(list) : list[i].name = Shown(list, sel) <=> i = sel + 1
<1>1. Len(list) \in Nat /\ sel \in Nat /\ DOMAIN list = 1..Len(list)
  BY LenProperties DEF Listing
<1>2. \A i \in 1..Len(list) : list[i] \in ConvItem
  BY ElementOfSeq DEF Listing
<1>3. \A i \in 1..Len(list) : list[i].name \in Conversations
  BY <1>2 DEF ConvItem
<1>4. \A i \in 1..Len(list) : list[i].name # System /\ list[i].name \in Keys
  BY <1>3, SystemIsApart
<1>5. list = << >> => Len(list) = 0
  BY <1>1
<1>6. CASE list = << >>
  <2>1. Shown(list, sel) = System
    BY <1>1, <1>5, <1>6 DEF Shown
  <2>2. Shown(list, sel) \in Keys /\ \A i \in 1..Len(list) : FALSE
    BY <2>1, <1>5, <1>6, SystemIsApart
  <2> QED
    BY <1>1, <1>2, <1>4, <1>6, <2>1, <2>2
<1>7. CASE list # << >>
  <2>1. sel < Len(list) /\ sel + 1 \in 1..Len(list)
    BY <1>1, <1>7 DEF Listing
  <2>2. Shown(list, sel) = list[sel + 1].name
    BY <2>1 DEF Shown
  <2>3. \A i \in 1..Len(list) : list[i].name = list[sel + 1].name <=> i = sel + 1
    BY <2>1 DEF Listing
  <2> QED
    BY <1>1, <1>2, <1>4, <1>7, <2>1, <2>2, <2>3
<1> QED
  BY <1>6, <1>7

LEMMA BottomIsNatural ==
  ASSUME NEW list, NEW sel, Listing(list, sel), NEW msgs \in [Keys -> Seq(Message)]
  PROVE  /\ Lowest(list, sel, msgs) \in Nat
         /\ \A c \in Keys : Bottom(msgs, c) \in Nat
<1>1. ASSUME NEW c \in Keys PROVE Bottom(msgs, c) \in Nat
  <2>1. msgs[c] \in Seq(Message)
    OBVIOUS
  <2>2. Len(msgs[c]) \in Nat /\ (msgs[c] # << >> => Len(msgs[c]) # 0)
    BY <2>1, EmptySeq, LenProperties
  <2> QED
    BY <2>2 DEF Bottom
<1> QED
  BY <1>1, ShownIsSelected DEF Lowest

\* Only names and the selection decide what is on screen.
LEMMA SameNames ==
  ASSUME NEW list, NEW sel, Listing(list, sel), NEW new \in Seq(ConvItem),
         Len(new) = Len(list), \A i \in 1..Len(list) : new[i].name = list[i].name
  PROVE  Listing(new, sel) /\ Shown(new, sel) = Shown(list, sel)
<1>1. Len(list) \in Nat /\ sel \in Nat
  BY ShownIsSelected
<1>2. list = << >> <=> new = << >>
  BY EmptySeq DEF Listing
<1>3. Listing(new, sel)
  BY <1>2 DEF Listing
<1>4. sel < Len(list) => sel + 1 \in 1..Len(list)
  BY <1>1
<1> QED
  BY <1>3, <1>4 DEF Shown

\* add_conversation keeps the list as it has to be, and leaves what is on screen, if
\* there is something.
LEMMA AddedRows ==
  ASSUME NEW list, NEW sel, Listing(list, sel), NEW c \in Conversations,
         NEW msgs \in [Keys -> Seq(Message)], Unread(list, sel, msgs),
         NEW pres, Heard(list, pres)
  PROVE  LET new == Added(list, c)
         IN  /\ Listing(new, sel) /\ Unread(new, sel, msgs) /\ Heard(new, pres)
             /\ new # << >>
             /\ Shown(list, sel) # System => Shown(new, sel) = Shown(list, sel)
<1> DEFINE e == [name |-> c, unread |-> 0, presence |-> "unknown"]
           n == Len(list)
           new == Append(list, e)
<1>0. /\ n \in Nat /\ sel \in Nat /\ DOMAIN list = 1..n
      /\ list # << >> => sel + 1 \in 1..n
      /\ list \in Seq(ConvItem)
  BY ShownIsSelected DEF Listing
<1>1. CASE Has(list, c)
  <2>1. Added(list, c) = list
    BY <1>1 DEF Added
  <2>2. list # << >>
    BY <1>1, <1>0 DEF Has
  <2> QED
    BY <2>1, <2>2
<1>2. CASE ~Has(list, c)
  <2>1. Added(list, c) = new
    BY <1>2 DEF Added
  <2>2. e \in ConvItem /\ e.name = c /\ e.unread = 0 /\ e.presence = "unknown"
    BY DEF ConvItem, Presence
  <2>3. \A i \in 1..n : list[i].name # c
    BY <1>0, <1>2 DEF Has
  <2> HIDE DEF e, new
  <2>4. /\ new \in Seq(ConvItem) /\ Len(new) = n + 1 /\ new # << >>
        /\ \A i \in 1..n : new[i] = list[i]
        /\ new[n + 1] = e
    BY <1>0, <2>2, AppendProperties, EmptySeq DEF new
  <2>5. \A i \in 1..(n + 1) : i \in 1..n \/ i = n + 1
    BY <1>0
  <2>6. Listing(new, sel)
    <3>1. sel < n + 1
      BY <1>0 DEF Listing
    <3>2. ASSUME NEW i \in 1..(n + 1), NEW j \in 1..(n + 1), new[i].name = new[j].name
          PROVE  i = j
      <4>1. CASE i \in 1..n /\ j \in 1..n
        BY <2>4, <3>2, <4>1 DEF Listing
      <4>2. CASE i = n + 1 \/ j = n + 1
        BY <2>2, <2>3, <2>4, <2>5, <3>2, <4>2
      <4> QED
        BY <2>5, <4>1, <4>2
    <3> QED
      BY <1>0, <2>4, <3>1, <3>2 DEF Listing
  <2>7. Unread(new, sel, msgs)
    <3> SUFFICES ASSUME NEW i \in 1..(n + 1)
                 PROVE  /\ NewestAreTheirs(msgs[new[i].name], new[i].unread)
                        /\ i = sel + 1 => new[i].unread = 0
      BY <2>4 DEF Unread
    <3>1. CASE i \in 1..n
      BY <2>4, <3>1 DEF Unread
    <3>2. CASE i = n + 1
      <4>1. msgs[c] \in Seq(Message)
        BY SystemIsApart
      <4>2. Len(msgs[c]) \in Nat
        BY <4>1, LenProperties
      <4>3. NewestAreTheirs(msgs[c], 0)
        BY <4>2 DEF NewestAreTheirs
      <4> QED
        BY <2>2, <2>4, <3>2, <4>3
    <3> QED
      BY <2>5, <3>1, <3>2
  <2>8. Heard(new, pres)
    BY <2>2, <2>4, <2>5 DEF Heard
  <2>9. ASSUME Shown(list, sel) # System PROVE Shown(new, sel) = Shown(list, sel)
    <3>1. list # << >>
      BY <2>9, ShownIsSelected
    <3>2. sel < n /\ sel + 1 \in 1..n /\ sel < n + 1
      BY <1>0, <3>1
    <3> QED
      BY <2>4, <3>2 DEF Shown
  <2> QED
    BY <2>1, <2>4, <2>6, <2>7, <2>8, <2>9
<1> QED
  BY <1>1, <1>2

\* Marked(messages) is Delivered, by its elements.
Marked(msgs) ==
  UNION {{k} \X {i \in DOMAIN msgs[k] : msgs[k][i] = "delivered"} : k \in Keys}

LEMMA MarkedElements ==
  ASSUME NEW msgs \in [Keys -> Seq(Message)], NEW x
  PROVE  x \in Marked(msgs) <=>
           \E k \in Keys : \E i \in 1..Len(msgs[k]) :
             x = <<k, i>> /\ msgs[k][i] = "delivered"
<1> DEFINE D(k) == {k} \X {i \in DOMAIN msgs[k] : msgs[k][i] = "delivered"}
<1>1. \A k \in Keys : DOMAIN msgs[k] = 1..Len(msgs[k])
  <2> TAKE k \in Keys
  <2>1. msgs[k] \in Seq(Message)
    OBVIOUS
  <2> QED
    BY <2>1, LenProperties
<1>2. x \in Marked(msgs) <=> \E k \in Keys : x \in D(k)
  BY DEF Marked
<1>3. ASSUME NEW k \in Keys
      PROVE  x \in D(k) <=> \E i \in 1..Len(msgs[k]) :
                              x = <<k, i>> /\ msgs[k][i] = "delivered"
  BY <1>1
<1> HIDE DEF D
<1> QED
  BY <1>2, <1>3

\* The messages with some more lines in conversation c.
Lengthened(msgs, c, lines) == [msgs EXCEPT ![c] = @ \o lines]

\* Lines that are not marks leave the marks alone.
LEMMA LinesAppended ==
  ASSUME NEW msgs \in [Keys -> Seq(Message)], NEW c \in Keys,
         NEW lines \in Seq(Message), \A i \in 1..Len(lines) : lines[i] # "delivered"
  PROVE  LET new == Lengthened(msgs, c, lines)
         IN  /\ new \in [Keys -> Seq(Message)]
             /\ new[c] = msgs[c] \o lines /\ \A k \in Keys \ {c} : new[k] = msgs[k]
             /\ Marked(new) = Marked(msgs)
<1> DEFINE s == msgs[c]
           u == s \o lines
           new == Lengthened(msgs, c, lines)
<1>1. s \in Seq(Message)
  OBVIOUS
<1>2. /\ u \in Seq(Message) /\ Len(u) = Len(s) + Len(lines)
      /\ \A i \in 1..(Len(s) + Len(lines)) :
           u[i] = IF i <= Len(s) THEN s[i] ELSE lines[i - Len(s)]
      /\ Len(s) \in Nat /\ Len(lines) \in Nat
  BY <1>1, ConcatProperties, LenProperties
<1>3. /\ new[c] = u /\ \A k \in Keys \ {c} : new[k] = msgs[k]
      /\ new \in [Keys -> Seq(Message)]
  BY <1>2 DEF Lengthened
<1> HIDE DEF u, new
<1> DEFINE At(m, k, i) == i \in 1..Len(m[k]) /\ m[k][i] = "delivered"
<1>4. ASSUME NEW k \in Keys, NEW i
      PROVE  At(new, k, i) <=> At(msgs, k, i)
  <2>1. CASE k # c
    BY <1>3, <2>1
  <2>2. CASE k = c
    <3>1. ASSUME i \in 1..Len(s) PROVE i \in 1..Len(u) /\ u[i] = s[i]
      BY <1>2, <3>1
    <3>2. ASSUME i \in 1..Len(u), i \notin 1..Len(s) PROVE u[i] # "delivered"
      <4>1. i - Len(s) \in 1..Len(lines) /\ u[i] = lines[i - Len(s)]
        BY <1>2, <3>2
      <4> QED
        BY <4>1
    <3> QED
      BY <1>3, <2>2, <3>1, <3>2
  <2> QED
    BY <2>1, <2>2
<1>5. ASSUME NEW x PROVE x \in Marked(new) <=> x \in Marked(msgs)
  <2>1. x \in Marked(new) <=>
           \E k \in Keys : \E i \in 1..Len(new[k]) :
             x = <<k, i>> /\ new[k][i] = "delivered"
    <3>1. new \in [Keys -> Seq(Message)]
      BY <1>3
    <3> QED
      BY <3>1, MarkedElements, Zenon
  <2>2. x \in Marked(msgs) <=>
           \E k \in Keys : \E i \in 1..Len(msgs[k]) :
             x = <<k, i>> /\ msgs[k][i] = "delivered"
    BY MarkedElements
  <2>3. x \in Marked(new) <=> \E k \in Keys : \E i : x = <<k, i>> /\ At(new, k, i)
    BY <2>1
  <2>4. x \in Marked(msgs) <=> \E k \in Keys : \E i : x = <<k, i>> /\ At(msgs, k, i)
    BY <2>2
  <2> HIDE DEF At
  <2> QED
    BY <1>4, <2>3, <2>4
<1>6. Marked(new) = Marked(msgs)
  BY <1>5
<1> QED
  BY <1>3, <1>6 DEF new, u

\* The empty count, and the one after another peer's line.
LEMMA NewestCounted ==
  ASSUME NEW s \in Seq(Message)
  PROVE  /\ NewestAreTheirs(s, 0)
         /\ \A n \in Nat : NewestAreTheirs(s, n)
                             => NewestAreTheirs(s \o <<"theirs">>, n + 1)
<1> DEFINE l == <<"theirs">>
           u == s \o l
<1>1. l \in Seq(Message) /\ Len(l) = 1 /\ l[1] = "theirs"
  BY DEF Message
<1> HIDE DEF l
<1>2. /\ Len(u) = Len(s) + 1 /\ Len(s) \in Nat
      /\ \A i \in 1..(Len(s) + 1) : u[i] = IF i <= Len(s) THEN s[i] ELSE l[i - Len(s)]
  <2>1. /\ Len(u) = Len(s) + Len(l) /\ Len(s) \in Nat
        /\ \A i \in 1..(Len(s) + Len(l)) :
             u[i] = IF i <= Len(s) THEN s[i] ELSE l[i - Len(s)]
    BY <1>1, ConcatProperties, LenProperties
  <2> HIDE DEF u
  <2> QED
    BY <1>1, <2>1
<1> HIDE DEF u
<1>3. u[Len(s) + 1] = "theirs" /\ \A i \in 1..Len(s) : u[i] = s[i]
  <2>1. /\ Len(s) + 1 \in 1..(Len(s) + 1) /\ ~(Len(s) + 1 <= Len(s))
        /\ Len(s) + 1 - Len(s) = 1
    BY <1>2
  <2>2. \A i \in 1..Len(s) : i \in 1..(Len(s) + 1) /\ i <= Len(s)
    BY <1>2
  <2> QED
    BY <1>1, <1>2, <2>1, <2>2
<1>4. NewestAreTheirs(s, 0)
  BY <1>2 DEF NewestAreTheirs
<1>5. ASSUME NEW n \in Nat, NewestAreTheirs(s, n) PROVE NewestAreTheirs(u, n + 1)
  <2>1. n <= Len(s) /\ \A k \in 0..(n - 1) : s[Len(s) - k] = "theirs"
    BY <1>5 DEF NewestAreTheirs
  <2>2. ASSUME NEW k \in 0..n PROVE u[Len(u) - k] = "theirs"
    <3>1. CASE k = 0
      BY <1>2, <1>3, <3>1
    <3>2. CASE k # 0
      <4>1. /\ k - 1 \in 0..(n - 1) /\ Len(s) - (k - 1) \in 1..Len(s)
            /\ Len(u) - k = Len(s) - (k - 1)
        BY <1>2, <2>1, <3>2
      <4> QED
        BY <1>3, <2>1, <4>1
    <3> QED
      BY <3>1, <3>2
  <2>3. n + 1 <= Len(u) /\ (n + 1) - 1 = n
    BY <1>2, <2>1
  <2> QED
    BY <2>2, <2>3 DEF NewestAreTheirs
<1> QED
  BY <1>4, <1>5 DEF u, l

\* push_message: the unread ones of the others are untouched, those of c are one
\* more, unless c is on screen.
LEMMA PushRows ==
  ASSUME ConvInv, NEW c \in Conversations, NEW lines \in Seq(Message),
         c = OnScreen(convs) \/ lines = <<"theirs">>,
         \A i \in 1..Len(lines) : lines[i] # "delivered",
         PushMessage(c, lines)
  PROVE  ConvInv' /\ Marked(messages') = Marked(messages)
<1> DEFINE list == Added(convs, c)
           Counted(i) == IF list[i].name = c /\ c # OnScreen(list)
                         THEN [list[i] EXCEPT !.unread = @ + 1] ELSE list[i]
           new == [i \in 1..Len(list) |-> Counted(i)]
           msgs == Lengthened(messages, c, lines)
<1>1. ConvRows
  BY ConvInvIsRows
<1>2. /\ Listing(list, selected) /\ Unread(list, selected, messages)
      /\ Heard(list, presence) /\ list # << >>
      /\ Shown(convs, selected) # System
           => Shown(list, selected) = Shown(convs, selected)
  BY <1>1, AddedRows DEF ConvRows, Rowed
<1> HIDE DEF list
<1>3. /\ Len(list) \in Nat /\ DOMAIN list = 1..Len(list)
      /\ \A i \in 1..Len(list) : list[i] \in ConvItem /\ list[i].name \in Keys
      /\ \A i \in 1..Len(list) : list[i].name = Shown(list, selected) <=> i = selected + 1
  BY <1>2, ShownIsSelected
<1>4. OnScreen(list) = Shown(list, selected) /\ OnScreen(convs) = Shown(convs, selected)
  BY DEF OnScreen, Shown
<1>5. /\ convs' = new /\ messages' = msgs /\ selected' = selected /\ presence' = presence
      /\ scroll' = ScrolledDown(list, msgs)
  BY <1>3 DEF PushMessage, list, Lengthened
<1>6. ASSUME NEW i \in 1..Len(list)
      PROVE  /\ Counted(i) \in ConvItem /\ Counted(i).name = list[i].name
             /\ Counted(i).presence = list[i].presence
             /\ Counted(i).unread = IF list[i].name = c /\ c # Shown(list, selected)
                                    THEN list[i].unread + 1 ELSE list[i].unread
  <2>1. list[i] \in ConvItem
    BY <1>3
  <2> QED
    BY <1>4, <2>1 DEF ConvItem
<1> HIDE DEF Counted
<1>7. new \in Seq(ConvItem) /\ Len(new) = Len(list)
  <2>1. \A i \in 1..Len(list) : Counted(i) \in ConvItem
    BY <1>6
  <2>2. new \in Seq(ConvItem)
    BY <1>3, <2>1, IsASeq
  <2> QED
    BY <1>3, <2>2, LenProperties
<1>8. \A i \in 1..Len(list) : new[i] = Counted(i)
  OBVIOUS
<1> HIDE DEF new
<1>9. Listing(new, selected) /\ Shown(new, selected) = Shown(list, selected)
  BY <1>2, <1>6, <1>7, <1>8, SameNames
<1>10. /\ msgs \in [Keys -> Seq(Message)] /\ msgs[c] = messages[c] \o lines
       /\ \A k \in Keys \ {c} : msgs[k] = messages[k]
       /\ Marked(msgs) = Marked(messages)
  <2>1. c \in Keys
    BY SystemIsApart
  <2>2. messages \in [Keys -> Seq(Message)]
    BY <1>1 DEF ConvRows, Rowed
  <2> QED
    BY <2>1, <2>2, LinesAppended
<1> HIDE DEF msgs
<1>11. Unread(new, selected, msgs)
  <2> SUFFICES ASSUME NEW i \in 1..Len(list)
               PROVE  /\ NewestAreTheirs(msgs[new[i].name], new[i].unread)
                      /\ i = selected + 1 => new[i].unread = 0
    BY <1>7 DEF Unread
  <2>1. /\ NewestAreTheirs(messages[list[i].name], list[i].unread)
        /\ i = selected + 1 => list[i].unread = 0
    BY <1>2 DEF Unread
  <2>2. new[i].name = list[i].name /\ list[i].name \in Keys /\ list[i].unread \in Nat
    BY <1>3, <1>6, <1>8 DEF ConvItem
  <2>3. CASE list[i].name # c
    BY <1>6, <1>8, <1>10, <2>1, <2>2, <2>3
  <2>4. CASE list[i].name = c /\ c = Shown(list, selected)
    <3>1. i = selected + 1 /\ new[i].unread = 0
      BY <1>3, <1>6, <1>8, <2>1, <2>4
    <3>2. msgs[c] \in Seq(Message)
      BY <1>10, SystemIsApart
    <3> QED
      BY <2>2, <2>4, <3>1, <3>2, NewestCounted
  <2>5. CASE list[i].name = c /\ c # Shown(list, selected)
    <3>1. i # selected + 1 /\ new[i].unread = list[i].unread + 1
      BY <1>3, <1>6, <1>8, <2>5
    <3>2. Shown(convs, selected) # c
      <4>1. c # System
        BY SystemIsApart
      <4> QED
        BY <1>2, <2>5, <4>1
    <3>3. lines = <<"theirs">>
      BY <1>4, <3>2
    <3>4. messages[c] \in Seq(Message)
      BY <1>1, SystemIsApart DEF ConvRows, Rowed
    <3>5. NewestAreTheirs(messages[c] \o <<"theirs">>, list[i].unread + 1)
      BY <2>1, <2>2, <2>5, <3>4, NewestCounted
    <3> QED
      BY <1>10, <2>2, <2>5, <3>1, <3>3, <3>5
  <2> QED
    BY <2>3, <2>4, <2>5
<1>12. Heard(new, presence)
  BY <1>2, <1>6, <1>7, <1>8 DEF Heard
<1>13. scroll' = Lowest(new, selected, msgs)
  BY <1>4, <1>5, <1>9 DEF ScrolledDown, Lowest
<1>14. Lowest(new, selected, msgs) \in Nat
  BY <1>9, <1>10, BottomIsNatural
<1>15. Rowed(new, selected, scroll', msgs, presence)
  BY <1>1, <1>9, <1>10, <1>11, <1>12, <1>13, <1>14 DEF ConvRows, Rowed
<1>16. ConvRows'
  BY <1>5, <1>15 DEF ConvRows
<1>17. ConvInv'
  BY <1>16, ConvInvIsRows, PTL
<1> QED
  BY <1>5, <1>10, <1>17

\* push_system_message, after add_conversation or not: a line in what is on screen,
\* which has no unread ones.
LEMMA AnnounceRows ==
  ASSUME ConvInv, NEW list,
         list = convs \/ \E c \in Conversations : list = Added(convs, c),
         Announce(list)
  PROVE  ConvInv' /\ Marked(messages') = Marked(messages)
<1> DEFINE k == Shown(list, selected)
           l == <<"system">>
           msgs == Lengthened(messages, k, l)
<1>1. ConvRows
  BY ConvInvIsRows
<1>2. Listing(list, selected) /\ Unread(list, selected, messages) /\ Heard(list, presence)
  <2>1. CASE list = convs
    BY <1>1, <2>1 DEF ConvRows, Rowed
  <2>2. ASSUME NEW c \in Conversations, list = Added(convs, c)
        PROVE  Listing(list, selected) /\ Unread(list, selected, messages)
               /\ Heard(list, presence)
    BY <1>1, <2>2, AddedRows DEF ConvRows, Rowed
  <2> QED
    BY <2>1, <2>2
<1>3. /\ k \in Keys /\ Len(list) \in Nat
      /\ \A i \in 1..Len(list) : list[i] \in ConvItem /\ list[i].name \in Keys
      /\ \A i \in 1..Len(list) : list[i].name = k <=> i = selected + 1
  BY <1>2, ShownIsSelected
<1>4. l \in Seq(Message) /\ Len(l) = 1 /\ l[1] = "system"
  BY DEF Message
<1>5. \A i \in 1..Len(l) : l[i] # "delivered"
  BY <1>4
<1>6. OnScreen(list) = k
  BY DEF OnScreen, Shown
<1>7. Append(messages[k], "system") = messages[k] \o l
  <2>1. messages[k] \in Seq(Message) /\ "system" \in Message
    BY <1>1, <1>3 DEF ConvRows, Rowed, Message
  <2> QED
    BY <2>1, AppendIsConcat
<1> HIDE DEF k
<1>8. /\ convs' = list /\ messages' = msgs /\ selected' = selected /\ presence' = presence
      /\ scroll' = ScrolledDown(list, msgs)
  BY <1>6, <1>7 DEF Announce, Lengthened
<1> HIDE DEF l
<1>9. /\ msgs \in [Keys -> Seq(Message)]
      /\ \A c \in Keys \ {k} : msgs[c] = messages[c]
      /\ Marked(msgs) = Marked(messages)
  <2>1. messages \in [Keys -> Seq(Message)]
    BY <1>1 DEF ConvRows, Rowed
  <2> QED
    BY <1>3, <1>4, <1>5, <2>1, LinesAppended
<1> HIDE DEF msgs
<1>10. Unread(list, selected, msgs)
  <2> SUFFICES ASSUME NEW i \in 1..Len(list)
               PROVE  /\ NewestAreTheirs(msgs[list[i].name], list[i].unread)
                      /\ i = selected + 1 => list[i].unread = 0
    BY DEF Unread
  <2>1. /\ NewestAreTheirs(messages[list[i].name], list[i].unread)
        /\ i = selected + 1 => list[i].unread = 0
    BY <1>2 DEF Unread
  <2>2. CASE i # selected + 1
    BY <1>3, <1>9, <2>1, <2>2
  <2>3. CASE i = selected + 1
    <3>1. list[i].unread = 0 /\ msgs[list[i].name] \in Seq(Message)
      BY <1>3, <1>9, <2>1, <2>3
    <3> QED
      BY <3>1, NewestCounted
  <2> QED
    BY <2>2, <2>3
<1>11. scroll' = Lowest(list, selected, msgs) /\ Lowest(list, selected, msgs) \in Nat
  BY <1>2, <1>6, <1>8, <1>9, BottomIsNatural DEF ScrolledDown, Lowest, k
<1>12. Rowed(list, selected, scroll', msgs, presence)
  BY <1>1, <1>2, <1>9, <1>10, <1>11 DEF ConvRows, Rowed
<1>13. ConvRows'
  BY <1>8, <1>12 DEF ConvRows
<1>14. ConvInv'
  BY <1>13, ConvInvIsRows, PTL
<1> QED
  BY <1>8, <1>9, <1>14

\* A conversation is selected: nothing in it is unread any more.
LEMMA SelectRows ==
  ASSUME ConvInv, SelectConversation
  PROVE  ConvInv'
<1>1. ConvRows
  BY ConvInvIsRows
<1>2. Listing(convs, selected) /\ Len(convs) \in Nat /\ selected \in Nat
  BY <1>1, ShownIsSelected DEF ConvRows, Rowed
<1>3. PICK sel : sel = selected'
  OBVIOUS
<1>4. sel \in Nat /\ sel < Len(convs) /\ sel + 1 \in 1..Len(convs)
  <2>1. convs = << >> => Len(convs) = 0
    OBVIOUS
  <2> QED
    BY <1>2, <1>3, <2>1 DEF SelectConversation, Listing
<1> DEFINE e == [convs[sel + 1] EXCEPT !.unread = 0]
           new == [convs EXCEPT ![sel + 1] = e]
<1>5. /\ convs' = new /\ messages' = messages /\ presence' = presence
      /\ scroll' = Bottom(messages, convs[sel + 1].name)
  BY <1>3 DEF SelectConversation
<1>6. convs[sel + 1] \in ConvItem /\ convs[sel + 1].name # System
  BY <1>2, <1>4, ShownIsSelected
<1>7. /\ e \in ConvItem /\ e.name = convs[sel + 1].name /\ e.unread = 0
      /\ e.presence = convs[sel + 1].presence
  BY <1>6 DEF ConvItem
<1> HIDE DEF e
<1>8. /\ new \in Seq(ConvItem) /\ Len(new) = Len(convs)
      /\ \A i \in 1..Len(convs) : new[i] = IF i = sel + 1 THEN e ELSE convs[i]
  BY <1>2, <1>4, <1>7, ExceptSeq DEF Listing
<1> HIDE DEF new
<1>9. Listing(convs, sel)
  BY <1>2, <1>4 DEF Listing
<1>10. \A i \in 1..Len(convs) : /\ new[i].name = convs[i].name
                                /\ new[i].presence = convs[i].presence
                                /\ new[i].unread = IF i = sel + 1 THEN 0 ELSE convs[i].unread
  BY <1>7, <1>8
<1>11. Listing(new, sel) /\ Shown(new, sel) = convs[sel + 1].name
  <2>1. Shown(convs, sel) = convs[sel + 1].name
    BY <1>4 DEF Shown
  <2> QED
    BY <1>8, <1>9, <1>10, <2>1, SameNames
<1>12. Unread(new, sel, messages)
  <2> SUFFICES ASSUME NEW i \in 1..Len(convs)
               PROVE  /\ NewestAreTheirs(messages[new[i].name], new[i].unread)
                      /\ i = sel + 1 => new[i].unread = 0
    BY <1>8 DEF Unread
  <2>1. NewestAreTheirs(messages[convs[i].name], convs[i].unread)
    BY <1>1 DEF ConvRows, Rowed, Unread
  <2>2. messages[convs[i].name] \in Seq(Message)
    BY <1>1, <1>2, ShownIsSelected DEF ConvRows, Rowed
  <2> QED
    BY <1>10, <2>1, <2>2, NewestCounted
<1>13. Heard(new, presence)
  BY <1>1, <1>8, <1>10 DEF ConvRows, Rowed, Heard
<1>14. scroll' = Lowest(new, sel, messages) /\ Lowest(new, sel, messages) \in Nat
  <2>1. scroll' = Lowest(new, sel, messages)
    BY <1>5, <1>6, <1>11 DEF Lowest
  <2> QED
    BY <1>1, <1>11, <2>1, BottomIsNatural DEF ConvRows, Rowed
<1>15. Rowed(new, sel, scroll', messages, presence)
  BY <1>1, <1>11, <1>12, <1>13, <1>14 DEF ConvRows, Rowed
<1>16. ConvRows'
  BY <1>3, <1>5, <1>15 DEF ConvRows
<1> QED
  BY <1>16, ConvInvIsRows, PTL

LEMMA ScrollRows ==
  ASSUME ConvInv, Scroll
  PROVE  ConvInv'
<1>1. ConvRows
  BY ConvInvIsRows
<1>2. ScrolledDown(convs, messages) = Lowest(convs, selected, messages)
  BY DEF Lowest, ScrolledDown, Shown, OnScreen
<1>3. Lowest(convs, selected, messages) \in Nat
  BY <1>1, BottomIsNatural DEF ConvRows, Rowed
<1>4. scroll' \in Nat /\ scroll' <= Lowest(convs, selected, messages)
  BY <1>1, <1>2, <1>3 DEF Scroll, ConvRows, Rowed
<1>5. Rowed(convs, selected, scroll', messages, presence)
  BY <1>1, <1>4 DEF ConvRows, Rowed
<1>6. ConvRows'
  BY <1>5 DEF ConvRows, Scroll
<1> QED
  BY <1>6, ConvInvIsRows, PTL

\* set_peer_presence: the conversation of p, if there is one, shows what was heard.
LEMMA PresenceRows ==
  ASSUME ConvInv, NEW p \in Remotes, NEW s \in Presence, SetPeerPresence(p, s)
  PROVE  ConvInv'
<1> DEFINE Changed(i) == IF convs[i].name = Direct(p)
                         THEN [convs[i] EXCEPT !.presence = s] ELSE convs[i]
           new == [i \in 1..Len(convs) |-> Changed(i)]
           pres == [presence EXCEPT ![p] = s]
<1>1. ConvRows
  BY ConvInvIsRows
<1>2. /\ Listing(convs, selected) /\ Len(convs) \in Nat /\ DOMAIN convs = 1..Len(convs)
      /\ \A i \in 1..Len(convs) : convs[i] \in ConvItem
  BY <1>1, ShownIsSelected DEF ConvRows, Rowed
<1>3. /\ convs' = new /\ presence' = pres /\ messages' = messages /\ selected' = selected
      /\ scroll' = scroll
  BY <1>2 DEF SetPeerPresence
<1>4. ASSUME NEW i \in 1..Len(convs)
      PROVE  /\ Changed(i) \in ConvItem /\ Changed(i).name = convs[i].name
             /\ Changed(i).unread = convs[i].unread
             /\ Changed(i).presence = IF convs[i].name = Direct(p) THEN s
                                                                   ELSE convs[i].presence
  <2>1. convs[i] \in ConvItem
    BY <1>2
  <2> QED
    BY <2>1 DEF ConvItem
<1> HIDE DEF Changed
<1>5. new \in Seq(ConvItem) /\ Len(new) = Len(convs)
  <2>1. \A i \in 1..Len(convs) : Changed(i) \in ConvItem
    BY <1>4
  <2>2. new \in Seq(ConvItem)
    BY <1>2, <2>1, IsASeq
  <2> QED
    BY <1>2, <2>2, LenProperties
<1>6. \A i \in 1..Len(convs) : new[i] = Changed(i)
  OBVIOUS
<1> HIDE DEF new
<1>7. Listing(new, selected) /\ Shown(new, selected) = Shown(convs, selected)
  BY <1>2, <1>4, <1>5, <1>6, SameNames
<1>8. /\ pres \in [Remotes -> Presence] /\ pres[p] = s
      /\ \A q \in Remotes : q # p => pres[q] = presence[q]
  BY <1>1 DEF ConvRows, Rowed
<1> HIDE DEF pres
<1>9. Heard(new, pres)
  <2> SUFFICES ASSUME NEW i \in 1..Len(convs), NEW q \in Remotes,
                      convs[i].name = Direct(q)
               PROVE  Changed(i).presence \in {pres[q], "unknown"}
    BY <1>4, <1>5, <1>6 DEF Heard
  <2>1. CASE q = p
    BY <1>4, <1>8, <2>1
  <2>2. CASE q # p
    <3>1. convs[i].name # Direct(p)
      BY <2>2, SystemIsApart
    <3>2. convs[i].presence \in {presence[q], "unknown"}
      BY <1>1 DEF ConvRows, Rowed, Heard
    <3> QED
      BY <1>4, <1>8, <2>2, <3>1, <3>2
  <2> QED
    BY <2>1, <2>2
<1>10. Unread(new, selected, messages)
  BY <1>1, <1>4, <1>5, <1>6 DEF ConvRows, Rowed, Unread
<1>11. Lowest(new, selected, messages) = Lowest(convs, selected, messages)
  BY <1>7 DEF Lowest
<1>12. Rowed(new, selected, scroll, messages, pres)
  BY <1>1, <1>7, <1>8, <1>9, <1>10, <1>11 DEF ConvRows, Rowed
<1>13. ConvRows'
  BY <1>3, <1>12 DEF ConvRows
<1> QED
  BY <1>13, ConvInvIsRows, PTL

\* One line is marked as delivered.
LEMMA OneMarked ==
  ASSUME NEW msgs \in [Keys -> Seq(Message)], NEW k \in Keys, NEW i \in 1..Len(msgs[k])
  PROVE  LET new == [msgs EXCEPT ![k][i] = "delivered"]
         IN  /\ new \in [Keys -> Seq(Message)]
             /\ \A c \in Keys : Len(new[c]) = Len(msgs[c])
             /\ \A c \in Keys : \A j \in 1..Len(msgs[c]) :
                  new[c][j] = IF c = k /\ j = i THEN "delivered" ELSE msgs[c][j]
             /\ Marked(new) = Marked(msgs) \cup {<<k, i>>}
<1> DEFINE s == msgs[k]
           u == [s EXCEPT ![i] = "delivered"]
           new == [msgs EXCEPT ![k][i] = "delivered"]
<1>1. s \in Seq(Message) /\ "delivered" \in Message
  BY DEF Message
<1>2. /\ u \in Seq(Message) /\ Len(u) = Len(s)
      /\ \A j \in 1..Len(s) : u[j] = IF j = i THEN "delivered" ELSE s[j]
  BY <1>1, ExceptSeq
<1>3. /\ new[k] = u /\ \A c \in Keys \ {k} : new[c] = msgs[c]
      /\ new \in [Keys -> Seq(Message)]
  BY <1>2
<1> HIDE DEF u, new
<1>4. \A c \in Keys : Len(new[c]) = Len(msgs[c])
  BY <1>2, <1>3
<1>5. \A c \in Keys : \A j \in 1..Len(msgs[c]) :
        new[c][j] = IF c = k /\ j = i THEN "delivered" ELSE msgs[c][j]
  BY <1>2, <1>3
<1>6. ASSUME NEW x PROVE x \in Marked(new) <=> x \in Marked(msgs) \cup {<<k, i>>}
  <2>1. x \in Marked(new) <=>
           \E c \in Keys : \E j \in 1..Len(new[c]) :
             x = <<c, j>> /\ new[c][j] = "delivered"
    <3>1. new \in [Keys -> Seq(Message)]
      BY <1>3
    <3> QED
      BY <3>1, MarkedElements, Zenon
  <2>2. x \in Marked(msgs) <=>
           \E c \in Keys : \E j \in 1..Len(msgs[c]) :
             x = <<c, j>> /\ msgs[c][j] = "delivered"
    BY MarkedElements
  <2>3. ASSUME NEW c \in Keys, NEW j \in 1..Len(new[c]), x = <<c, j>>,
               new[c][j] = "delivered"
        PROVE  x \in Marked(msgs) \cup {<<k, i>>}
    <3>1. j \in 1..Len(msgs[c])
      BY <1>4
    <3>2. CASE c = k /\ j = i
      BY <2>3, <3>2
    <3>3. CASE ~(c = k /\ j = i)
      <4>1. msgs[c][j] = "delivered"
        BY <1>5, <2>3, <3>1, <3>3
      <4> QED
        BY <2>2, <2>3, <3>1, <4>1
    <3> QED
      BY <3>2, <3>3
  <2>4. ASSUME NEW c \in Keys, NEW j \in 1..Len(msgs[c]), x = <<c, j>>,
               msgs[c][j] = "delivered"
        PROVE  x \in Marked(new)
    <3>1. j \in 1..Len(new[c]) /\ new[c][j] = "delivered"
      BY <1>4, <1>5, <2>4
    <3> QED
      BY <2>1, <2>4, <3>1
  <2>5. ASSUME x = <<k, i>> PROVE x \in Marked(new)
    <3>1. i \in 1..Len(new[k]) /\ new[k][i] = "delivered"
      BY <1>4, <1>5
    <3> QED
      BY <2>1, <2>5, <3>1
  <2> QED
    BY <2>1, <2>2, <2>3, <2>4, <2>5
<1>7. Marked(new) = Marked(msgs) \cup {<<k, i>>}
  BY <1>6
<1> QED
  BY <1>3, <1>4, <1>5, <1>7 DEF new

\* LastSending gives the place of a message that is being sent, or zero.
LEMMA LastIsSending ==
  ASSUME ConvRows, NEW k \in Keys, LastSending(k) > 0
  PROVE  /\ LastSending(k) \in 1..Len(messages[k])
         /\ messages[k][LastSending(k)] = "sending"
<1> DEFINE s == messages[k]
           T == {i \in DOMAIN s : s[i] = "sending"} \cup {0}
<1>1. s \in Seq(Message)
  BY DEF ConvRows, Rowed
<1>2. Len(s) \in Nat /\ DOMAIN s = 1..Len(s)
  BY <1>1, LenProperties
<1>3. T \subseteq Nat /\ T # {} /\ \A x \in T : x <= Len(s)
  BY <1>2
<1>4. LastSending(k) = Max(T)
  BY DEF LastSending
<1> HIDE DEF T
<1>5. Max(T) \in T
  BY <1>2, <1>3, MaxIsGreatest
<1>6. Max(T) \in T /\ Max(T) # 0
  BY <1>4, <1>5
<1> QED
  BY <1>2, <1>4, <1>6 DEF T

\* StatusChanged: at most one line is marked, and it is an own one, so the unread
\* ones are what they were.
LEMMA MarkRows ==
  ASSUME ConvInv, MarkDelivered
  PROVE  /\ ConvInv'
         /\ \/ Marked(messages') = Marked(messages)
            \/ \E x : Marked(messages') = Marked(messages) \cup {x}
<1>1. ConvRows /\ Rowed(convs, selected, scroll, messages, presence)
  BY ConvInvIsRows DEF ConvRows
<1>2. /\ convs' = convs /\ selected' = selected /\ scroll' = scroll /\ presence' = presence
      /\ \/ messages' = messages
         \/ \E k \in Keys : /\ LastSending(k) > 0
                            /\ messages' = [messages EXCEPT ![k][LastSending(k)] = "delivered"]
  BY DEF MarkDelivered
<1>3. CASE messages' = messages
  <2>1. ConvRows'
    BY <1>1, <1>2, <1>3 DEF ConvRows
  <2>2. ConvInv'
    BY <2>1, ConvInvIsRows, PTL
  <2> QED
    BY <1>3, <2>2
<1>4. ASSUME NEW k \in Keys, LastSending(k) > 0,
             messages' = [messages EXCEPT ![k][LastSending(k)] = "delivered"]
      PROVE  ConvInv' /\ \E x : Marked(messages') = Marked(messages) \cup {x}
  <2>1. PICK i : i = LastSending(k)
    OBVIOUS
  <2> DEFINE new == [messages EXCEPT ![k][i] = "delivered"]
  <2>2. i \in 1..Len(messages[k]) /\ messages[k][i] = "sending"
    BY <1>1, <1>4, <2>1, LastIsSending
  <2>3. messages' = new
    BY <1>4, <2>1
  <2>4. /\ messages \in [Keys -> Seq(Message)] /\ Listing(convs, selected)
        /\ Unread(convs, selected, messages)
    BY <1>1 DEF Rowed
  <2>5. /\ new \in [Keys -> Seq(Message)]
        /\ \A c \in Keys : Len(new[c]) = Len(messages[c])
        /\ \A c \in Keys : \A j \in 1..Len(messages[c]) :
             new[c][j] = IF c = k /\ j = i THEN "delivered" ELSE messages[c][j]
        /\ Marked(new) = Marked(messages) \cup {<<k, i>>}
    BY <2>2, <2>4, OneMarked
  <2> HIDE DEF new
  <2>6. ASSUME NEW c \in Keys, NEW n \in Nat, NewestAreTheirs(messages[c], n)
        PROVE  NewestAreTheirs(new[c], n)
    <3>1. /\ n <= Len(messages[c])
          /\ \A j \in 0..(n - 1) : messages[c][Len(messages[c]) - j] = "theirs"
      BY <2>6 DEF NewestAreTheirs
    <3>2. Len(messages[c]) \in Nat
      <4>1. messages[c] \in Seq(Message)
        BY <2>4
      <4> QED
        BY <4>1, LenProperties
    <3>3. ASSUME NEW j \in 0..(n - 1) PROVE new[c][Len(messages[c]) - j] = "theirs"
      <4>1. Len(messages[c]) - j \in 1..Len(messages[c])
        BY <3>1, <3>2
      <4>2. messages[c][Len(messages[c]) - j] = "theirs"
        BY <3>1
      <4> QED
        BY <2>2, <2>5, <4>1, <4>2
    <3> QED
      BY <2>5, <3>1, <3>3 DEF NewestAreTheirs
  <2>7. \A j \in 1..Len(convs) : convs[j].name \in Keys /\ convs[j].unread \in Nat
    BY <2>4, ShownIsSelected DEF ConvItem
  <2>8. Unread(convs, selected, new)
    BY <2>4, <2>6, <2>7 DEF Unread
  <2>9. Lowest(convs, selected, new) = Lowest(convs, selected, messages)
    <3>1. \A c \in Keys : new[c] = << >> <=> messages[c] = << >>
      <4> TAKE c \in Keys
      <4>1. new[c] \in Seq(Message) /\ messages[c] \in Seq(Message)
        BY <2>4, <2>5
      <4>2. Len(new[c]) = Len(messages[c])
        BY <2>5
      <4> QED
        BY <4>1, <4>2, EmptySeq
    <3>2. Shown(convs, selected) \in Keys
      BY <2>4, ShownIsSelected
    <3> QED
      BY <2>5, <3>1, <3>2 DEF Lowest, Bottom
  <2>10. Rowed(convs, selected, scroll, new, presence)
    BY <1>1, <2>5, <2>8, <2>9 DEF Rowed
  <2>11. ConvRows'
    BY <1>2, <2>3, <2>10 DEF ConvRows
  <2>12. ConvInv'
    BY <2>11, ConvInvIsRows, PTL
  <2> QED
    BY <2>3, <2>5, <2>12
<1> QED
  BY <1>2, <1>3, <1>4

\* At the start there is no conversation, or that of the remote peer.
LEMMA FirstRows ==
  ASSUME NEW list, list = << >> \/ \E p \in Remotes : list = <<p>>,
         ConversationInit(list)
  PROVE  ConvInv /\ Marked(messages) = {}
<1> DEFINE Item(i) == [name |-> Direct(list[i]), unread |-> 0, presence |-> "unknown"]
           n == Len(list)
<1>1. n \in 0..1 /\ DOMAIN list = 1..n /\ \A i \in 1..n : list[i] \in Remotes
  <2>1. CASE list = << >>
    BY <2>1
  <2>2. ASSUME NEW p \in Remotes, list = <<p>>
        PROVE  n \in 0..1 /\ DOMAIN list = 1..n /\ \A i \in 1..n : list[i] \in Remotes
    BY <2>2
  <2> QED
    BY <2>1, <2>2
<1>2. convs = [i \in 1..n |-> Item(i)]
  BY <1>1 DEF ConversationInit
<1>3. \A i \in 1..n : Item(i) \in ConvItem /\ Item(i).unread = 0
                      /\ Item(i).presence = "unknown"
  BY <1>1 DEF ConvItem, Conversations, Presence
<1> HIDE DEF Item
<1>4. convs \in Seq(ConvItem) /\ Len(convs) = n /\ \A i \in 1..n : convs[i] = Item(i)
  <2>1. [i \in 1..n |-> Item(i)] \in Seq(ConvItem)
    BY <1>1, <1>3, IsASeq
  <2> QED
    BY <1>1, <1>2, <2>1, LenProperties
<1>5. Listing(convs, selected)
  <2>1. convs = << >> <=> n = 0
    BY <1>4, EmptySeq
  <2> QED
    BY <1>1, <1>4, <2>1 DEF Listing, ConversationInit
<1>6. messages \in [Keys -> Seq(Message)] /\ presence \in [Remotes -> Presence]
  <2>1. <<"system">> \in Seq(Message) /\ << >> \in Seq(Message)
    BY DEF Message
  <2>2. messages \in [Keys -> {<<"system">>, << >>}]
    BY DEF ConversationInit
  <2>3. messages \in [Keys -> Seq(Message)]
    BY <2>1, <2>2
  <2> QED
    BY <2>3 DEF ConversationInit, Presence
<1>7. \A k \in Keys : \A i \in 1..Len(messages[k]) : messages[k][i] # "delivered"
  <2> TAKE k \in Keys
  <2>1. messages[k] = <<"system">> \/ messages[k] = << >>
    BY DEF ConversationInit
  <2> QED
    BY <2>1
<1>8. Unread(convs, selected, messages)
  <2> SUFFICES ASSUME NEW i \in 1..n
               PROVE  NewestAreTheirs(messages[convs[i].name], 0)
    BY <1>3, <1>4 DEF Unread
  <2>1. messages[convs[i].name] \in Seq(Message)
    BY <1>4, <1>5, <1>6, ShownIsSelected
  <2> QED
    BY <2>1, NewestCounted
<1>9. Heard(convs, presence)
  BY <1>3, <1>4 DEF Heard
<1>10. scroll = 0 /\ Lowest(convs, selected, messages) \in Nat
  BY <1>5, <1>6, BottomIsNatural DEF ConversationInit
<1>11. ConvInv
  BY <1>5, <1>6, <1>8, <1>9, <1>10, ConvInvIsRows DEF ConvRows, Rowed
<1>12. Marked(messages) = {}
  <2>1. ASSUME NEW x PROVE x \notin Marked(messages)
    BY <1>6, <1>7, MarkedElements
  <2> QED
    BY <2>1
<1> QED
  BY <1>11, <1>12

-----------------------------------------------------------------------------
(* Receipts on their way *)

IsReceipt(e) == e.kind = "delivered"

\* The receipts in a queue of events.
Receipts(q) == {i \in 1..Len(q) : IsReceipt(q[i])}
Count(q) == Cardinality(Receipts(q))

LEMMA CountIsNatural ==
  ASSUME NEW q \in Seq(NetEvent)
  PROVE  IsFiniteSet(Receipts(q)) /\ Count(q) \in Nat
<1>1. Len(q) \in Nat
  BY LenProperties
<1>2. IsFiniteSet(1..Len(q))
  BY <1>1, FS_Interval
<1>3. Receipts(q) \in SUBSET (1..Len(q))
  BY DEF Receipts
<1>4. IsFiniteSet(Receipts(q))
  BY <1>2, <1>3, FS_Subset
<1> QED
  BY <1>4, FS_CardinalityType DEF Count

LEMMA CountOfNone ==
  ASSUME NEW q, \A i \in 1..Len(q) : ~IsReceipt(q[i])
  PROVE  Count(q) = 0
<1>1. Receipts(q) = {}
  BY DEF Receipts
<1> QED
  BY <1>1, FS_EmptySet DEF Count

LEMMA CountConcat ==
  ASSUME NEW q \in Seq(NetEvent), NEW r \in Seq(NetEvent),
         \A i \in 1..Len(r) : ~IsReceipt(r[i])
  PROVE  q \o r \in Seq(NetEvent) /\ Count(q \o r) = Count(q)
<1> DEFINE u == q \o r
<1>1. /\ u \in Seq(NetEvent) /\ Len(u) = Len(q) + Len(r)
      /\ \A i \in 1..(Len(q) + Len(r)) :
           u[i] = IF i <= Len(q) THEN q[i] ELSE r[i - Len(q)]
      /\ Len(q) \in Nat /\ Len(r) \in Nat
  BY ConcatProperties, LenProperties
<1> HIDE DEF u
<1>2. ASSUME NEW i PROVE i \in Receipts(u) <=> i \in Receipts(q)
  <2>1. ASSUME i \in 1..Len(q) PROVE i \in 1..Len(u) /\ u[i] = q[i]
    BY <1>1, <2>1
  <2>2. ASSUME i \in 1..Len(u), i \notin 1..Len(q) PROVE ~IsReceipt(u[i])
    <3>1. i - Len(q) \in 1..Len(r) /\ u[i] = r[i - Len(q)]
      BY <1>1, <2>2
    <3> QED
      BY <3>1
  <2> QED
    BY <2>1, <2>2 DEF Receipts
<1>3. Receipts(u) = Receipts(q)
  BY <1>2
<1> QED
  BY <1>1, <1>3 DEF Count, u

LEMMA CountAppend ==
  ASSUME NEW q \in Seq(NetEvent), NEW e \in NetEvent
  PROVE  /\ Append(q, e) \in Seq(NetEvent)
         /\ Count(Append(q, e)) = Count(q) + (IF IsReceipt(e) THEN 1 ELSE 0)
<1> DEFINE u == Append(q, e)
           n == Len(q) + 1
<1>1. /\ u \in Seq(NetEvent) /\ Len(u) = n /\ Len(q) \in Nat
      /\ \A i \in 1..Len(q) : u[i] = q[i]
      /\ u[n] = e
  BY AppendProperties, LenProperties
<1> HIDE DEF u
<1>2. Receipts(u) = IF IsReceipt(e) THEN Receipts(q) \cup {n} ELSE Receipts(q)
  <2>1. \A i : i \in 1..n <=> i \in 1..Len(q) \/ i = n
    BY <1>1
  <2>2. n \notin 1..Len(q)
    BY <1>1
  <2> HIDE DEF n
  <2> QED
    BY <1>1, <2>1, <2>2 DEF Receipts
<1>3. n \notin Receipts(q)
  BY <1>1 DEF Receipts
<1>4. IsFiniteSet(Receipts(q)) /\ Cardinality(Receipts(q)) \in Nat
  BY CountIsNatural DEF Count
<1>5. Cardinality(Receipts(q) \cup {n}) = Cardinality(Receipts(q)) + 1
  BY <1>3, <1>4, FS_AddElement
<1>6. Count(u) = Count(q) + (IF IsReceipt(e) THEN 1 ELSE 0)
  BY <1>2, <1>4, <1>5 DEF Count
<1> QED
  BY <1>1, <1>6 DEF u

LEMMA CountTail ==
  ASSUME NEW q \in Seq(NetEvent), q # << >>
  PROVE  /\ Tail(q) \in Seq(NetEvent) /\ Head(q) \in NetEvent
         /\ Count(q) = Count(Tail(q)) + (IF IsReceipt(Head(q)) THEN 1 ELSE 0)
<1> DEFINE r == Tail(q)
           S == Receipts(q) \ {1}
           T == Receipts(r)
           f == [i \in T |-> i + 1]
<1>1. /\ r \in Seq(NetEvent) /\ Head(q) \in NetEvent /\ Head(q) = q[1]
      /\ Len(r) = Len(q) - 1 /\ Len(q) \in Nat \ {0}
      /\ \A i \in 1..Len(r) : r[i] = q[i + 1]
  BY HeadTailProperties, LenProperties, EmptySeq
<1> HIDE DEF r
<1>2. \A i \in T : i \in 1..Len(r) /\ i + 1 \in S
  BY <1>1 DEF Receipts
<1>3. \A j \in S : \E i \in T : i + 1 = j
  <2> TAKE j \in S
  <2>1. j \in 1..Len(q) /\ j # 1 /\ IsReceipt(q[j])
    BY DEF Receipts
  <2>2. j - 1 \in 1..Len(r) /\ r[j - 1] = q[j] /\ (j - 1) + 1 = j
    BY <1>1, <2>1
  <2>3. j - 1 \in T
    BY <2>1, <2>2 DEF Receipts
  <2> QED
    BY <2>2, <2>3
<1>4. \A i, j \in T : i + 1 = j + 1 => i = j
  BY <1>2
<1> HIDE DEF S, T
<1>5. f \in Bijection(T, S)
  <2>1. f \in [T -> S] /\ \A i \in T : f[i] = i + 1
    BY <1>2
  <2> HIDE DEF f
  <2>2. (\A i, j \in T : f[i] = f[j] => i = j) /\ \A j \in S : \E i \in T : f[i] = j
    BY <1>3, <1>4, <2>1
  <2> QED
    BY <2>1, <2>2 DEF Bijection, Injection, Surjection, IsInjective
<1>6. IsFiniteSet(T) /\ Cardinality(T) = Count(r) /\ Count(r) \in Nat
  BY <1>1, CountIsNatural DEF Count, T
<1>7. Cardinality(S) = Count(r)
  BY <1>5, <1>6, FS_Bijection DEF ExistsBijection
<1>8. IsFiniteSet(Receipts(q)) /\ Cardinality(Receipts(q)) = Count(q) /\ Count(q) \in Nat
  BY CountIsNatural DEF Count
<1>9. 1 \in Receipts(q) <=> IsReceipt(Head(q))
  BY <1>1 DEF Receipts
<1>10. Cardinality(S) = IF 1 \in Receipts(q) THEN Count(q) - 1 ELSE Count(q)
  BY <1>8, FS_RemoveElement DEF S
<1> QED
  BY <1>1, <1>6, <1>7, <1>8, <1>9, <1>10 DEF r

-----------------------------------------------------------------------------
(* The invariant, and the start *)

\* What ClientTypeOK says of the channels and of what is behind them.
ChannelsOK ==
  /\ loop \in {"drain", "key"}
  /\ connected \in BOOLEAN
  /\ commands \in Seq(CommandKinds) /\ Len(commands) <= CmdCap
  /\ netEvents \in Seq(NetEvent) /\ Len(netEvents) <= EventCap
  /\ online \in BOOLEAN
  /\ session \in {"up", "down", "gone"}
  /\ chat \in Seq(ChatEvent) /\ Len(chat) <= ChatCap
  /\ queued \in 0..OfflineCap
  /\ unacked \in Nat /\ acked \in Nat
  /\ keys \in 0..MaxKeys /\ arrivals \in 0..MaxArrivals /\ outages \in 0..MaxOutages

\* Every receipt on its way to the screen, and every mark it made there, stands for
\* a text of its own that was acknowledged.
ReceiptInv ==
  /\ IsFiniteSet(Delivered)
  /\ Cardinality(Delivered) + Count(chat) + Count(netEvents) <= acked

ClientInv == PanelInv /\ ConvInv /\ ChannelsOK /\ ReceiptInv

LEMMA ClientInvImplies == ClientInv => ClientTypeOK /\ ScreenIsTrue
<1> SUFFICES ASSUME ClientInv PROVE ClientTypeOK /\ ScreenIsTrue
  OBVIOUS
<1>1. ClientTypeOK
  BY DEF ClientInv, PanelInv, ConvInv, ChannelsOK, ClientTypeOK
<1>2. chat \in Seq(NetEvent) /\ netEvents \in Seq(NetEvent)
  <2>1. chat \in Seq(ChatEvent) /\ netEvents \in Seq(NetEvent) /\ ChatEvent \subseteq NetEvent
    BY DEF ClientInv, ChannelsOK, ChatEvent
  <2> QED
    BY <2>1, SeqMonotonic
<1>3. Count(chat) \in Nat /\ Count(netEvents) \in Nat
  BY <1>2, CountIsNatural
<1>4. Cardinality(Delivered) \in Nat /\ acked \in Nat
  BY FS_CardinalityType DEF ClientInv, ReceiptInv, ChannelsOK
<1>5. Cardinality(Delivered) <= acked
  BY <1>3, <1>4 DEF ClientInv, ReceiptInv
<1> QED
  BY <1>1, <1>5 DEF ScreenIsTrue, ClientInv, ConvInv

LEMMA DeliveredIsMarked == Delivered = Marked(messages)
  BY DEF Delivered, Marked

LEMMA CapsAreNatural ==
  /\ CmdCap \in Nat \ {0} /\ EventCap \in Nat \ {0} /\ ChatCap \in Nat \ {0}
  /\ OfflineCap \in Nat /\ MaxKeys \in Nat /\ MaxArrivals \in Nat /\ MaxOutages \in Nat
  BY ClientAssumption

\* Whoever gives a setting gives it one of the values.
LEMMA SettingsHaveValues ==
  ASSUME NEW cli \in CliArgs, NEW file \in ConfigFile, HasNetConfig(Load(cli, file))
  PROVE  Load(cli, file)["remote_peer"] \in Remotes
<1> DEFINE g == file.given
           none == OrElse(g, Default)
           config == OrElse(cli, none)
           peer == "remote_peer"
<1>1. ASSUME NEW f \in Given, NEW s \in DOMAIN f PROVE f[s] \in Values
  BY <1>1 DEF Given
<1>2. g \in Given /\ cli \in Given /\ DOMAIN Default = {}
  BY DEF ConfigFile, CliArgs, Default
<1>3. peer \in Settings
  BY DEF Settings
<1>4. file.loads
  <2>1. Settings # DOMAIN Default
    BY <1>2, <1>3
  <2> QED
    BY <2>1 DEF HasNetConfig, Load
<1>5. Load(cli, file) = config
  BY <1>4 DEF Load, Resolve
<1>6. peer \in DOMAIN config /\ config[peer] # ""
  BY <1>3, <1>5 DEF HasNetConfig
<1>7. DOMAIN config = DOMAIN cli \cup DOMAIN none /\ DOMAIN none = DOMAIN g
  BY <1>2 DEF OrElse
<1>8. config[peer] \in Values
  <2>1. CASE peer \in DOMAIN cli
    <3>1. config[peer] = cli[peer]
      BY <2>1 DEF OrElse
    <3> QED
      BY <1>1, <1>2, <2>1, <3>1
  <2>2. CASE peer \notin DOMAIN cli
    <3>1. peer \in DOMAIN g
      BY <1>6, <1>7, <2>2
    <3>2. config[peer] = g[peer]
      BY <2>2, <3>1 DEF OrElse
    <3> QED
      BY <1>1, <1>2, <3>1, <3>2
  <2> QED
    BY <2>1, <2>2
<1> QED
  BY <1>5, <1>6, <1>8, ClientAssumption

LEMMA ClientStarts == ClientInit => ClientInv
<1> SUFFICES ASSUME ClientInit PROVE ClientInv
  OBVIOUS
<1>1. PICK cli \in CliArgs, file \in ConfigFile : StartWith(Load(cli, file))
  BY DEF ClientInit
<1> DEFINE config == Load(cli, file)
<1>2. ConvInv /\ Delivered = {}
  <2>1. CASE HasNetConfig(config)
    <3>1. ConversationInit(<<config["remote_peer"]>>)
      BY <1>1, <2>1 DEF StartWith
    <3>2. config["remote_peer"] \in Remotes
      BY <2>1, SettingsHaveValues
    <3> HIDE DEF config
    <3> QED
      BY <3>1, <3>2, FirstRows, DeliveredIsMarked
  <2>2. CASE ~HasNetConfig(config)
    <3>1. ConversationInit(<< >>)
      BY <1>1, <2>2 DEF StartWith
    <3> QED
      BY <3>1, FirstRows, DeliveredIsMarked
  <2> QED
    BY <2>1, <2>2
<1>3. PanelInv
  BY DEF ClientInit, TaskPanelInit, PanelInv, TaskPanelTypeOK, RowsAreSound
<1>4. /\ online \in BOOLEAN /\ connected = online
      /\ session = (IF online THEN "up" ELSE "gone")
      /\ netEvents = << >> \/ netEvents = <<[kind |-> "up"]>>
  BY <1>1 DEF StartWith
<1>5. netEvents \in Seq(NetEvent) /\ Len(netEvents) <= EventCap /\ Count(netEvents) = 0
  <2>1. CASE netEvents = << >>
    BY <2>1, CapsAreNatural, CountOfNone
  <2>2. CASE netEvents = <<[kind |-> "up"]>>
    <3> DEFINE e == [kind |-> "up"]
    <3>1. e \in NetEvent /\ ~IsReceipt(e)
      BY DEF NetEvent, IsReceipt
    <3> HIDE DEF e
    <3>2. /\ <<e>> \in Seq(NetEvent) /\ Len(<<e>>) = 1
          /\ \A i \in 1..Len(<<e>>) : ~IsReceipt(<<e>>[i])
      BY <3>1
    <3>3. netEvents = <<e>>
      BY <2>2 DEF e
    <3> QED
      BY <3>2, <3>3, CapsAreNatural, CountOfNone
  <2> QED
    BY <1>4, <2>1, <2>2
<1>6. chat = << >> /\ Count(chat) = 0
  <2>1. chat = << >>
    BY DEF ClientInit
  <2> QED
    BY <2>1, CountOfNone
<1>7. ChannelsOK
  BY <1>4, <1>5, <1>6, CapsAreNatural DEF ClientInit, ChannelsOK
<1>8. ReceiptInv
  <2>1. acked = 0
    BY DEF ClientInit
  <2> QED
    BY <1>2, <1>5, <1>6, <2>1, FS_EmptySet DEF ReceiptInv
<1> QED
  BY <1>2, <1>3, <1>7, <1>8 DEF ClientInv

-----------------------------------------------------------------------------
(* The steps, as the task panel and the conversations see them *)

LEMMA PanelKept ==
  ASSUME PanelInv, ClientNext
  PROVE  PanelInv'
<1>1. CASE UNCHANGED taskVars
  BY <1>1 DEF taskVars, PanelInv, TaskPanelTypeOK, RowsAreSound, Numbers
<1>2. CASE SubmitLocalCommand
  <2>1. ASSUME InviteAgent PROVE PanelInv'
    BY <1>1, <2>1 DEF InviteAgent
  <2> QED
    BY <1>2, <2>1, TaskAddRows, TaskDoneRows, TaskDeleteRows DEF SubmitLocalCommand
<1>3. CASE MoveInPanel
  BY <1>1, <1>3, MoveRowRows, CycleStatusRows DEF MoveInPanel
<1>4. CASE NoKey \/ SubmitText \/ SubmitRefused \/ SubmitRoomCommand \/ DrainEvent \/ DrainDone
  <2>1. UNCHANGED taskVars
    BY <1>4 DEF NoKey, SubmitText, SubmitRefused, SubmitRoomCommand, DrainEvent, DrainDone,
                appVars
  <2> QED
    BY <1>1, <2>1
<1>5. CASE Network \/ Outage
  <2>1. UNCHANGED taskVars
    BY <1>5 DEF Network, HandleCommand, Forward, Acknowledged, Arrives, Emit, Reconnect,
                RoomJoined, Outage, appVars
  <2> QED
    BY <1>1, <2>1
<1> QED
  BY <1>2, <1>3, <1>4, <1>5 DEF ClientNext, MainLoop

\* A step takes a receipt from the events and makes at most one mark of it.
TakesReceipt == DrainEvent /\ IsReceipt(Head(netEvents))

Marks ==
  \/ Delivered' = Delivered
  \/ TakesReceipt /\ \E x : Delivered' = Delivered \cup {x}

LEMMA SameConversations ==
  ASSUME ConvInv, UNCHANGED convVars
  PROVE  ConvInv' /\ Marks
<1>1. /\ convs' = convs /\ selected' = selected /\ scroll' = scroll
      /\ messages' = messages /\ presence' = presence
  BY DEF convVars
<1>2. ConvRows'
  BY <1>1, ConvInvIsRows DEF ConvRows
<1>3. ConvInv'
  BY <1>2, ConvInvIsRows, PTL
<1>4. Delivered' = Delivered
  BY <1>1 DEF Delivered
<1> QED
  BY <1>3, <1>4 DEF Marks

LEMMA LinePushed ==
  ASSUME ConvInv, PushSystemMessage
  PROVE  ConvInv' /\ Marks
<1>1. ConvInv' /\ Marked(messages') = Marked(messages)
  BY AnnounceRows DEF PushSystemMessage
<1>2. Delivered' = Marked(messages')
  BY DEF Delivered, Marked
<1> QED
  BY <1>1, <1>2, DeliveredIsMarked DEF Marks

\* submit_message shows the text in the conversation on screen.
LEMMA TextShown ==
  ASSUME ConvInv, NEW l \in {<<"sending">>, <<"sending", "system">>},
         OnScreen(convs) # System, PushMessage(OnScreen(convs), l)
  PROVE  ConvInv' /\ Marks
<1> DEFINE c == OnScreen(convs)
<1>1. ConvRows
  BY ConvInvIsRows
<1>2. c \in Conversations
  <2>1. Listing(convs, selected) /\ c = Shown(convs, selected)
    BY <1>1 DEF ConvRows, Rowed, OnScreen, Shown
  <2>2. c \in Keys
    BY <2>1, ShownIsSelected
  <2> QED
    BY <2>2 DEF Keys
<1>3. l \in Seq(Message) /\ \A i \in 1..Len(l) : l[i] # "delivered"
  <2>1. CASE l = <<"sending">>
    BY <2>1 DEF Message
  <2>2. CASE l = <<"sending", "system">>
    BY <2>2 DEF Message
  <2> QED
    BY <2>1, <2>2
<1>4. ConvInv' /\ Marked(messages') = Marked(messages)
  BY <1>2, <1>3, PushRows
<1>5. Delivered' = Marked(messages')
  BY DEF Delivered, Marked
<1> QED
  BY <1>4, <1>5, DeliveredIsMarked DEF Marks

LEMMA EventShown ==
  ASSUME ConvInv, ChannelsOK, DrainEvent
  PROVE  ConvInv' /\ Marks
<1> DEFINE e == Head(netEvents)
<1>1. e \in NetEvent /\ netEvents # << >>
  <2>1. netEvents \in Seq(NetEvent) /\ netEvents # << >>
    BY DEF ChannelsOK, DrainEvent
  <2> QED
    BY <2>1, HeadTailProperties
<1>2. Delivered' = Marked(messages') /\ Delivered = Marked(messages)
  BY DEF Delivered, Marked
<1>3. ShowEvent(e)
  BY DEF DrainEvent
<1>4. e.kind = "delivered" => TakesReceipt
  BY DEF TakesReceipt, IsReceipt
<1> HIDE DEF e
<1>5. CASE e.kind = "message" /\ PushMessage(Direct(e.from), <<"theirs">>)
  <2> DEFINE l == <<"theirs">>
  <2>1. Direct(e.from) \in Conversations
    BY <1>1, <1>5 DEF NetEvent, Conversations
  <2>2. l \in Seq(Message) /\ \A i \in 1..Len(l) : l[i] # "delivered"
    BY DEF Message
  <2>3. ConvInv' /\ Marked(messages') = Marked(messages)
    BY <1>5, <2>1, <2>2, PushRows
  <2> QED
    BY <1>2, <2>3 DEF Marks
<1>6. CASE e.kind = "delivered" /\ MarkDelivered
  BY <1>2, <1>4, <1>6, MarkRows DEF Marks
<1>7. CASE PushSystemMessage
  BY <1>7, LinePushed
<1>8. CASE UNCHANGED convVars
  BY <1>8, SameConversations
<1>9. CASE e.kind = "presence" /\ SetPeerPresence(e.from, e.status)
  <2>1. e.from \in Remotes /\ e.status \in Presence
    BY <1>1, <1>9 DEF NetEvent
  <2>2. ConvInv'
    BY <1>9, <2>1, PresenceRows
  <2>3. messages' = messages
    BY <1>9 DEF SetPeerPresence
  <2> QED
    BY <1>2, <2>2, <2>3 DEF Marks
<1>10. CASE e.kind = "joined" /\ Announce(Added(convs, RoomConv(e.room)))
  <2>1. RoomConv(e.room) \in Conversations
    BY <1>1, <1>10 DEF NetEvent, Conversations
  <2>2. ConvInv' /\ Marked(messages') = Marked(messages)
    BY <1>10, <2>1, AnnounceRows
  <2> QED
    BY <1>2, <2>2 DEF Marks
<1> QED
  BY <1>3, <1>5, <1>6, <1>7, <1>8, <1>9, <1>10 DEF ShowEvent

LEMMA ConversationsKept ==
  ASSUME ConvInv, ChannelsOK, ClientNext
  PROVE  ConvInv' /\ Marks
<1>1. CASE SubmitText
  BY <1>1, TextShown, SameConversations DEF SubmitText
<1>2. CASE SubmitRefused \/ SubmitRoomCommand \/ SubmitLocalCommand
  BY <1>2, LinePushed, SameConversations
     DEF SubmitRefused, SubmitRoomCommand, SubmitLocalCommand
<1>3. CASE MoveInPanel
  <2>1. ASSUME SelectConversation \/ Scroll PROVE ConvInv' /\ Marks
    <3>1. messages' = messages
      BY <2>1 DEF SelectConversation, Scroll
    <3>2. Delivered' = Delivered
      BY <3>1 DEF Delivered
    <3> QED
      BY <2>1, <3>2, SelectRows, ScrollRows DEF Marks
  <2> QED
    BY <1>3, <2>1, SameConversations DEF MoveInPanel
<1>4. CASE DrainEvent
  BY <1>4, EventShown
<1>5. CASE NoKey \/ DrainDone \/ Network \/ Outage
  <2>1. UNCHANGED convVars
    BY <1>5 DEF NoKey, DrainDone, Network, HandleCommand, Forward, Acknowledged, Arrives,
                Emit, Reconnect, RoomJoined, Outage, appVars
  <2> QED
    BY <2>1, SameConversations
<1> QED
  BY <1>1, <1>2, <1>3, <1>4, <1>5 DEF ClientNext, MainLoop

-----------------------------------------------------------------------------
(* The steps, as the channels see them *)

\* The receipts on their way are no more than before, but for those of texts that
\* were acknowledged in this step. A receipt the main loop takes is one less.
Budget ==
  Count(chat') + Count(netEvents') + acked + (IF TakesReceipt THEN 1 ELSE 0)
    <= Count(chat) + Count(netEvents) + acked'

LEMMA EventsAreTyped ==
  ASSUME ChannelsOK
  PROVE  /\ ChatEvent \subseteq NetEvent
         /\ chat \in Seq(ChatEvent) /\ chat \in Seq(NetEvent) /\ netEvents \in Seq(NetEvent)
         /\ Count(chat) \in Nat /\ Count(netEvents) \in Nat
         /\ Len(chat) \in Nat /\ Len(netEvents) \in Nat
<1>1. ChatEvent \subseteq NetEvent
  BY DEF ChatEvent
<1>2. chat \in Seq(ChatEvent) /\ netEvents \in Seq(NetEvent)
  BY DEF ChannelsOK
<1>3. chat \in Seq(NetEvent)
  BY <1>1, <1>2, SeqMonotonic
<1> QED
  BY <1>1, <1>2, <1>3, CountIsNatural, LenProperties

\* What the network only reports is no receipt.
Reported == {"note", "up", "down", "reconnecting", "failed"}

LEMMA ReportedAppended ==
  ASSUME ChannelsOK, NEW list \in Seq(Reported), Report(list)
  PROVE  /\ netEvents' \in Seq(NetEvent) /\ Len(netEvents') <= EventCap
         /\ Count(netEvents') = Count(netEvents)
<1> DEFINE E(i) == [kind |-> list[i]]
           t == [i \in 1..Len(list) |-> E(i)]
<1>1. Len(list) \in Nat /\ DOMAIN list = 1..Len(list)
      /\ \A i \in 1..Len(list) : list[i] \in Reported
  BY LenProperties, ElementOfSeq
<1>2. netEvents' = netEvents \o t /\ Len(netEvents) + Len(list) <= EventCap
  BY <1>1 DEF Report
<1>3. \A i \in 1..Len(list) : E(i) \in NetEvent /\ ~IsReceipt(E(i))
  BY <1>1 DEF Reported, NetEvent, IsReceipt
<1> HIDE DEF E
<1>4. t \in Seq(NetEvent)
  BY <1>1, <1>3, IsASeq
<1>5. Len(t) = Len(list)
  BY <1>1, <1>4, LenProperties
<1>6. \A i \in 1..Len(t) : ~IsReceipt(t[i])
  BY <1>3, <1>5
<1> HIDE DEF t
<1>7. /\ netEvents \o t \in Seq(NetEvent) /\ Count(netEvents \o t) = Count(netEvents)
      /\ Len(netEvents \o t) = Len(netEvents) + Len(t)
  BY <1>4, <1>6, CountConcat, ConcatProperties, EventsAreTyped
<1> QED
  BY <1>2, <1>5, <1>7

LEMMA EventEmitted ==
  ASSUME ChannelsOK, NEW e \in ChatEvent
  PROVE  /\ Emitted(e) \in Seq(ChatEvent) /\ Len(Emitted(e)) <= ChatCap
         /\ Emitted(e) \in Seq(NetEvent) /\ Count(Emitted(e)) \in Nat
         /\ Count(Emitted(e)) <= Count(chat) + (IF IsReceipt(e) THEN 1 ELSE 0)
<1>1. /\ ChatEvent \subseteq NetEvent /\ chat \in Seq(ChatEvent) /\ chat \in Seq(NetEvent)
      /\ Count(chat) \in Nat /\ Len(chat) \in Nat /\ ChatCap \in Nat
  BY EventsAreTyped, CapsAreNatural
<1>2. CASE Len(chat) < ChatCap
  <2>1. Emitted(e) = Append(chat, e)
    BY <1>2 DEF Emitted
  <2>2. Append(chat, e) \in Seq(ChatEvent) /\ Len(Append(chat, e)) = Len(chat) + 1
    BY <1>1, AppendProperties
  <2>3. /\ Append(chat, e) \in Seq(NetEvent)
        /\ Count(Append(chat, e)) = Count(chat) + (IF IsReceipt(e) THEN 1 ELSE 0)
    BY <1>1, CountAppend
  <2> QED
    BY <1>1, <1>2, <2>1, <2>2, <2>3
<1>3. CASE ~(Len(chat) < ChatCap)
  <2>1. Emitted(e) = chat
    BY <1>3 DEF Emitted
  <2> QED
    BY <1>1, <2>1 DEF ChannelsOK
<1> QED
  BY <1>2, <1>3

LEMMA QuietIsChat ==
  /\ [kind |-> "quiet"] \in ChatEvent /\ ~IsReceipt([kind |-> "quiet"])
  /\ [kind |-> "delivered"] \in ChatEvent
  BY DEF ChatEvent, NetEvent, IsReceipt

\* The keys change the command channel only, and what is counted.
LEMMA KeyKeepsChannels ==
  ASSUME ChannelsOK, Key, UNCHANGED <<online, outages>>,
         commands' \in {commands, Append(commands, "text"), Append(commands, "room")},
         commands' # commands => Len(commands) < CmdCap
  PROVE  ChannelsOK' /\ Budget
<1>1. /\ chat' = chat /\ netEvents' = netEvents /\ acked' = acked /\ unacked' = unacked
      /\ session' = session /\ connected' = connected /\ queued' = queued
      /\ arrivals' = arrivals /\ loop' = "drain" /\ keys' = keys + 1 /\ keys < MaxKeys
      /\ loop = "key"
  BY DEF Key, chatVars
<1>2. ~TakesReceipt
  BY <1>1 DEF TakesReceipt, DrainEvent
<1>3. Budget
  BY <1>1, <1>2, EventsAreTyped DEF Budget, ChannelsOK
<1>4. commands' \in Seq(CommandKinds) /\ Len(commands') <= CmdCap
  <2>1. commands \in Seq(CommandKinds) /\ "text" \in CommandKinds /\ "room" \in CommandKinds
    BY DEF ChannelsOK, CommandKinds
  <2>2. CASE commands' = commands
    BY <2>2 DEF ChannelsOK
  <2>3. ASSUME NEW c \in CommandKinds, commands' = Append(commands, c), Len(commands) < CmdCap
        PROVE  commands' \in Seq(CommandKinds) /\ Len(commands') <= CmdCap
    <3>1. /\ Append(commands, c) \in Seq(CommandKinds)
          /\ Len(Append(commands, c)) = Len(commands) + 1 /\ Len(commands) \in Nat
      BY <2>1, AppendProperties, LenProperties
    <3> QED
      BY <2>3, <3>1, CapsAreNatural
  <2> QED
    BY <2>1, <2>2, <2>3
<1>5. keys' \in 0..MaxKeys
  BY <1>1, CapsAreNatural DEF ChannelsOK
<1>6. ChannelsOK'
  BY <1>1, <1>4, <1>5 DEF ChannelsOK
<1> QED
  BY <1>3, <1>6

LEMMA CommandDispatched ==
  ASSUME NEW c, Dispatch(c)
  PROVE  commands' \in {commands, Append(commands, c)}
         /\ (commands' # commands => Len(commands) < CmdCap)
  BY DEF Dispatch, Accepted

LEMMA KeysKeepChannels ==
  ASSUME ChannelsOK, UNCHANGED <<online, outages>>,
         MoveInPanel \/ SubmitText \/ SubmitRefused \/ SubmitRoomCommand
           \/ SubmitLocalCommand
  PROVE  ChannelsOK' /\ Budget
<1>1. Key
  BY DEF MoveInPanel, SubmitText, SubmitRefused, SubmitRoomCommand, SubmitLocalCommand
<1>2. commands' = commands \/ Dispatch("text") \/ Dispatch("room")
  BY DEF MoveInPanel, SubmitText, SubmitRefused, SubmitRoomCommand, SubmitLocalCommand
<1> QED
  BY <1>1, <1>2, CommandDispatched, KeyKeepsChannels

LEMMA DrainKeepsChannels ==
  ASSUME ChannelsOK, UNCHANGED <<online, outages>>, DrainEvent
  PROVE  ChannelsOK' /\ Budget
<1>1. /\ chat' = chat /\ acked' = acked /\ unacked' = unacked /\ session' = session
      /\ loop' = loop /\ commands' = commands /\ queued' = queued /\ keys' = keys
      /\ arrivals' = arrivals /\ netEvents' = Tail(netEvents) /\ netEvents # << >>
  BY DEF DrainEvent, chatVars
<1>2. /\ Tail(netEvents) \in Seq(NetEvent)
      /\ Len(Tail(netEvents)) = Len(netEvents) - 1 /\ Len(netEvents) \in Nat
      /\ Count(netEvents) = Count(Tail(netEvents))
                              + (IF IsReceipt(Head(netEvents)) THEN 1 ELSE 0)
  BY <1>1, CountTail, HeadTailProperties, LenProperties, EventsAreTyped
<1>3. Count(Tail(netEvents)) \in Nat /\ Count(chat) \in Nat /\ acked \in Nat
  BY <1>2, CountIsNatural, EventsAreTyped DEF ChannelsOK
<1>4. TakesReceipt <=> IsReceipt(Head(netEvents))
  BY DEF TakesReceipt
<1>5. Budget
  BY <1>1, <1>2, <1>3, <1>4 DEF Budget
<1>6. connected' \in BOOLEAN
  BY DEF DrainEvent, ShowEvent, ChannelsOK
<1>7. Len(Tail(netEvents)) <= EventCap
  BY <1>2, CapsAreNatural DEF ChannelsOK
<1>8. ChannelsOK'
  BY <1>1, <1>2, <1>6, <1>7 DEF ChannelsOK
<1> QED
  BY <1>5, <1>8

\* What a step of the network may do, if it is none of the main loop's.
Balanced ==
  Count(chat') + Count(netEvents') + acked <= Count(chat) + Count(netEvents) + acked'

QueuesKept ==
  /\ commands' = commands \/ (commands # << >> /\ commands' = Tail(commands))
  /\ netEvents' \in Seq(NetEvent) /\ Len(netEvents') <= EventCap
  /\ chat' \in Seq(ChatEvent) /\ Len(chat') <= ChatCap

CountersKept ==
  /\ session' \in {"up", "down", "gone"} /\ queued' \in 0..OfflineCap
  /\ unacked' \in Nat /\ acked' \in Nat
  /\ arrivals' = arrivals \/ (arrivals < MaxArrivals /\ arrivals' = arrivals + 1)
  /\ outages' = outages \/ (outages < MaxOutages /\ outages' = outages + 1)

NetworkStep ==
  /\ UNCHANGED <<online, loop, connected, keys>> /\ ~DrainEvent
  /\ QueuesKept /\ CountersKept /\ Balanced

LEMMA NetworkKeepsChannels ==
  ASSUME ChannelsOK, NetworkStep
  PROVE  ChannelsOK' /\ Budget
<1>1. commands' \in Seq(CommandKinds) /\ Len(commands') <= CmdCap
  <2>1. commands \in Seq(CommandKinds) /\ Len(commands) <= CmdCap /\ CmdCap \in Nat
    BY CapsAreNatural DEF ChannelsOK
  <2>2. CASE commands # << >> /\ commands' = Tail(commands)
    <3>1. /\ Tail(commands) \in Seq(CommandKinds)
          /\ Len(Tail(commands)) = Len(commands) - 1 /\ Len(commands) \in Nat
      BY <2>1, <2>2, HeadTailProperties, LenProperties
    <3> QED
      BY <2>1, <2>2, <3>1
  <2>3. commands' = commands \/ (commands # << >> /\ commands' = Tail(commands))
    BY DEF NetworkStep, QueuesKept
  <2> QED
    BY <2>1, <2>2, <2>3
<1>2. arrivals' \in 0..MaxArrivals /\ outages' \in 0..MaxOutages
  <2>1. /\ arrivals \in 0..MaxArrivals /\ outages \in 0..MaxOutages
        /\ MaxArrivals \in Nat /\ MaxOutages \in Nat
    BY CapsAreNatural DEF ChannelsOK
  <2>2. /\ arrivals' = arrivals \/ (arrivals < MaxArrivals /\ arrivals' = arrivals + 1)
        /\ outages' = outages \/ (outages < MaxOutages /\ outages' = outages + 1)
    BY DEF NetworkStep, CountersKept
  <2> QED
    BY <2>1, <2>2
<1>3. /\ online' = online /\ loop' = loop /\ connected' = connected /\ keys' = keys
      /\ netEvents' \in Seq(NetEvent) /\ Len(netEvents') <= EventCap
      /\ chat' \in Seq(ChatEvent) /\ Len(chat') <= ChatCap
      /\ session' \in {"up", "down", "gone"} /\ queued' \in 0..OfflineCap
      /\ unacked' \in Nat /\ acked' \in Nat
  BY DEF NetworkStep, QueuesKept, CountersKept
<1>4. ChannelsOK'
  BY <1>1, <1>2, <1>3 DEF ChannelsOK
<1>5. /\ Count(chat) \in Nat /\ Count(netEvents) \in Nat /\ acked \in Nat /\ acked' \in Nat
      /\ Count(chat') \in Nat /\ Count(netEvents') \in Nat
  <2>1. chat' \in Seq(NetEvent)
    BY <1>3, EventsAreTyped, SeqMonotonic
  <2> QED
    BY <1>3, <2>1, EventsAreTyped, CountIsNatural DEF ChannelsOK
<1>6. ~TakesReceipt /\ Balanced
  BY DEF TakesReceipt, NetworkStep
<1>7. Budget
  BY <1>5, <1>6 DEF Budget, Balanced
<1> QED
  BY <1>4, <1>7

LEMMA CommandKeepsChannels ==
  ASSUME ChannelsOK, UNCHANGED <<online, outages>>, ~DrainEvent, HandleCommand
  PROVE  NetworkStep
<1>1. /\ loop' = loop /\ connected' = connected /\ keys' = keys /\ arrivals' = arrivals
      /\ session' = session /\ acked' = acked
      /\ commands # << >> /\ commands' = Tail(commands)
  BY DEF HandleCommand
<1>2. /\ Count(chat) \in Nat /\ Count(netEvents) \in Nat /\ acked \in Nat
      /\ unacked \in Nat /\ queued \in 0..OfflineCap
  BY EventsAreTyped DEF ChannelsOK
<1>3. ASSUME UNCHANGED <<netEvents, queued>>, chat' = Emitted([kind |-> "quiet"]),
             unacked' = unacked + 1
      PROVE  QueuesKept /\ CountersKept /\ Balanced
  <2>1. /\ chat' \in Seq(ChatEvent) /\ Len(chat') <= ChatCap
        /\ Count(chat') \in Nat /\ Count(chat') <= Count(chat) + 0
    BY <1>3, EventEmitted, QuietIsChat
  <2>2. QueuesKept
    BY <1>1, <1>3, <2>1 DEF QueuesKept, ChannelsOK
  <2>3. CountersKept
    BY <1>1, <1>2, <1>3 DEF CountersKept, ChannelsOK
  <2>4. Balanced
    BY <1>1, <1>2, <1>3, <2>1 DEF Balanced
  <2> QED
    BY <2>2, <2>3, <2>4
<1>4. ASSUME UNCHANGED <<chat, unacked>>, Report(<<"note">>) \/ netEvents' = netEvents,
             queued' \in 0..OfflineCap
      PROVE  QueuesKept /\ CountersKept /\ Balanced
  <2>1. <<"note">> \in Seq(Reported)
    BY DEF Reported
  <2>2. /\ netEvents' \in Seq(NetEvent) /\ Len(netEvents') <= EventCap
        /\ Count(netEvents') = Count(netEvents)
    <3>1. CASE netEvents' = netEvents
      BY <3>1 DEF ChannelsOK
    <3> QED
      BY <1>4, <2>1, <3>1, ReportedAppended
  <2>3. QueuesKept
    BY <1>1, <1>4, <2>2 DEF QueuesKept, ChannelsOK
  <2>4. CountersKept
    BY <1>1, <1>2, <1>4 DEF CountersKept, ChannelsOK
  <2>5. Balanced
    BY <1>1, <1>2, <1>4, <2>2 DEF Balanced
  <2> QED
    BY <2>3, <2>4, <2>5
<1>5. (IF queued < OfflineCap THEN queued + 1 ELSE queued) \in 0..OfflineCap
  BY <1>2, CapsAreNatural
<1>6. QueuesKept /\ CountersKept /\ Balanced
  BY <1>2, <1>3, <1>4, <1>5 DEF HandleCommand, HandleRoomCommand, SendRoomMessage
<1> QED
  BY <1>1, <1>6 DEF NetworkStep

LEMMA EmitKeepsChannels ==
  ASSUME ChannelsOK, UNCHANGED <<online, outages>>, ~DrainEvent, NEW e \in ChatEvent, Emit(e),
         unacked' \in Nat,
         arrivals' = arrivals \/ (arrivals < MaxArrivals /\ arrivals' = arrivals + 1),
         acked' = IF IsReceipt(e) THEN acked + 1 ELSE acked
  PROVE  NetworkStep
<1>1. /\ loop' = loop /\ connected' = connected /\ keys' = keys /\ session' = session
      /\ commands' = commands /\ netEvents' = netEvents /\ queued' = queued
      /\ chat' = Emitted(e)
  BY DEF Emit
<1>2. /\ chat' \in Seq(ChatEvent) /\ Len(chat') <= ChatCap /\ Count(chat') \in Nat
      /\ Count(chat') <= Count(chat) + (IF IsReceipt(e) THEN 1 ELSE 0)
  BY <1>1, EventEmitted
<1>3. /\ Count(chat) \in Nat /\ Count(netEvents) \in Nat /\ acked \in Nat
  BY EventsAreTyped DEF ChannelsOK
<1>4. acked' \in Nat /\ acked' = acked + (IF IsReceipt(e) THEN 1 ELSE 0)
  BY <1>3
<1>5. QueuesKept
  BY <1>1, <1>2 DEF QueuesKept, ChannelsOK
<1>6. CountersKept
  BY <1>1, <1>4 DEF CountersKept, ChannelsOK
<1>7. Balanced
  BY <1>1, <1>2, <1>3, <1>4 DEF Balanced
<1> QED
  BY <1>1, <1>5, <1>6, <1>7 DEF NetworkStep

LEMMA ArrivalsKeepChannels ==
  ASSUME ChannelsOK, UNCHANGED <<online, outages>>, ~DrainEvent, Acknowledged \/ Arrives
  PROVE  NetworkStep
<1>1. unacked \in Nat
  BY DEF ChannelsOK
<1>2. CASE Acknowledged
  <2>1. /\ unacked' \in Nat /\ arrivals' = arrivals /\ acked' = acked + 1
        /\ Emit([kind |-> "delivered"])
    BY <1>1, <1>2 DEF Acknowledged
  <2>2. IsReceipt([kind |-> "delivered"])
    BY DEF IsReceipt
  <2> QED
    BY <2>1, <2>2, QuietIsChat, EmitKeepsChannels
<1>3. CASE Arrives
  <2>1. /\ unacked' \in Nat /\ acked' = acked
        /\ arrivals < MaxArrivals /\ arrivals' = arrivals + 1
    BY <1>1, <1>3 DEF Arrives
  <2>2. PICK e \in ChatEvent : Emit(e) /\ ~IsReceipt(e)
    <3>1. PICK p \in Remotes :
            \/ Emit([kind |-> "message", from |-> p])
            \/ \E s \in {"Online", "Offline"} :
                 Emit([kind |-> "presence", from |-> p, status |-> s])
            \/ Emit([kind |-> "quiet"])
      BY <1>3 DEF Arrives
    <3>2. /\ [kind |-> "message", from |-> p] \in ChatEvent
          /\ ~IsReceipt([kind |-> "message", from |-> p])
      BY DEF ChatEvent, NetEvent, IsReceipt
    <3>3. ASSUME NEW s \in {"Online", "Offline"}
          PROVE  /\ [kind |-> "presence", from |-> p, status |-> s] \in ChatEvent
                 /\ ~IsReceipt([kind |-> "presence", from |-> p, status |-> s])
      BY DEF ChatEvent, NetEvent, IsReceipt, Presence
    <3> QED
      BY <3>1, <3>2, <3>3, QuietIsChat
  <2> QED
    BY <2>1, <2>2, EmitKeepsChannels
<1> QED
  BY <1>2, <1>3

LEMMA ForwardKeepsChannels ==
  ASSUME ChannelsOK, UNCHANGED <<online, outages>>, ~DrainEvent, Forward
  PROVE  NetworkStep
<1>1. /\ loop' = loop /\ connected' = connected /\ keys' = keys /\ session' = session
      /\ commands' = commands /\ queued' = queued /\ unacked' = unacked /\ acked' = acked
      /\ arrivals' = arrivals /\ chat # << >> /\ chat' = Tail(chat)
      /\ Len(netEvents) < EventCap /\ netEvents' = Append(netEvents, Head(chat))
  BY DEF Forward
<1>2. /\ ChatEvent \subseteq NetEvent /\ chat \in Seq(ChatEvent) /\ chat \in Seq(NetEvent)
      /\ netEvents \in Seq(NetEvent) /\ Len(chat) \in Nat /\ Len(netEvents) \in Nat
      /\ Count(chat) \in Nat /\ Count(netEvents) \in Nat
      /\ EventCap \in Nat /\ ChatCap \in Nat
  BY EventsAreTyped, CapsAreNatural
<1>3. /\ Tail(chat) \in Seq(ChatEvent) /\ Len(Tail(chat)) = Len(chat) - 1
      /\ Head(chat) \in NetEvent
  BY <1>1, <1>2, HeadTailProperties
<1>4. Count(chat) = Count(Tail(chat)) + (IF IsReceipt(Head(chat)) THEN 1 ELSE 0)
  BY <1>1, <1>2, CountTail
<1>5. Count(Tail(chat)) \in Nat
  BY <1>2, <1>3, SeqMonotonic, CountIsNatural
<1>6. /\ netEvents' \in Seq(NetEvent) /\ Len(netEvents') = Len(netEvents) + 1
      /\ Count(netEvents') = Count(netEvents) + (IF IsReceipt(Head(chat)) THEN 1 ELSE 0)
  BY <1>1, <1>2, <1>3, CountAppend, AppendProperties
<1>7. Len(netEvents') <= EventCap /\ Len(chat') <= ChatCap
  BY <1>1, <1>2, <1>3, <1>6 DEF ChannelsOK
<1>8. QueuesKept
  BY <1>1, <1>3, <1>6, <1>7 DEF QueuesKept
<1>9. CountersKept
  BY <1>1 DEF CountersKept, ChannelsOK
<1>10. Balanced
  <2>1. acked \in Nat
    BY DEF ChannelsOK
  <2> QED
    BY <1>1, <1>2, <1>4, <1>5, <1>6, <2>1 DEF Balanced
<1> QED
  BY <1>1, <1>8, <1>9, <1>10 DEF NetworkStep

\* The manager's channel is emptied, or holds what the new one says of texts sent.
LEMMA SessionKeepsChannels ==
  ASSUME ChannelsOK, UNCHANGED online, ~DrainEvent,
         Outage \/ (Reconnect /\ UNCHANGED outages)
  PROVE  NetworkStep
<1>1. /\ loop' = loop /\ connected' = connected /\ keys' = keys /\ acked' = acked
      /\ commands' = commands /\ arrivals' = arrivals
      /\ session' \in {"up", "down", "gone"}
      /\ outages' = outages \/ (outages < MaxOutages /\ outages' = outages + 1)
  BY DEF Outage, Reconnect
<1>2. /\ Count(chat) \in Nat /\ Count(netEvents) \in Nat /\ acked \in Nat
      /\ unacked \in Nat /\ queued \in 0..OfflineCap /\ queued \in Nat
      /\ OfflineCap \in Nat /\ ChatCap \in Nat
  BY EventsAreTyped, CapsAreNatural DEF ChannelsOK
<1>3. unacked' \in Nat /\ queued' \in 0..OfflineCap
  BY <1>2 DEF Outage, Reconnect
<1>4. /\ netEvents' \in Seq(NetEvent) /\ Len(netEvents') <= EventCap
      /\ Count(netEvents') = Count(netEvents)
  <2>1. \E list \in {<<"down", "down">>, <<"reconnecting", "up">>,
                     <<"reconnecting", "failed">>} : Report(list)
    BY DEF Outage, Reconnect
  <2>2. /\ <<"down", "down">> \in Seq(Reported)
        /\ <<"reconnecting", "up">> \in Seq(Reported)
        /\ <<"reconnecting", "failed">> \in Seq(Reported)
    BY DEF Reported
  <2> QED
    BY <2>1, <2>2, ReportedAppended
<1>5. chat' \in Seq(ChatEvent) /\ Len(chat') <= ChatCap /\ Count(chat') <= Count(chat)
      /\ Count(chat') \in Nat
  <2>1. CASE chat' = chat
    BY <1>2, <2>1 DEF ChannelsOK
  <2>2. CASE chat' = << >>
    BY <1>2, <2>2, CountOfNone
  <2> DEFINE m == Min({queued, ChatCap})
             quiet == [kind |-> "quiet"]
             t == [i \in 1..m |-> quiet]
  <2>3. m \in Nat /\ m <= ChatCap
    <3>1. {queued, ChatCap} \subseteq Nat /\ {queued, ChatCap} # {}
      BY <1>2
    <3> QED
      BY <1>2, <3>1, MinIsLeast
  <2> HIDE DEF m, quiet
  <2>4. CASE chat' = t
    <3>1. quiet \in ChatEvent /\ ~IsReceipt(quiet)
      BY QuietIsChat DEF quiet
    <3>2. t \in Seq(ChatEvent) /\ Len(t) = m /\ \A i \in 1..m : t[i] = quiet
      BY <2>3, <3>1
    <3> HIDE DEF t
    <3>3. Count(t) = 0
      BY <3>1, <3>2, CountOfNone
    <3> QED
      BY <1>2, <2>3, <2>4, <3>2, <3>3
  <2>5. chat' = << >> \/ chat' = t \/ chat' = chat
    BY DEF Outage, Reconnect, m, quiet
  <2> QED
    BY <2>1, <2>2, <2>4, <2>5
<1>6. QueuesKept
  BY <1>1, <1>4, <1>5 DEF QueuesKept
<1>7. CountersKept
  BY <1>1, <1>2, <1>3 DEF CountersKept
<1>8. Balanced
  BY <1>1, <1>2, <1>4, <1>5 DEF Balanced
<1> QED
  BY <1>1, <1>6, <1>7, <1>8 DEF NetworkStep

LEMMA JoinedKeepsChannels ==
  ASSUME ChannelsOK, UNCHANGED <<online, outages>>, ~DrainEvent, RoomJoined
  PROVE  NetworkStep
<1>1. /\ loop' = loop /\ connected' = connected /\ keys' = keys /\ acked' = acked
      /\ commands' = commands /\ session' = session /\ chat' = chat
      /\ unacked' = unacked /\ queued' = queued
      /\ arrivals < MaxArrivals /\ arrivals' = arrivals + 1
      /\ Len(netEvents) < EventCap
  BY DEF RoomJoined, chatVars
<1>2. PICK n \in Rooms : netEvents' = Append(netEvents, [kind |-> "joined", room |-> n])
  BY DEF RoomJoined
<1> DEFINE e == [kind |-> "joined", room |-> n]
<1>3. e \in NetEvent /\ ~IsReceipt(e)
  BY DEF NetEvent, IsReceipt
<1> HIDE DEF e
<1>4. netEvents' = Append(netEvents, e)
  BY <1>2 DEF e
<1>5. /\ netEvents \in Seq(NetEvent) /\ Len(netEvents) \in Nat /\ EventCap \in Nat
      /\ Count(netEvents) \in Nat /\ Count(chat) \in Nat /\ acked \in Nat
  BY EventsAreTyped, CapsAreNatural DEF ChannelsOK
<1>6. /\ netEvents' \in Seq(NetEvent) /\ Len(netEvents') = Len(netEvents) + 1
      /\ Count(netEvents') = Count(netEvents)
  BY <1>3, <1>4, <1>5, CountAppend, AppendProperties
<1>7. QueuesKept
  BY <1>1, <1>5, <1>6 DEF QueuesKept, ChannelsOK
<1>8. CountersKept
  BY <1>1 DEF CountersKept, ChannelsOK
<1>9. Balanced
  BY <1>1, <1>5, <1>6 DEF Balanced
<1> QED
  BY <1>1, <1>7, <1>8, <1>9 DEF NetworkStep

LEMMA ChannelsKept ==
  ASSUME ChannelsOK, ClientNext
  PROVE  ChannelsOK' /\ Budget
<1>1. online' = online /\ (Outage \/ UNCHANGED outages)
  BY DEF ClientNext
<1>2. CASE DrainEvent /\ UNCHANGED outages
  BY <1>1, <1>2, DrainKeepsChannels
<1>3. CASE (MoveInPanel \/ SubmitText \/ SubmitRefused \/ SubmitRoomCommand
              \/ SubmitLocalCommand) /\ UNCHANGED outages
  BY <1>1, <1>3, KeysKeepChannels
<1>4. CASE (NoKey \/ DrainDone) /\ UNCHANGED outages
  <2>1. /\ UNCHANGED <<chatVars, connected, commands, netEvents, queued, keys, arrivals>>
        /\ loop' \in {"drain", "key"} /\ ~(DrainEvent)
    BY <1>4 DEF NoKey, DrainDone, DrainEvent
  <2>2. /\ connected' = connected /\ commands' = commands /\ netEvents' = netEvents
        /\ session' = session /\ chat' = chat /\ queued' = queued /\ unacked' = unacked
        /\ acked' = acked /\ keys' = keys /\ arrivals' = arrivals
        /\ online' = online /\ outages' = outages
    BY <1>1, <1>4, <2>1 DEF chatVars
  <2>3. ChannelsOK'
    BY <2>1, <2>2 DEF ChannelsOK
  <2>4. Budget
    <3>1. Count(chat) \in Nat /\ Count(netEvents) \in Nat /\ acked \in Nat
      BY EventsAreTyped DEF ChannelsOK
    <3> QED
      BY <2>1, <2>2, <3>1 DEF Budget, TakesReceipt
  <2> QED
    BY <2>3, <2>4
<1>5. CASE ~DrainEvent /\ Network /\ UNCHANGED outages
  <2>1. NetworkStep
    BY <1>1, <1>5, CommandKeepsChannels, ForwardKeepsChannels, ArrivalsKeepChannels,
       SessionKeepsChannels, JoinedKeepsChannels DEF Network
  <2> QED
    BY <2>1, NetworkKeepsChannels
<1>6. CASE Outage
  <2>1. ~DrainEvent
    BY <1>6 DEF Outage, DrainEvent, chatVars
  <2>2. NetworkStep
    BY <1>1, <1>6, <2>1, SessionKeepsChannels
  <2> QED
    BY <2>2, NetworkKeepsChannels
<1> QED
  BY <1>2, <1>3, <1>4, <1>5, <1>6 DEF ClientNext, MainLoop

\* A mark costs a receipt, a receipt an acknowledgment.
LEMMA ReceiptsKept ==
  ASSUME ChannelsOK, ChannelsOK', ReceiptInv, Marks, Budget
  PROVE  ReceiptInv'
<1> DEFINE D == Delivered
           cost == IF TakesReceipt THEN 1 ELSE 0
           before == Count(chat) + Count(netEvents)
           after == Count(chat') + Count(netEvents')
<1>1. /\ Count(chat) \in Nat /\ Count(netEvents) \in Nat
      /\ acked \in Nat /\ acked' \in Nat
  BY EventsAreTyped DEF ChannelsOK
<1>2. chat' \in Seq(NetEvent) /\ netEvents' \in Seq(NetEvent)
  BY EventsAreTyped, SeqMonotonic DEF ChannelsOK
<1>3. Count(chat') \in Nat /\ Count(netEvents') \in Nat
  BY <1>2, CountIsNatural
<1>4. IsFiniteSet(D) /\ Cardinality(D) \in Nat /\ Cardinality(D) + before <= acked
  BY <1>1, FS_CardinalityType DEF ReceiptInv
<1>5. /\ IsFiniteSet(D') /\ Cardinality(D') \in Nat
      /\ Cardinality(D') <= Cardinality(D) + cost
  <2>1. CASE D' = D
    BY <1>4, <2>1
  <2>2. ASSUME NEW x, TakesReceipt, D' = D \cup {x}
        PROVE  /\ IsFiniteSet(D') /\ Cardinality(D') \in Nat
               /\ Cardinality(D') <= Cardinality(D) + cost
    <3>1. PICK S : S = D
      OBVIOUS
    <3>2. IsFiniteSet(S) /\ Cardinality(S) \in Nat
      BY <1>4, <3>1
    <3>3. /\ IsFiniteSet(S \cup {x}) /\ Cardinality(S \cup {x}) \in Nat
          /\ Cardinality(S \cup {x}) <= Cardinality(S) + 1
      BY <3>2, FS_AddElement
    <3> QED
      BY <2>2, <3>1, <3>3
  <2> QED
    BY <2>1, <2>2 DEF Marks
<1>6. after + acked + cost <= before + acked'
  BY <1>1, <1>3 DEF Budget
<1>7. Cardinality(D') + Count(chat') + Count(netEvents') <= acked'
  <2>1. PICK b \in Nat, a \in Nat, k \in Nat : b = before /\ a = after /\ k = cost
    BY <1>1, <1>3
  <2>2. PICK d \in Nat, e \in Nat : d = Cardinality(D) /\ e = Cardinality(D')
    BY <1>4, <1>5
  <2>3. PICK p \in Nat, q \in Nat : p = acked /\ q = acked'
    BY <1>1
  <2>4. d + b <= p /\ e <= d + k /\ a + p + k <= b + q
    BY <1>4, <1>5, <1>6, <2>1, <2>2, <2>3
  <2>5. e + a <= q
    BY <2>4
  <2> HIDE DEF D
  <2> QED
    BY <1>3, <2>1, <2>2, <2>3, <2>5
<1> QED
  BY <1>5, <1>7 DEF ReceiptInv

LEMMA ClientInvKept == ClientInv /\ [ClientNext]_clientVars => ClientInv'
<1> SUFFICES ASSUME ClientInv, [ClientNext]_clientVars PROVE ClientInv'
  OBVIOUS
<1>1. CASE ClientNext
  <2>1. PanelInv /\ ConvInv /\ ChannelsOK /\ ReceiptInv
    BY DEF ClientInv
  <2>2. PanelInv'
    BY <1>1, <2>1, PanelKept
  <2>3. ConvInv' /\ Marks
    BY <1>1, <2>1, ConversationsKept
  <2>4. ChannelsOK' /\ Budget
    BY <1>1, <2>1, ChannelsKept
  <2>5. ReceiptInv'
    BY <2>1, <2>3, <2>4, ReceiptsKept
  <2> QED
    BY <2>2, <2>3, <2>4, <2>5 DEF ClientInv
<1>2. CASE UNCHANGED clientVars
  <2>1. PanelInv'
    BY <1>2 DEF clientVars, appVars, taskVars, ClientInv, PanelInv, TaskPanelTypeOK,
                RowsAreSound
  <2>2. ConvInv'
    BY <1>2, SameConversations DEF clientVars, appVars, ClientInv
  <2>3. ChannelsOK'
    BY <1>2 DEF clientVars, chatVars, ClientInv, ChannelsOK
  <2>4. ReceiptInv'
    BY <1>2 DEF clientVars, chatVars, appVars, convVars, ClientInv, ReceiptInv, Delivered,
                Count, Receipts
  <2> QED
    BY <2>1, <2>2, <2>3, <2>4 DEF ClientInv
<1> QED
  BY <1>1, <1>2

-----------------------------------------------------------------------------
(* Theorems about the client as its user sees it *)

\* The invariant of the client: ClientTypeOK and ScreenIsTrue, with the receipts that
\* are still on their way.
THEOREM ClientInvHolds == ClientSpec => []ClientInv
<1> QED
  BY ClientStarts, ClientInvKept, PTL DEF ClientSpec

\* app.rs, main.rs: the selected row and the selected conversation exist, however the
\* tasks and the conversations come and go, a number means one task, nothing is
\* scrolled out of sight, and no channel holds more than it can.
THEOREM ClientTypeCorrect == ClientSpec => []ClientTypeOK
<1> QED
  BY ClientInvHolds, ClientInvImplies, PTL

\* drain_net_events, chat_event_forwarder, MarkDelivered: whatever is lost, aborted
\* or reordered behind it, the screen shows no more messages as delivered than were
\* acknowledged, counts as unread only what is new and another peer's, and shows of a
\* peer the last that was heard, or nothing.
THEOREM ScreenTellsTheTruth == ClientSpec => []ScreenIsTrue
<1> QED
  BY ClientInvHolds, ClientInvImplies, PTL
===============================================================================
