--------------------------- MODULE ConversationList ---------------------------
(***************************************************************************)
(* The conversations of App: the sidebar with its unread counts and        *)
(* presence, the messages of each conversation, which one is on screen and *)
(* how far it is scrolled. (Who is typing is left out.)                    *)
(*                                                                         *)
(* A message is what the screen tells apart: an own one that is being sent *)
(* or was delivered, another peer's, or one of the program itself.         *)
(***************************************************************************)
EXTENDS Naturals, Sequences, SequencesExt, FiniteSetsExt, Functions

CONSTANTS
  Remotes,   \* peers
  Rooms      \* names of rooms

\* "@ peer" and "# room"; the messages of no conversation are in "__system__".
Direct(p) == <<"@", p>>
RoomConv(n) == <<"#", n>>
Conversations == {Direct(p) : p \in Remotes} \cup {RoomConv(n) : n \in Rooms}
System == <<"__system__">>

Message == {"sending", "delivered", "theirs", "system"}
Presence == {"Online", "Away", "Offline", "unknown"}

VARIABLES
  convs,         \* App::conversations
  selected,      \* selected_conversation
  scroll,        \* message_scroll
  messages,      \* App::messages, of every conversation
  presence       \* presence_map

convVars == <<convs, selected, scroll, messages, presence>>

ConvItem == [name : Conversations, unread : Nat, presence : Presence]
Keys == Conversations \cup {System}

ConversationTypeOK ==
  /\ convs \in Seq(ConvItem)
  /\ selected \in Nat /\ scroll \in Nat
  /\ messages \in [Keys -> Seq(Message)]
  /\ presence \in [Remotes -> Presence]

\* selected_conversation_name, with the key that stands for none.
OnScreen(list) == IF selected < Len(list) THEN list[selected + 1].name ELSE System

\* App::new; run_app adds the conversation of the remote peer, if it has one, with
\* the line about the connection.
ConversationInit(list) ==
  /\ convs = [i \in DOMAIN list |-> [name |-> Direct(list[i]), unread |-> 0,
                                     presence |-> "unknown"]]
  /\ selected = 0 /\ scroll = 0
  /\ messages = [k \in Keys |-> IF k \in {Direct(list[i]) : i \in DOMAIN list}
                                THEN <<"system">> ELSE << >>]
  /\ presence = [p \in Remotes |-> "unknown"]

-----------------------------------------------------------------------------
(* Helpers *)

Has(list, c) == \E i \in DOMAIN list : list[i].name = c

\* add_conversation: nothing if it is there already.
Added(list, c) ==
  IF Has(list, c) THEN list
  ELSE Append(list, [name |-> c, unread |-> 0, presence |-> "unknown"])

Bottom(list, c) == IF list[c] = << >> THEN 0 ELSE Len(list[c]) - 1

\* current_messages is empty if there is no conversation to show.
ScrolledDown(list, msgs) ==
  IF OnScreen(list) = System THEN 0 ELSE Bottom(msgs, OnScreen(list))

-----------------------------------------------------------------------------
(* Operations *)

\* push_message, and the scrolling both callers do after it: the conversation is
\* created if need be, and counts the message as unread unless it is on screen.
\* An own message may be followed by a line of the program.
PushMessage(c, lines) ==
  LET list == Added(convs, c) IN
  /\ convs' = [i \in DOMAIN list |->
                 IF list[i].name = c /\ c # OnScreen(list)
                 THEN [list[i] EXCEPT !.unread = @ + 1] ELSE list[i]]
  /\ messages' = [messages EXCEPT ![c] = @ \o lines]
  /\ scroll' = ScrolledDown(list, messages')
  /\ UNCHANGED <<selected, presence>>

\* add_conversation, perhaps, and push_system_message: a line of the program's
\* own in what is on screen.
Announce(list) ==
  /\ convs' = list
  /\ messages' = [messages EXCEPT ![OnScreen(list)] = Append(@, "system")]
  /\ scroll' = ScrolledDown(list, messages')
  /\ UNCHANGED <<selected, presence>>

PushSystemMessage == Announce(convs)

\* prev_conversation and next_conversation, with on_conversation_selected.
SelectConversation ==
  /\ \/ selected > 0 /\ selected' = selected - 1
     \/ selected + 1 < Len(convs) /\ selected' = selected + 1
  /\ convs' = [convs EXCEPT ![selected' + 1].unread = 0]
  /\ scroll' = Bottom(messages, convs[selected' + 1].name)
  /\ UNCHANGED <<messages, presence>>

\* scroll_up and scroll_down.
Scroll ==
  /\ \/ scroll > 0 /\ scroll' = scroll - 1
     \/ scroll < ScrolledDown(convs, messages) /\ scroll' = scroll + 1
  /\ UNCHANGED <<convs, selected, messages, presence>>

\* The last message of conversation k that is being sent.
LastSending(k) ==
  Max({i \in DOMAIN messages[k] : messages[k][i] = "sending"} \cup {0})

\* StatusChanged: of one conversation that has messages being sent, the first in
\* the order of a HashMap, the last of them.
MarkDelivered ==
  LET waiting == {k \in Keys : LastSending(k) > 0} IN
  /\ messages' \in IF waiting = {} THEN {messages}
                    ELSE {[messages EXCEPT ![k][LastSending(k)] = "delivered"] :
                            k \in waiting}
  /\ UNCHANGED <<convs, selected, scroll, presence>>

\* set_peer_presence: the map, and the direct conversation if there is one.
SetPeerPresence(p, s) ==
  /\ presence' = [presence EXCEPT ![p] = s]
  /\ convs' = [i \in DOMAIN convs |->
                 IF convs[i].name = Direct(p) THEN [convs[i] EXCEPT !.presence = s]
                                              ELSE convs[i]]
  /\ UNCHANGED <<selected, scroll, messages>>

-----------------------------------------------------------------------------
(* Properties *)

\* The conversation on screen is one of the list, each is listed once, and there
\* is a message to scroll to.
ScreenExists ==
  /\ selected < Len(convs) \/ (convs = << >> /\ selected = 0)
  /\ \A i, j \in DOMAIN convs : convs[i].name = convs[j].name => i = j
  /\ scroll <= ScrolledDown(convs, messages)

\* push_message, push_system_message, on_conversation_selected: the unread ones
\* are the newest messages of a conversation and all of them are another peer's;
\* what is on screen has none.
UnreadIsNew ==
  \A i \in DOMAIN convs :
    LET c == convs[i] IN
    /\ c.unread <= Len(messages[c.name])
    /\ \A n \in 0..(c.unread - 1) : messages[c.name][Len(messages[c.name]) - n] = "theirs"
    /\ i = selected + 1 => c.unread = 0

\* set_peer_presence: the sidebar shows what was last heard of a peer, or nothing.
\* (Nothing, too, for a conversation created after the peer was heard of.)
PresenceIsLatest ==
  \A i \in DOMAIN convs, p \in Remotes :
    convs[i].name = Direct(p) => convs[i].presence \in {presence[p], "unknown"}
=============================================================================
