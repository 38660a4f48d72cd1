--------------------------- MODULE Conversations ---------------------------
(***************************************************************************)
(* The chats of the inbox and their messages: those the adapters of the    *)
(* messengers store (store_incoming of app/bots/service.py), those of the  *)
(* shop's customers (app/services/chat_service.py), and the operators'     *)
(* replies, which go out through the adapter registered for the channel    *)
(* (app/api/messaging.py).                                                 *)
(*                                                                         *)
(* What the agent does with a message is the matter of AgentInbox.         *)
(***************************************************************************)
EXTENDS BotManager

CONSTANTS
  Site,        \* CHANNEL_SITE
  People,
  ChannelOf,   \* where each of them writes
  Handlers,    \* messages and replies under way at a time
  MaxMessages  \* bound of the model: messages under way or stored

ASSUME TalkAssumption ==
  /\ Site \notin Channels /\ MaxMessages \in Nat
  /\ ChannelOf \in [People -> Channels \cup {Site}]

VARIABLES
  chats,      \* who each chat is with, by id
  messages,   \* of each message: its chat, its author's side and whether it is read
  handler,
  delivered,  \* replies the messenger has received
  overlapped  \* history: customers two of whose messages both found no chat

talk == <<chats, messages, handler, delivered, overlapped>>
chatVars == <<bots, talk>>

NoHandler == [pc |-> "none"]

ChatInit ==
  /\ BotInit
  /\ chats = <<>>
  /\ messages = <<>>
  /\ handler = [h \in Handlers |-> NoHandler]
  /\ delivered = {}
  /\ overlapped = {}

ChatsOf(p) == {i \in DOMAIN chats : chats[i] = p}
\* Requests about to create a chat, and those that have and not committed.
Creating(p) == {h \in Handlers : handler[h].pc = "found" /\ handler[h].who = p /\ handler[h].chat = 0}
Inserted(p) == {h \in Handlers : handler[h].pc = "inserted" /\ handler[h].who = p}
Idle(h) == handler[h].pc = "none"
Room == Len(messages) + Cardinality({h \in Handlers : ~ Idle(h)}) < MaxMessages
Resume(h, state) == handler' = [handler EXCEPT ![h] = state]

-----------------------------------------------------------------------------
\* A message reaches the core through an adapter that polls, registered, stopping
\* or replaced, or as a request of the shop, and its chat is looked for.
FindChat(h, p) ==
  /\ up /\ Idle(h) /\ Room
  /\ ChannelOf[p] # Site => \E i \in Running(ChannelOf[p]) : adapters[ChannelOf[p]][i].task # "pausing"
  /\ \E chat \in IF ChatsOf(p) = {} THEN {0} ELSE ChatsOf(p) :
       Resume(h, [pc |-> "found", who |-> p, chat |-> chat])
  /\ overlapped' = IF ChatsOf(p) = {} /\ Creating(p) \cup Inserted(p) # {}
                   THEN overlapped \cup {p} ELSE overlapped
  /\ UNCHANGED <<bots, chats, messages, delivered>>

\* Mutant: the chats of the messengers have no constraint.
InsertChatUnchecked(h) ==
  /\ handler[h].pc = "found" /\ handler[h].chat = 0
  /\ Resume(h, [handler[h] EXCEPT !.pc = "inserted"])
  /\ UNCHANGED <<bots, chats, messages, delivered, overlapped>>

\* There was none: the chat is inserted.  The constraint makes the second
\* chat of a messenger's user wait for the first to commit, then fail: that
\* chat is read.  The chats of customers have none.
InsertChat(h) ==
  /\ handler[h].pc = "found" /\ handler[h].chat = 0
  /\ LET p == handler[h].who
         external == ChannelOf[p] # Site
     IN /\ external => Inserted(p) = {}
        /\ IF external /\ ChatsOf(p) # {}
           THEN \E chat \in ChatsOf(p) : Resume(h, [handler[h] EXCEPT !.chat = chat])
           ELSE Resume(h, [handler[h] EXCEPT !.pc = "inserted"])
  /\ UNCHANGED <<bots, chats, messages, delivered, overlapped>>

\* The message is stored, with its chat if that is new.
StoreMessage(h) ==
  /\ \/ handler[h].pc = "inserted"
     \/ handler[h].pc = "found" /\ handler[h].chat # 0
  /\ LET new == handler[h].pc = "inserted"
     IN /\ chats' = IF new THEN Append(chats, handler[h].who) ELSE chats
        /\ messages' = Append(messages,
             [chat |-> IF new THEN Len(chats) + 1 ELSE handler[h].chat,
              who |-> handler[h].who, direction |-> "in", is_read |-> FALSE])
  /\ Resume(h, NoHandler)
  /\ UNCHANGED <<bots, delivered, overlapped>>

\* The request is rolled back, or its adapter stops under it.
LoseMessage(h) ==
  /\ handler[h].pc \in {"found", "inserted"}
  /\ Resume(h, NoHandler)
  /\ UNCHANGED <<bots, chats, messages, delivered, overlapped>>

\* send_message of an operator: the reply is stored, and goes to a messenger.
SendMessage(h, chat) ==
  /\ up /\ Idle(h) /\ Room /\ chat \in DOMAIN chats
  /\ messages' = Append(messages, [chat |-> chat, who |-> chats[chat], direction |-> "out", is_read |-> FALSE])
  /\ Resume(h, IF ChannelOf[chats[chat]] = Site THEN NoHandler
               ELSE [pc |-> "deliver", message |-> Len(messages) + 1])
  /\ UNCHANGED <<bots, chats, delivered, overlapped>>

\* deliver_outgoing tries once, through the adapter registered, if there is
\* one: what fails is logged, and the reply stays in the chat alone.
DeliverOutgoing(h) ==
  /\ handler[h].pc = "deliver"
  /\ LET m == handler[h].message
         sends == registered[ChannelOf[messages[m].who]] # 0
     IN \E sent \in {FALSE, sends} : delivered' = IF sent THEN delivered \cup {m} ELSE delivered
  /\ Resume(h, NoHandler)
  /\ UNCHANGED <<bots, chats, messages, overlapped>>

\* list_customer_messages: a customer is shown one of the chats kept for them,
\* and has read the replies in it.  get_messages, the operator's, does the
\* same to the messages of the other side.
ReadChat(chat, direction) ==
  /\ \E m \in DOMAIN messages :
       messages[m].chat = chat /\ messages[m].direction = direction /\ ~ messages[m].is_read
  /\ messages' = [m \in DOMAIN messages |->
       IF messages[m].chat = chat /\ messages[m].direction = direction
       THEN [messages[m] EXCEPT !.is_read = TRUE] ELSE messages[m]]
  /\ UNCHANGED <<bots, chats, handler, delivered, overlapped>>

ListCustomerMessages(p) ==
  /\ up /\ ChannelOf[p] = Site
  /\ \E chat \in ChatsOf(p) : ReadChat(chat, "out")
GetMessages == up /\ \E chat \in DOMAIN chats : ReadChat(chat, "in")

Incoming ==
  \E h \in Handlers :
    \/ \E p \in People : FindChat(h, p)
    \/ InsertChat(h) \/ StoreMessage(h) \/ LoseMessage(h)

Inbox ==
  \/ \E h \in Handlers : \/ \E chat \in DOMAIN chats : SendMessage(h, chat)
                         \/ DeliverOutgoing(h)
  \/ \E p \in People : ListCustomerMessages(p)
  \/ GetMessages

\* When the core stops, what was under way is lost.
Bots ==
  /\ BotNext
  /\ handler' = IF up /\ ~ up' THEN [h \in Handlers |-> NoHandler] ELSE handler
  /\ UNCHANGED <<chats, messages, delivered, overlapped>>

ChatNext == Bots \/ Incoming \/ Inbox

ChatSpec == ChatInit /\ [][ChatNext]_chatVars

-----------------------------------------------------------------------------
\* All that a person and the operators have written to each other is in one
\* chat, whatever arrives at once and whichever adapter brings it; only a
\* customer of the shop two of whose messages both found no chat may have two,
\* of which they are then shown either.
ConversationsStayWhole ==
  /\ \A p \in People : Cardinality(ChatsOf(p)) > 1 => ChannelOf[p] = Site /\ p \in overlapped
  /\ \A m \in DOMAIN messages : messages[m].chat \in ChatsOf(messages[m].who)

=============================================================================
