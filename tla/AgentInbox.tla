---------------------------- MODULE AgentInbox ----------------------------
(***************************************************************************)
(* A customer's message from its arrival in the core to the agent's reply: *)
(* the webhook and the polling of the inbox, which both bring it to the    *)
(* agent, the claim that keeps them apart, and the requests by which the   *)
(* agent replies and marks it as read (uwu-ai-agent/app/main.py,           *)
(* app/api/agent.py, app/api/messaging.py, app/services/chat_service.py).  *)
(*                                                                         *)
(* A request of the agent may fail before or after the core has served it, *)
(* and the agent may stop at any time, losing its claims.  What the agent  *)
(* answers is not modelled, only whether it does.                          *)
(***************************************************************************)
EXTENDS Naturals

CONSTANTS
  MaxMessage,      \* bound of the model: the messages are 1 .. MaxMessage, by id
  Chats,
  ChatOf,          \* the chat of each message
  Poll,            \* the polling loop
  MaxInboxFaults   \* bound of the model: requests that fail and restarts

InboxMessages == 1 .. MaxMessage

ASSUME InboxAssumption ==
  /\ MaxMessage \in Nat /\ MaxInboxFaults \in Nat
  /\ ChatOf \in [InboxMessages -> Chats]
  /\ Poll \notin InboxMessages

\* The task of a message's webhook, and the polling loop.
Workers == InboxMessages \cup {Poll}

VARIABLES
  \* the core
  status,   \* "absent", then is_read of each message
  enabled,  \* agent_enabled of each chat
  answers,  \* replies to each message that the core has stored
  hooks,    \* messages whose webhook is on its way
  lateReplies, \* replies on their way whose sender has stopped waiting
  \* the agent
  phase,    \* what every worker is doing
  polled,   \* what the polling loop has received and not gone through
  claimed,  \* _claimed
  \* the model
  inboxFaults,
  pardoned, \* history: messages an operator saw or that have no answer
  manual,   \* history: messages that arrived in a chat left to the operator
  again     \* history: messages that may be answered again

inboxCore == <<status, enabled, answers, hooks, lateReplies>>
agent == <<phase, polled, claimed>>
inboxVars == <<status, enabled, answers, hooks, lateReplies, phase, polled, claimed,
               inboxFaults, pardoned, manual, again>>

Phases == {"idle", "received", "thinking", "sent", "stored", "replied", "silent"}

\* Between the claim and its release or the mark.
Working == Phases \ {"idle", "received"}

TypeOK ==
  /\ status \in [InboxMessages -> {"absent", "unread", "read"}]
  /\ enabled \in [Chats -> BOOLEAN]
  /\ answers \in [InboxMessages -> Nat] /\ lateReplies \in [InboxMessages -> Nat]
  /\ hooks \in SUBSET InboxMessages
  /\ phase \in [Workers -> Phases]
  /\ polled \in SUBSET InboxMessages
  /\ phase[Poll] = "idle" <=> polled = {}
  /\ claimed \in SUBSET InboxMessages
  /\ inboxFaults \in 0 .. MaxInboxFaults
  /\ pardoned \in SUBSET InboxMessages /\ manual \in SUBSET InboxMessages
  /\ again \in SUBSET InboxMessages

InboxInit ==
  /\ status = [m \in InboxMessages |-> "absent"]
  /\ enabled = [c \in Chats |-> TRUE]
  /\ answers = [m \in InboxMessages |-> 0]
  /\ hooks = {}
  /\ lateReplies = [m \in InboxMessages |-> 0]
  /\ phase = [w \in Workers |-> "idle"]
  /\ polled = {}
  /\ claimed = {}
  /\ inboxFaults = 0
  /\ pardoned = {} /\ manual = {} /\ again = {}

Unread == {m \in InboxMessages : status[m] = "unread"}
InChat(c) == {m \in InboxMessages : ChatOf[m] = c}
AsRead(S) == [m \in InboxMessages |-> IF m \in S THEN "read" ELSE status[m]]

\* The message a worker is on: the loop goes by id.
First == CHOOSE m \in polled : \A k \in polled : m <= k
On(w) == IF w = Poll THEN First ELSE w

InboxFault == inboxFaults < MaxInboxFaults /\ inboxFaults' = inboxFaults + 1

-----------------------------------------------------------------------------
\* send_customer_message and store_incoming: the message is stored, then a
\* chat in which the agent answers sends a webhook.
Receive(m) ==
  /\ status[m] = "absent"
  /\ status' = [status EXCEPT ![m] = "unread"]
  /\ hooks' = IF enabled[ChatOf[m]] THEN hooks \cup {m} ELSE hooks
  /\ manual' = IF enabled[ChatOf[m]] THEN manual ELSE manual \cup {m}
  /\ UNCHANGED <<enabled, answers, lateReplies, agent, inboxFaults, pardoned, again>>

\* get_messages: an operator who opens a chat has read it.
ViewChat(c) ==
  /\ Unread \cap InChat(c) # {}
  /\ status' = AsRead(Unread \cap InChat(c))
  /\ pardoned' = pardoned \cup (Unread \cap InChat(c))
  /\ UNCHANGED <<enabled, answers, hooks, lateReplies, agent, inboxFaults, manual, again>>

\* toggle_agent.
ToggleAgent(c) ==
  /\ enabled' = [enabled EXCEPT ![c] = ~ @]
  /\ manual' = IF enabled[c] THEN manual ELSE manual \ InChat(c)
  /\ UNCHANGED <<status, answers, hooks, lateReplies, agent, inboxFaults, pardoned, again>>

\* The webhook arrives, whatever has become of its message, and starts a task.
DeliverWebhook(m) ==
  /\ m \in hooks
  /\ hooks' = hooks \ {m}
  /\ phase' = [phase EXCEPT ![m] = "received"]
  /\ UNCHANGED <<status, enabled, answers, lateReplies, polled, claimed, inboxFaults,
                 pardoned, manual, again>>

\* _post_webhook tries once.
LoseWebhook(m) ==
  /\ m \in hooks
  /\ hooks' = hooks \ {m}
  /\ UNCHANGED <<status, enabled, answers, lateReplies, agent, inboxFaults, pardoned, manual, again>>

\* get_inbox: the unread messages, of every chat.
PollInbox ==
  /\ phase[Poll] = "idle"
  /\ Unread # {}
  /\ polled' = Unread
  /\ phase' = [phase EXCEPT ![Poll] = "received"]
  /\ UNCHANGED <<inboxCore, claimed, inboxFaults, pardoned, manual, again>>

-----------------------------------------------------------------------------
(***************************************************************************)
(* _process_message.                                                       *)
(***************************************************************************)
Goto(w, next) == phase' = [phase EXCEPT ![w] = next] /\ UNCHANGED polled

\* The end of _process_message: the loop goes on to its next message.
Done(w) ==
  IF w = Poll
  THEN /\ polled' = polled \ {First}
       /\ phase' = [phase EXCEPT ![Poll] = IF polled = {First} THEN "idle" ELSE "received"]
  ELSE Goto(w, "idle")

\* _claim.
Claim(w) ==
  /\ phase[w] = "received"
  /\ claimed' = claimed \cup {On(w)}
  /\ IF On(w) \in claimed THEN Done(w) ELSE Goto(w, "thinking")
  /\ UNCHANGED <<inboxCore, inboxFaults, pardoned, manual, again>>

\* Mutant: the claim is kept.
ReleaseNot(w) == UNCHANGED claimed

\* _release.
Release(w) == claimed' = claimed \ {On(w)}

\* Mutant: the message is marked as read before it is answered.
MarkReadFirst(w) ==
  /\ phase[w] = "thinking"
  /\ status' = AsRead({On(w)})
  /\ Goto(w, "sent")
  /\ UNCHANGED <<enabled, answers, hooks, lateReplies, claimed, inboxFaults, pardoned, manual, again>>

\* run_turn comes to an answer, which post_message sends, or to none.
TurnAnswers(w) ==
  /\ phase[w] = "thinking"
  /\ Goto(w, "sent")
  /\ UNCHANGED <<inboxCore, claimed, inboxFaults, pardoned, manual, again>>

TurnSilent(w) ==
  /\ phase[w] = "thinking"
  /\ Goto(w, "silent")
  /\ pardoned' = pardoned \cup {On(w)}
  /\ UNCHANGED <<inboxCore, claimed, inboxFaults, manual, again>>

TakingTurnFails(w) ==
  /\ phase[w] = "thinking"
  /\ InboxFault
  /\ Release(w)
  /\ Done(w)
  /\ UNCHANGED <<inboxCore, pardoned, manual, again>>

\* post_message of the core.
StoreReply(w) ==
  /\ phase[w] = "sent"
  /\ answers' = [answers EXCEPT ![On(w)] = @ + 1]
  /\ Goto(w, "stored")
  /\ UNCHANGED <<status, enabled, hooks, lateReplies, claimed, inboxFaults, pardoned, manual, again>>

\* A reply whose sender has gone reaches the core after all.
StoreLate(m) ==
  /\ lateReplies[m] > 0
  /\ lateReplies' = [lateReplies EXCEPT ![m] = @ - 1]
  /\ answers' = [answers EXCEPT ![m] = @ + 1]
  /\ UNCHANGED <<status, enabled, hooks, agent, inboxFaults, pardoned, manual, again>>

ReplyAccepted(w) ==
  /\ phase[w] = "stored"
  /\ Goto(w, "replied")
  /\ UNCHANGED <<inboxCore, claimed, inboxFaults, pardoned, manual, again>>

\* CoreClientError: refused, or the answer of the core did not come in time.
ReplyFails(w) ==
  /\ phase[w] \in {"sent", "stored"}
  /\ InboxFault
  /\ Release(w)
  /\ Done(w)
  /\ \E arrives \in IF phase[w] = "sent" THEN BOOLEAN ELSE {FALSE} :
       /\ lateReplies' = IF arrives THEN [lateReplies EXCEPT ![On(w)] = @ + 1] ELSE lateReplies
       /\ again' = IF arrives \/ phase[w] = "stored" THEN again \cup {On(w)} ELSE again
  /\ UNCHANGED <<status, enabled, answers, hooks, pardoned, manual>>

\* Mutant: the claim is released in the end, whatever happened.
MarkReadReleases(w) ==
  /\ phase[w] \in {"replied", "silent"}
  /\ status' = AsRead({On(w)})
  /\ Release(w)
  /\ Done(w)
  /\ UNCHANGED <<enabled, answers, hooks, lateReplies, inboxFaults, pardoned, manual, again>>

\* mark_inbox_read after the reply, or when there is none.
MarkRead(w) ==
  /\ phase[w] \in {"replied", "silent"}
  /\ status' = AsRead({On(w)})
  /\ Done(w)
  /\ UNCHANGED <<enabled, answers, hooks, lateReplies, claimed, inboxFaults, pardoned, manual, again>>

\* It fails: the claim is released only when a reply was made.
MarkFails(w) ==
  /\ phase[w] \in {"replied", "silent"}
  /\ InboxFault
  /\ \E served \in BOOLEAN : status' = IF served THEN AsRead({On(w)}) ELSE status
  /\ IF phase[w] = "replied"
     THEN Release(w) /\ again' = again \cup {On(w)}
     ELSE UNCHANGED <<claimed, again>>
  /\ Done(w)
  /\ UNCHANGED <<enabled, answers, hooks, lateReplies, pardoned, manual>>

\* The agent stops and starts anew; requests it has sent may still arrive.
Restart ==
  /\ InboxFault
  /\ phase' = [w \in Workers |-> "idle"]
  /\ polled' = {}
  /\ claimed' = {}
  /\ \E arriving \in SUBSET {w \in Workers : phase[w] = "sent"} :
       /\ lateReplies' = [m \in InboxMessages |->
                           IF \E w \in arriving : On(w) = m THEN lateReplies[m] + 1 ELSE lateReplies[m]]
       /\ again' = again \cup {m \in Unread \cup hooks : answers[m] + lateReplies'[m] > 0}
  /\ UNCHANGED <<status, enabled, answers, hooks, pardoned, manual>>

-----------------------------------------------------------------------------
TakeTurn(w) == TurnAnswers(w) \/ TurnSilent(w)
Mark(w) == MarkRead(w) \/ MarkFails(w)

InboxNext ==
  \/ \E m \in InboxMessages :
       Receive(m) \/ DeliverWebhook(m) \/ LoseWebhook(m) \/ StoreLate(m)
  \/ \E c \in Chats : ViewChat(c) \/ ToggleAgent(c)
  \/ PollInbox \/ Restart
  \/ \E w \in Workers :
       \/ Claim(w) \/ TakeTurn(w) \/ TakingTurnFails(w)
       \/ StoreReply(w) \/ ReplyAccepted(w) \/ ReplyFails(w) \/ Mark(w)

InboxSpec == InboxInit /\ [][InboxNext]_inboxVars

\* The loop polls for ever, a turn and a request end (llm_timeout, the timeout
\* of the HTTP client); nothing is asked of customers, operators or the network.
InboxFairness ==
  /\ WF_inboxVars(PollInbox)
  /\ \A w \in Workers :
       WF_inboxVars(Claim(w)) /\ WF_inboxVars(TakeTurn(w)) /\ WF_inboxVars(StoreReply(w))
       /\ WF_inboxVars(ReplyAccepted(w)) /\ WF_inboxVars(Mark(w))

InboxFairSpec == InboxSpec /\ InboxFairness

-----------------------------------------------------------------------------
(***************************************************************************)
(* Properties                                                              *)
(***************************************************************************)

\* Webhook and polling never process a message at the same time (_claim).
OneWorkerPerMessage ==
  \A v, w \in Workers :
    phase[v] \in Working /\ phase[w] \in Working /\ On(v) = On(w) => v = w

\* A message is answered once, and again only if the agent could not know
\* that it was answered: the core's answer to a reply or a mark was lost, or
\* the agent restarted while the message was unread or its webhook on its way.
AnsweredOnce == \A m \in InboxMessages \ again : answers[m] + lateReplies[m] <= 1

\* A message leaves the inbox only after a reply to it is stored, unless an
\* operator has seen it or the agent had nothing to say (mark_inbox_read).
ReadMeansHandled ==
  \A m \in InboxMessages : status[m] = "read" => answers[m] > 0 \/ m \in pardoned

\* A message that is unread and claimed by nobody at work on it: neither the
\* webhook nor the polling will take it until the agent restarts.
Abandoned(m) ==
  /\ status[m] = "unread" /\ m \in claimed
  /\ ~ \E w \in Workers : phase[w] \in Working /\ On(w) = m

\* Every message is read in the end, whatever webhook is lost and whatever
\* request fails (the polling repeats), but for one abandoned without an answer.
EveryMessageHandled ==
  \A m \in InboxMessages :
    status[m] = "unread" ~> (status[m] = "read" \/ (Abandoned(m) /\ m \in pardoned))

\* "оператор выключает тумблер, чтобы отвечать вручную" (app/models/messaging.py:41):
\* the agent does not answer what arrived in a chat that is left to the operator.
ManualStaysManual == \A m \in manual : answers[m] = 0

=============================================================================
