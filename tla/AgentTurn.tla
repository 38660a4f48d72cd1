------------------------------ MODULE AgentTurn ------------------------------
(***************************************************************************)
(* A turn of the agent: the model of language and the tools it calls, one  *)
(* HTTP request to the core each, until it answers                         *)
(* (uwu-ai-agent/app/graph.py, tools.py, core_client.py, responder.py),    *)
(* and what the core does for it (app/api/agent.py).                       *)
(*                                                                         *)
(* A message asks for one thing: an order, or goods for the cart.  What    *)
(* the model of language does is its choice, several calls at once         *)
(* included, but for what it is told to do: once it has seen that the      *)
(* order is created it does not create it again, and it may when a tool    *)
(* has failed.  A request may be lost, refused, or served after the agent  *)
(* has given up waiting; a message has one such request at a time.  Which  *)
(* worker of the agent takes a message, and when, is AgentInbox.           *)
(***************************************************************************)
EXTENDS AgentAdmin, Integers

CONSTANTS
  Messages,
  MaxToolIterations,  \* MAX_TOOL_ITERATIONS
  MaxCalls,           \* bound of the model: write requests in one message of the model of language
  MaxFaults           \* bound of the model: failures

ASSUME TurnAssumption ==
  MaxToolIterations \in Nat \ {0} /\ MaxCalls \in Nat \ {0} /\ MaxFaults \in Nat

VARIABLES
  llm,      \* llm.available
  turn,     \* the turn of each message
  late,     \* requests whose sender has stopped waiting, by how far they are
  done,     \* orders, or additions to the cart, made for each message
  told,     \* the answer each message has got
  handled,  \* messages whose reply the agent knows to be stored
  faults,
  excused,  \* history: messages of which the agent could not know, or did not
            \* remember, that the order was made
  asked,    \* history: the most write requests a message of the model of language
            \* has made for each message, 1 if it has made none
  exhausted, \* history: messages whose turn came to MAX_TOOL_ITERATIONS
  allowed   \* history: when the key was taken away, the write requests that had
            \* been let in, less the orders made since

history == <<excused, asked, exhausted, allowed>>
turns == <<llm, turn, late, done, told, handled, faults, excused, asked, exhausted, allowed>>

NoTurn == [pc |-> "none"]
At(m) == turn[m].pc
Go(m, pc) == turn' = [turn EXCEPT ![m].pc = pc]
Fault == faults < MaxFaults /\ faults' = faults + 1

TurnInit ==
  /\ llm \in BOOLEAN
  /\ turn = [m \in Messages |-> NoTurn]
  /\ late = [m \in Messages |-> {}]
  /\ done = [m \in Messages |-> 0]
  /\ told = [m \in Messages |-> "none"]
  /\ handled = {}
  /\ faults = 0
  /\ excused = {} /\ asked = [m \in Messages |-> 1] /\ exhausted = {} /\ allowed = 0

\* get_current_agent and _require_perm; the agent signs with AGENT_API_KEY.
Authorised == Up /\ VerifyKey(SeedKey)

-----------------------------------------------------------------------------
\* run_turn: the text is there and get_context is answered.  Without a model
\* of language the reply is put together from what was read.
BeginTurn(m) ==
  /\ At(m) = "none" /\ m \notin handled
  /\ Authorised
  /\ turn' = [turn EXCEPT ![m] =
       [pc |-> IF llm THEN "llm" ELSE "answer", left |-> MaxToolIterations, calls |-> 0,
        known |-> "none", answer |-> IF llm THEN "none" ELSE "text"]]
  /\ UNCHANGED <<llm, late, done, told, handled, faults, history>>

\* The turn ends and polling will repeat it, knowing nothing of it: the model
\* of language failed, the agent was restarted, or the reply was not posted, or
\* not known to be.  A request under way goes on.
TurnFails(m) ==
  /\ At(m) # "none" /\ late[m] = {} /\ Fault
  /\ late' = IF At(m) \in {"sent", "verified"} THEN [late EXCEPT ![m] = {At(m)}] ELSE late
  /\ \E stored \in IF At(m) = "answer" THEN BOOLEAN ELSE {FALSE} :
       told' = IF stored THEN [told EXCEPT ![m] = turn[m].answer] ELSE told
  /\ excused' = IF done[m] > 0 \/ late'[m] # {} THEN excused \cup {m} ELSE excused
  /\ turn' = [turn EXCEPT ![m] = NoTurn]
  /\ UNCHANGED <<llm, done, handled, asked, exhausted, allowed>>

\* chat_with_tools: the model answers, in words of its own.
Answer(m) ==
  /\ At(m) = "llm" /\ turn[m].left > 0
  /\ turn' = [turn EXCEPT ![m].pc = "answer",
                          ![m].answer = IF turn[m].known = "created" THEN "created" ELSE "text"]
  /\ UNCHANGED <<llm, late, done, told, handled, faults, history>>

\* It calls tools, all of which are executed, one by one: n that write
\* (create_order, add_to_cart), and any that read (search_catalog, get_stock,
\* match_customer, get_order_status).
CallTools(m) ==
  /\ At(m) = "llm" /\ turn[m].left > 0
  /\ \E n \in 0 .. (IF turn[m].known = "created" THEN 0 ELSE MaxCalls) :
       /\ turn' = [turn EXCEPT ![m].pc = IF n = 0 THEN "read" ELSE "sent",
                               ![m].left = @ - 1, ![m].calls = IF n = 0 THEN 0 ELSE n - 1]
       /\ asked' = IF n > asked[m] THEN [asked EXCEPT ![m] = n] ELSE asked
  /\ UNCHANGED <<llm, late, done, told, handled, faults, excused, exhausted, allowed>>

\* After the last iteration the answer is that of responder.py for a message
\* that was not understood.
GiveUp(m) ==
  /\ At(m) = "llm" /\ turn[m].left = 0
  /\ turn' = [turn EXCEPT ![m].pc = "answer", ![m].answer = "sorry"]
  /\ exhausted' = exhausted \cup {m}
  /\ UNCHANGED <<llm, late, done, told, handled, faults, excused, asked, allowed>>

\* execute_tool never raises: a request that was refused, or failed, is an
\* error that the model of language reads.
ReadTool(m) ==
  /\ At(m) = "read"
  /\ Go(m, "llm")
  /\ UNCHANGED <<llm, late, done, told, handled, faults, history>>

\* The next call of the message, or what comes after the last.
NextCall(t) == IF t.calls > 0 THEN [t EXCEPT !.pc = "sent", !.calls = t.calls - 1] ELSE [t EXCEPT !.pc = "llm"]

\* What the model of language knows after a result: an order seen stays seen.
Seen(t, result) == IF t.known = "created" THEN t ELSE [t EXCEPT !.known = result]

\* Mutant of Returned: the result is not put among the messages.
ReturnedNothing(m, result) == turn' = [turn EXCEPT ![m] = NextCall(@)]

\* The result of a tool is put among the messages, where it stays.
Returned(m, result) == turn' = [turn EXCEPT ![m] = NextCall(Seen(@, result))]

\* Mutant of VerifyRequest: any key does.
VerifyAnyKey(m) ==
  /\ At(m) = "sent" /\ Up
  /\ Go(m, "verified")
  /\ UNCHANGED <<llm, late, done, told, handled, faults, history>>

\* The request reaches the core, which looks at the key.
VerifyRequest(m) ==
  /\ At(m) = "sent"
  /\ IF Authorised THEN Go(m, "verified") ELSE Returned(m, "failed")
  /\ UNCHANGED <<llm, late, done, told, handled, faults, history>>

\* Nobody knows whether it is refused for want of a phone number or a good:
\* created=false, with what is missing.
RefuseOrder(m) ==
  /\ At(m) = "verified" /\ Up
  /\ Returned(m, "failed")
  /\ UNCHANGED <<llm, late, done, told, handled, faults, history>>

Made(m) ==
  /\ done' = [done EXCEPT ![m] = @ + 1]
  /\ allowed' = IF VerifyKey(SeedKey) THEN allowed ELSE allowed - 1

\* agent_create_order or agent_add_to_cart commits.
ServeRequest(m) ==
  /\ At(m) = "verified" /\ Up
  /\ Made(m)
  /\ Go(m, "served")
  /\ UNCHANGED <<llm, late, told, handled, faults, excused, asked, exhausted>>

\* Its answer comes in time.
ToolAnswers(m) ==
  /\ At(m) = "served"
  /\ Returned(m, "created")
  /\ UNCHANGED <<llm, late, done, told, handled, faults, history>>

\* Mutant of LoseRequest: a request that failed is taken for served.
LoseRequestSilently(m) ==
  /\ At(m) \in {"sent", "verified", "served"} /\ Fault
  /\ Returned(m, "created")
  /\ UNCHANGED <<llm, late, done, told, handled, asked, exhausted, allowed, excused>>

\* CoreClientError: the network, the timeout of the client, or the core that
\* stops; the request may be served later all the same.
LoseRequest(m) ==
  /\ At(m) \in {"sent", "verified", "served"} /\ Fault
  /\ Returned(m, "failed")
  /\ late[m] = {}
  /\ \E arrives \in BOOLEAN :
       /\ late' = IF arrives /\ At(m) # "served" THEN [late EXCEPT ![m] = {At(m)}] ELSE late
       /\ excused' = IF arrives \/ At(m) = "served" THEN excused \cup {m} ELSE excused
  /\ UNCHANGED <<llm, done, told, handled, asked, exhausted, allowed>>

\* A request that nobody waits for any more.
LateRequest(m) ==
  /\ Up
  /\ \/ /\ late[m] = {"sent"}
        /\ late' = [late EXCEPT ![m] = IF Authorised THEN {"verified"} ELSE {}]
        /\ UNCHANGED <<done, allowed>>
     \/ /\ late[m] = {"verified"}
        /\ late' = [late EXCEPT ![m] = {}]
        /\ Made(m)
  /\ UNCHANGED <<llm, turn, told, handled, faults, excused, asked, exhausted>>

-----------------------------------------------------------------------------
\* post_message; the message is marked as read.
PostAnswer(m) ==
  /\ At(m) = "answer" /\ Authorised
  /\ told' = [told EXCEPT ![m] = turn[m].answer]
  /\ handled' = handled \cup {m}
  /\ turn' = [turn EXCEPT ![m] = NoTurn]
  /\ UNCHANGED <<llm, late, done, faults, history>>

LetIn == Cardinality({m \in Messages : At(m) = "verified"})
         + Cardinality({m \in Messages : late[m] = {"verified"}})

\* The agent's key is disabled, enabled or deleted while it works.
KeyTaken ==
  /\ ToggleKey(SeedKey) \/ DeleteKey(SeedKey)
  /\ allowed' = IF VerifyKey(SeedKey)' THEN 0
                ELSE IF VerifyKey(SeedKey) THEN LetIn ELSE allowed
  /\ UNCHANGED <<llm, turn, late, done, told, handled, faults, excused, asked, exhausted>>

ServeTool(m) == VerifyRequest(m) \/ RefuseOrder(m) \/ ServeRequest(m) \/ LateRequest(m)
ExecuteTool(m) == ReadTool(m) \/ ToolAnswers(m) \/ LoseRequest(m)

TurnNext ==
  \/ \E m \in Messages :
       /\ \/ BeginTurn(m) \/ CallTools(m) \/ Answer(m) \/ GiveUp(m)
          \/ PostAnswer(m) \/ TurnFails(m) \/ ExecuteTool(m) \/ ServeTool(m)
       /\ UNCHANGED desk
  \/ KeyTaken

\* The pages of the administrators, and the core that starts and stops.
DeskNext ==
  /\ SeedAll \/ PromptPages \/ ToolPages \/ \E k \in Keys \ {SeedKey} : KeyPages(k)
  /\ UNCHANGED turns

Init == AdminInit /\ TurnInit
Next == DeskNext \/ TurnNext
vars == <<desk, turns>>

Spec == Init /\ [][Next]_vars

-----------------------------------------------------------------------------
(***************************************************************************)
(* Properties                                                              *)
(***************************************************************************)

\* A message makes no more orders than one message of the model of language has
\* asked for, one unless it asked for several at once: rounds and turns add
\* nothing, unless the agent could not know that an order was made: the answer
\* to a request was lost, or the turn was repeated after it.  The core does not
\* recognise a repeated request.
OrderedOnce == \A m \in Messages \ excused : done[m] + Cardinality(late[m]) <= asked[m]

\* The customer is told of an order if and only if there is one, unless the
\* agent could not know, or has called tools MAX_TOOL_ITERATIONS times: then
\* the answer is that the message was not understood, order or no order.
OrdersAreTold ==
  /\ \A m \in Messages : told[m] = "created" => done[m] > 0
  /\ \A m \in handled \ (excused \cup exhausted) : done[m] > 0 => told[m] = "created"

\* Once the key is taken away the agent makes no more orders than those whose
\* requests had been let in: every request looks at the key anew.
RevokedKeyOrdersNothingNew == allowed >= 0

=============================================================================
