-------------------------- MODULE Messages_proofs ---------------------------
(***************************************************************************)
(* Proofs about what happens to a customer's message: the turns of the     *)
(* agent and the desk of its administrators (AgentTurn, for every set of   *)
(* messages, prompts, tools, keys and administrators and any number of     *)
(* rounds and failures), the messages it takes (AgentInbox), and the       *)
(* bots and chats they come through (Conversations, for every set of       *)
(* channels, tokens, forms, people and handlers).                          *)
(***************************************************************************)
EXTENDS AgentTurn, AgentInbox, Conversations, FiniteSetTheorems, WellFoundedInduction, TLAPS

-----------------------------------------------------------------------------
(***************************************************************************)
(* The desk: prompts, tools and keys.                                      *)
(***************************************************************************)

Prompt == [active : Nat, versions : Seq(Nat)]
Form == [prompt : Prompts, read : Nat]

AdminTypeOK ==
  /\ core \in {"stopped", "seeding", "up"}
  /\ DOMAIN prompts \subseteq Prompts /\ prompts \in [DOMAIN prompts -> Prompt]
  /\ forms \in [Admins -> {NoForm} \cup Form]

\* The active version of a prompt is one of its rows.
ActiveIsThere ==
  \A p \in DOMAIN prompts :
    \E i \in DOMAIN prompts[p].versions : prompts[p].versions[i] = prompts[p].active

\* The rows of a prompt that nobody has edited out of turn are numbered 1, 2, ...
NumberedInTurn ==
  \A p \in DOMAIN prompts \ tangled :
    \A i \in DOMAIN prompts[p].versions : prompts[p].versions[i] = i

\* A form of such a prompt is the only one, and it has read the last number.
FormsReadLast ==
  \A a \in Admins : forms[a] # NoForm =>
    /\ forms[a].prompt \in DOMAIN prompts
    /\ forms[a].prompt \notin tangled =>
         /\ forms[a].read = Len(prompts[forms[a].prompt].versions)
         /\ \A b \in Admins \ {a} : forms[b] # NoForm => forms[b].prompt # forms[a].prompt

\* What the seed has put in by each of its steps.
Seeded ==
  Up => DefaultPrompts \subseteq DOMAIN prompts /\ DefaultTools \subseteq DOMAIN tools

AdminInv == AdminTypeOK /\ ActiveIsThere /\ NumberedInTurn /\ FormsReadLast /\ Seeded

\* Nothing is there at first.
LEMMA AdminInitInv == AdminInit => AdminInv
  BY DEF AdminInit, AdminInv, AdminTypeOK, ActiveIsThere, NumberedInTurn, FormsReadLast, Seeded, Up

\* create_prompt, and the seed: a prompt that was missing comes with version 1.
LEMMA NewPrompt ==
  ASSUME AdminInv, NEW p \in Prompts \ DOMAIN prompts, prompts' = With(prompts, p, New),
         UNCHANGED <<core, tools, forms, tangled>>
  PROVE  AdminInv'
<1>1. /\ DOMAIN prompts' = DOMAIN prompts \cup {p}
      /\ prompts'[p] = New
      /\ \A q \in DOMAIN prompts : prompts'[q] = prompts[q]
  BY DEF With
<1>2. New \in Prompt /\ DOMAIN New.versions = {1} /\ New.versions[1] = 1 /\ New.active = 1
  BY DEF New, Prompt
<1>3. AdminTypeOK'
  <2>1. prompts' \in [DOMAIN prompts' -> Prompt]
    BY <1>1, <1>2 DEF With, AdminInv, AdminTypeOK
  <2> QED BY <1>1, <2>1 DEF AdminInv, AdminTypeOK
<1>4. ActiveIsThere'
  BY <1>1, <1>2 DEF AdminInv, ActiveIsThere
<1>5. NumberedInTurn'
  BY <1>1, <1>2 DEF AdminInv, NumberedInTurn
<1>6. FormsReadLast'
  BY <1>1 DEF AdminInv, FormsReadLast
<1>7. Seeded'
  BY <1>1 DEF AdminInv, Seeded, Up
<1> QED BY <1>3, <1>4, <1>5, <1>6, <1>7 DEF AdminInv

\* Opening the form: a prompt that is still in turn shows its last version.
LEMMA BeginVersionInv ==
  ASSUME AdminInv, NEW a \in Admins, NEW p \in Prompts, BeginVersion(a, p)
  PROVE  AdminInv'
<1>1. /\ p \in DOMAIN prompts /\ prompts[p] \in Prompt
      /\ forms[a] = NoForm /\ tangled \subseteq tangled'
      /\ forms' = [forms EXCEPT ![a] = [prompt |-> p, read |-> prompts[p].active]]
  BY DEF BeginVersion, AdminInv, AdminTypeOK
<1>2. [prompt |-> p, read |-> prompts[p].active] \in Form
  BY <1>1 DEF Form, Prompt
<1>3. AdminTypeOK'
  BY <1>1, <1>2 DEF BeginVersion, AdminInv, AdminTypeOK
<1>4. ActiveIsThere' /\ NumberedInTurn' /\ Seeded'
  BY <1>1 DEF BeginVersion, AdminInv, ActiveIsThere, NumberedInTurn, Seeded, Up
<1>5. ASSUME NEW b \in Admins, forms'[b] # NoForm
      PROVE  /\ forms'[b].prompt \in DOMAIN prompts
             /\ forms'[b].prompt \notin tangled' =>
                  /\ forms'[b].read = Len(prompts[forms'[b].prompt].versions)
                  /\ \A c \in Admins \ {b} : forms'[c] # NoForm => forms'[c].prompt # forms'[b].prompt
  <2>1. forms \in [Admins -> {NoForm} \cup Form]
    BY DEF AdminInv, AdminTypeOK
  <2>2. forms'[a].prompt = p /\ forms'[a].read = prompts[p].active
    BY <1>1, <2>1
  <2>3. \A c \in Admins \ {a} : forms'[c] = forms[c]
    BY <1>1, <2>1
  <2>4. p \notin tangled' =>
          prompts[p].active = Len(prompts[p].versions) /\ \A c \in Admins : forms[c].prompt # p
    BY DEF BeginVersion
  <2>5. CASE b = a
    BY <1>1, <2>2, <2>3, <2>4, <2>5
  <2>6. CASE b # a
    <3>1. forms'[b] = forms[b] /\ forms[b] # NoForm
      BY <1>5, <2>3, <2>6
    <3>2. forms'[b].prompt \notin tangled' => forms'[a].prompt # forms'[b].prompt
      BY <2>2, <2>4, <3>1
    <3> QED BY <1>1, <2>3, <3>1, <3>2 DEF AdminInv, FormsReadLast
  <2> QED BY <2>5, <2>6
<1>6. FormsReadLast'
  BY <1>5 DEF FormsReadLast, BeginVersion
<1> QED BY <1>3, <1>4, <1>6 DEF AdminInv

\* add_prompt_version keeps the numbers of a prompt that is in turn.
LEMMA AddVersionInv ==
  ASSUME AdminInv, NEW a \in Admins, AddPromptVersion(a)
  PROVE  AdminInv'
<1> DEFINE p == forms[a].prompt
           next == forms[a].read + 1
           rows == Append(prompts[p].versions, next)
<1>1. /\ forms[a] \in Form /\ p \in DOMAIN prompts /\ prompts[p] \in Prompt
      /\ forms \in [Admins -> {NoForm} \cup Form]
  BY DEF AddPromptVersion, AdminInv, AdminTypeOK, FormsReadLast
<1>2. /\ prompts[p].versions \in Seq(Nat) /\ next \in Nat /\ forms[a].read \in Nat
      /\ rows \in Seq(Nat) /\ DOMAIN rows = 1 .. Len(prompts[p].versions) + 1
      /\ rows[Len(prompts[p].versions) + 1] = next
      /\ \A i \in DOMAIN prompts[p].versions : i \in DOMAIN rows /\ rows[i] = prompts[p].versions[i]
      /\ \A i \in DOMAIN rows : i \in DOMAIN prompts[p].versions \/ i = Len(prompts[p].versions) + 1
  BY <1>1 DEF Form, Prompt
<1>3. /\ DOMAIN prompts' = DOMAIN prompts
      /\ prompts'[p] = [active |-> next, versions |-> rows]
      /\ \A q \in DOMAIN prompts \ {p} : prompts'[q] = prompts[q]
  BY <1>1 DEF AddPromptVersion
<1>4. AdminTypeOK'
  <2>1. prompts'[p] \in Prompt
    BY <1>2, <1>3 DEF Prompt
  <2>2. prompts' \in [DOMAIN prompts' -> Prompt]
    BY <1>3, <2>1 DEF AddPromptVersion, AdminInv, AdminTypeOK
  <2> QED BY <1>3, <2>2 DEF AddPromptVersion, AdminInv, AdminTypeOK
<1>5. ActiveIsThere'
  <2>1. \E i \in DOMAIN prompts'[p].versions : prompts'[p].versions[i] = prompts'[p].active
    <3> DEFINE last == Len(prompts[p].versions) + 1
    <3>1. prompts'[p].versions = rows /\ prompts'[p].active = next
      BY <1>3
    <3>2. last \in DOMAIN rows /\ rows[last] = next
      BY <1>2
    <3> QED BY <3>1, <3>2
  <2> QED BY <1>3, <2>1 DEF AdminInv, ActiveIsThere
<1>6. NumberedInTurn'
  <2>1. ASSUME p \notin tangled, NEW i \in DOMAIN rows PROVE rows[i] = i
    <3>1. forms[a].read = Len(prompts[p].versions)
      BY <2>1 DEF AddPromptVersion, AdminInv, FormsReadLast
    <3> QED BY <1>1, <1>2, <2>1, <3>1 DEF AdminInv, NumberedInTurn
  <2> QED BY <1>3, <2>1 DEF AddPromptVersion, AdminInv, NumberedInTurn
<1>7. FormsReadLast'
  <2>1. ASSUME NEW b \in Admins, forms'[b] # NoForm
        PROVE  b # a /\ forms'[b] = forms[b] /\ (forms[b].prompt \notin tangled => forms[b].prompt # p)
    <3>1. b # a /\ forms'[b] = forms[b]
      BY <1>1, <2>1 DEF AddPromptVersion
    <3>2. forms[a] # NoForm
      BY DEF AddPromptVersion
    <3> QED BY <2>1, <3>1, <3>2 DEF AdminInv, FormsReadLast
  <2>2. ASSUME NEW b \in Admins, forms'[b] # NoForm
        PROVE  /\ forms'[b].prompt \in DOMAIN prompts
               /\ forms'[b].prompt \notin tangled =>
                    /\ forms'[b].read = Len(prompts'[forms'[b].prompt].versions)
                    /\ \A c \in Admins \ {b} : forms'[c] # NoForm => forms'[c].prompt # forms'[b].prompt
    <3>1. b # a /\ forms'[b] = forms[b] /\ (forms[b].prompt \notin tangled => forms[b].prompt # p)
      BY <2>1, <2>2
    <3>2. forms'[a] = NoForm /\ \A c \in Admins \ {a} : forms'[c] = forms[c]
      BY <1>1 DEF AddPromptVersion
    <3> QED BY <1>3, <2>2, <3>1, <3>2 DEF AdminInv, FormsReadLast
  <2> QED BY <1>3, <2>2 DEF FormsReadLast, AddPromptVersion
<1>8. Seeded'
  BY <1>3 DEF AddPromptVersion, AdminInv, Seeded, Up
<1> QED BY <1>4, <1>5, <1>6, <1>7, <1>8 DEF AdminInv

\* activate_prompt_version only takes a version that is there.
LEMMA ActivateInv ==
  ASSUME AdminInv, NEW p \in Prompts, NEW version \in Nat, ActivatePromptVersion(p, version)
  PROVE  AdminInv'
<1>1. /\ p \in DOMAIN prompts /\ prompts[p] \in Prompt
      /\ DOMAIN prompts' = DOMAIN prompts
      /\ prompts'[p].active = version /\ prompts'[p].versions = prompts[p].versions
      /\ \A q \in DOMAIN prompts \ {p} : prompts'[q] = prompts[q]
  BY DEF ActivatePromptVersion, AdminInv, AdminTypeOK, Prompt
<1>2. \E i \in DOMAIN prompts[p].versions : prompts[p].versions[i] = version
  <2>1. RowsOf(p, version) # {}
    BY FS_EmptySet DEF ActivatePromptVersion
  <2> QED BY <2>1 DEF RowsOf
<1>3. \A q \in DOMAIN prompts : prompts'[q].versions = prompts[q].versions
  BY <1>1
<1>4. AdminTypeOK'
  BY <1>1 DEF ActivatePromptVersion, AdminInv, AdminTypeOK, Prompt
<1>5. ActiveIsThere'
  <2>1. \E i \in DOMAIN prompts'[p].versions : prompts'[p].versions[i] = prompts'[p].active
    BY <1>1, <1>2
  <2> QED BY <1>1, <2>1 DEF AdminInv, ActiveIsThere
<1>6. NumberedInTurn' /\ FormsReadLast' /\ Seeded'
  BY <1>1, <1>3 DEF ActivatePromptVersion, AdminInv, NumberedInTurn, FormsReadLast, Seeded, Up
<1> QED BY <1>4, <1>5, <1>6 DEF AdminInv

\* The seed and the stops between its commits.
LEMMA SeedInv == ASSUME AdminInv, SeedAll PROVE AdminInv'
<1>1. CASE StartCore
  BY <1>1 DEF StartCore, AdminInv, AdminTypeOK, ActiveIsThere, NumberedInTurn, FormsReadLast,
     Seeded, Up
<1>2. CASE SeedPrompt
  BY <1>2, NewPrompt DEF SeedPrompt, Prompts
<1>3. CASE SeedTools
  BY <1>3 DEF SeedTools, AdminInv, AdminTypeOK, ActiveIsThere, NumberedInTurn, FormsReadLast,
     Seeded, Up
<1>4. CASE SeedApiKey
  BY <1>4 DEF SeedApiKey, AdminInv, AdminTypeOK, ActiveIsThere, NumberedInTurn, FormsReadLast,
     Seeded, Up
<1>5. CASE StopCore
  BY <1>5 DEF StopCore, AdminInv, AdminTypeOK, ActiveIsThere, NumberedInTurn, FormsReadLast,
     Seeded, Up
<1> QED BY <1>1, <1>2, <1>3, <1>4, <1>5 DEF SeedAll

\* Keys and the flags of tools are apart from the prompts.
LEMMA KeysAndToolsInv ==
  ASSUME AdminInv, UNCHANGED <<core, prompts, forms, tangled>>, DOMAIN tools' = DOMAIN tools
  PROVE  AdminInv'
BY DEF AdminInv, AdminTypeOK, ActiveIsThere, NumberedInTurn, FormsReadLast, Seeded, Up

\* The pages of the administrators.
LEMMA PagesInv ==
  ASSUME AdminInv, MaxVersions \in Nat, PromptPages \/ ToolPages \/ \E k \in Keys : KeyPages(k)
  PROVE  AdminInv'
<1>1. ASSUME NEW p \in OtherPrompts, CreatePrompt(p) PROVE AdminInv'
  BY <1>1, NewPrompt DEF CreatePrompt, Prompts
<1>2. ASSUME NEW p \in Prompts, NEW version \in 1 .. MaxVersions, ActivatePromptVersion(p, version)
      PROVE  AdminInv'
  BY <1>2, ActivateInv
<1>3. ASSUME NEW t \in DefaultTools, NEW on \in BOOLEAN, UpdateTool(t, on) PROVE AdminInv'
  BY <1>3, KeysAndToolsInv DEF UpdateTool
<1>4. ASSUME NEW k \in Keys, KeyPages(k) PROVE AdminInv'
  BY <1>4, KeysAndToolsInv DEF KeyPages, CreateKey, ToggleKey, DeleteKey
<1> QED BY <1>1, <1>2, <1>3, <1>4, BeginVersionInv, AddVersionInv DEF PromptPages, ToolPages

\* A set all of whose elements are equal.
LEMMA OnlyOnce == ASSUME NEW S, \A x, y \in S : x = y PROVE IsFiniteSet(S) /\ Cardinality(S) <= 1
<1>1. CASE S = {}
  BY <1>1, FS_EmptySet
<1>2. CASE S # {}
  <2>1. PICK x : S = {x}
    BY <1>2
  <2>2. IsFiniteSet({x}) /\ Cardinality({x}) = 1
    BY FS_Singleton
  <2> QED BY <2>1, <2>2
<1> QED BY <1>1, <1>2

\* The invariant of the desk gives PromptsReadable.
LEMMA AdminReadable == AdminInv => PromptsReadable
<1> SUFFICES ASSUME AdminInv PROVE PromptsReadable
  OBVIOUS
<1>1. \A p \in DOMAIN prompts : RowsOf(p, prompts[p].active) # {}
  BY DEF AdminInv, ActiveIsThere, RowsOf
<1>2. \A p \in DOMAIN prompts \ tangled :
        \A i,
           j \in DOMAIN prompts[p].versions : prompts[p].versions[i] = prompts[p].versions[j] => i = j
  BY DEF AdminInv, NumberedInTurn
<1>3. ASSUME DOMAIN prompts \cap tangled = {}, NEW p \in DOMAIN prompts
      PROVE  Cardinality(RowsOf(p, prompts[p].active)) <= 1
  <2>1. \A i, j \in RowsOf(p, prompts[p].active) : i = j
    BY <1>2, <1>3 DEF RowsOf
  <2> QED BY <2>1, OnlyOnce
<1> QED BY <1>1, <1>2, <1>3 DEF AdminInv, Seeded, PromptsReadable, ListPrompts

-----------------------------------------------------------------------------
(***************************************************************************)
(* The turns of the messages.                                              *)
(***************************************************************************)

Steps == {"llm", "read", "sent", "verified", "served", "answer"}
Turn == [pc : Steps, left : Nat, calls : Nat, known : {"none", "failed", "created"},
         answer : {"none", "text", "created", "sorry"}]

TurnTypeOK ==
  /\ turn \in [Messages -> {NoTurn} \cup Turn]
  /\ late \in [Messages -> {{}, {"sent"}, {"verified"}}]
  /\ done \in [Messages -> Nat]
  /\ asked \in [Messages -> Nat]
  /\ told \in [Messages -> {"none", "text", "created", "sorry"}]
  /\ handled \subseteq Messages
  /\ allowed \in Int

\* Nobody is told of an order, and no model of language has seen one, before
\* it is made; calls are left only while the tools of a message are executed.
NothingInvented(m) ==
  /\ told[m] = "created" => done[m] > 0
  /\ At(m) = "served" => done[m] > 0
  /\ At(m) # "none" => /\ turn[m].known = "created" => done[m] > 0
                       /\ turn[m].answer = "created" => done[m] > 0
  /\ At(m) \in {"llm", "read", "answer"} => turn[m].calls = 0

\* A message that is handled has no turn, and a request that nobody waits for
\* is one of an excused message.
NothingForgotten(m) ==
  /\ m \in handled => At(m) = "none"
  /\ late[m] # {} => m \in excused

\* The request of a message that somebody waits for.
InFlight(m) == IF At(m) \in {"sent", "verified"} THEN 1 ELSE 0

\* An order of a message that is not excused is on its way to the model of
\* language, has been seen by it, or has been told; those made, under way and
\* still to be requested are no more than it has asked for at once.
OrderIsSeen(m) ==
  /\ asked[m] >= 1 /\ done[m] <= asked[m]
  /\ At(m) # "none" => done[m] + turn[m].calls + InFlight(m) <= asked[m]
  /\ done[m] > 0 => \/ At(m) = "served"
                    \/ At(m) # "none" /\ turn[m].known = "created"
                    \/ m \in handled
  /\ m \notin exhausted =>
       /\ At(m) = "answer" /\ turn[m].known = "created" => turn[m].answer = "created"
       /\ m \in handled /\ done[m] > 0 => told[m] = "created"

MessageOK(m) == NothingInvented(m) /\ NothingForgotten(m) /\ (m \notin excused => OrderIsSeen(m))
TurnInv == TurnTypeOK /\ \A m \in Messages : MessageOK(m)

\* What happens for one message touches no other.
Apart(m) ==
  /\ \A n \in Messages \ {m} : /\ turn'[n] = turn[n] /\ late'[n] = late[n]
                               /\ done'[n] = done[n] /\ told'[n] = told[n] /\ asked'[n] = asked[n]
                               /\ n \in excused' <=> n \in excused
                               /\ n \in exhausted' <=> n \in exhausted
                               /\ n \in handled' <=> n \in handled

\* A step for one message needs to be looked at for this message alone.
LEMMA ApartOK ==
  ASSUME TurnInv, NEW m \in Messages, Apart(m), TurnTypeOK', MessageOK(m)'
  PROVE  TurnInv'
<1>1. ASSUME NEW n \in Messages \ {m} PROVE MessageOK(n)'
  <2>1. MessageOK(n)
    BY DEF TurnInv
  <2> QED BY <1>1, <2>1 DEF Apart, MessageOK, NothingInvented, NothingForgotten, OrderIsSeen, InFlight, At
<1> QED BY <1>1 DEF TurnInv

\* The steps of TurnNext for a message.
MessageStep(m) ==
  \/ BeginTurn(m) \/ CallTools(m) \/ Answer(m) \/ GiveUp(m)
  \/ PostAnswer(m) \/ TurnFails(m) \/ ExecuteTool(m) \/ ServeTool(m)

\* No message has a turn at first.
LEMMA TurnInitInv == TurnInit => TurnInv
  BY DEF TurnInit, TurnInv, TurnTypeOK, MessageOK, NothingInvented, NothingForgotten, OrderIsSeen, InFlight,
     At, NoTurn

\* run_turn starts knowing nothing: an order made before is one of an excused message.
LEMMA BeginTurnInv == ASSUME TurnInv, TurnAssumption, NEW m \in Messages,
   BeginTurn(m) PROVE TurnInv'
<1> DEFINE t == [pc |-> IF llm THEN "llm" ELSE "answer", left |-> MaxToolIterations, calls |-> 0,
                 known |-> "none", answer |-> IF llm THEN "none" ELSE "text"]
<1>1. t \in Turn /\ turn' = [turn EXCEPT ![m] = t]
  BY DEF BeginTurn, Turn, Steps, TurnAssumption
<1>2. /\ turn'[m].known = "none" /\ turn'[m].answer \in {"none", "text"}
      /\ turn'[m].pc \in {"llm", "answer"} /\ turn'[m].calls = 0
  BY <1>1 DEF TurnInv, TurnTypeOK
<1>3. TurnTypeOK'
  BY <1>1 DEF BeginTurn, history, TurnInv, TurnTypeOK
<1>4. MessageOK(m)'
  BY <1>2 DEF BeginTurn, history, TurnInv, TurnTypeOK, MessageOK, NothingInvented, NothingForgotten,
     OrderIsSeen, InFlight, At, NoTurn
<1>5. Apart(m)
  BY DEF BeginTurn, history, TurnInv, TurnTypeOK, Apart
<1> QED BY <1>3, <1>4, <1>5, ApartOK

\* The answer of the model of language says what it has seen.
LEMMA AnswerInv == ASSUME TurnInv, NEW m \in Messages, Answer(m) PROVE TurnInv'
<1>1. turn[m] \in Turn
  BY DEF Answer, At, NoTurn, TurnInv, TurnTypeOK
<1>2. /\ turn'[m] \in Turn /\ turn'[m].pc = "answer" /\ turn'[m].known = turn[m].known
      /\ turn[m].pc = "llm" /\ turn'[m].calls = turn[m].calls
      /\ turn'[m].answer = IF turn[m].known = "created" THEN "created" ELSE "text"
      /\ turn' \in [Messages -> {NoTurn} \cup Turn]
      /\ \A n \in Messages \ {m} : turn'[n] = turn[n]
  BY <1>1 DEF Answer, TurnInv, TurnTypeOK, Turn, Steps, At
<1>3. TurnTypeOK'
  BY <1>2 DEF Answer, history, TurnInv, TurnTypeOK
<1>4. MessageOK(m)'
  BY <1>1, <1>2 DEF Answer, history, TurnInv, TurnTypeOK, Turn, MessageOK, NothingInvented, NothingForgotten, OrderIsSeen, InFlight,
     At
<1>5. Apart(m)
  BY <1>2 DEF Answer, history, Apart
<1> QED BY <1>3, <1>4, <1>5, ApartOK

\* A call of tools: writes only when no order has been seen, and then there is none.
LEMMA CallToolsInv == ASSUME TurnInv, TurnAssumption, NEW m \in Messages, CallTools(m) PROVE TurnInv'
<1>1. turn[m] \in Turn /\ At(m) = "llm"
  BY DEF CallTools, At, NoTurn, TurnInv, TurnTypeOK
<1>2. PICK n \in 0 .. (IF turn[m].known = "created" THEN 0 ELSE MaxCalls) :
        /\ turn' = [turn EXCEPT ![m].pc = IF n = 0 THEN "read" ELSE "sent",
                                ![m].left = @ - 1, ![m].calls = IF n = 0 THEN 0 ELSE n - 1]
        /\ asked' = IF n > asked[m] THEN [asked EXCEPT ![m] = n] ELSE asked
        /\ turn[m].left > 0
  BY DEF CallTools
<1>3. n \in Nat /\ (n > 0 => turn[m].known # "created")
  BY <1>2 DEF TurnAssumption
<1>4. /\ turn'[m] \in Turn
      /\ turn'[m].pc = IF n = 0 THEN "read" ELSE "sent"
      /\ turn'[m].calls = IF n = 0 THEN 0 ELSE n - 1
      /\ turn'[m].known = turn[m].known
      /\ turn'[m].answer = turn[m].answer
      /\ turn' \in [Messages -> {NoTurn} \cup Turn]
      /\ \A k \in Messages \ {m} : turn'[k] = turn[k]
  BY <1>1, <1>2, <1>3 DEF TurnInv, TurnTypeOK, Turn, Steps
<1>5. /\ asked' \in [Messages -> Nat] /\ asked'[m] >= asked[m] /\ asked'[m] >= n
      /\ \A k \in Messages \ {m} : asked'[k] = asked[k]
  BY <1>2, <1>3 DEF TurnInv, TurnTypeOK
<1>6. UNCHANGED <<llm, late, done, told, handled, faults, excused, exhausted, allowed>>
  BY DEF CallTools
<1>7. TurnTypeOK'
  BY <1>4, <1>5, <1>6 DEF TurnInv, TurnTypeOK
<1>8. MessageOK(m)'
  <2>1. MessageOK(m) /\ done[m] \in Nat /\ asked[m] \in Nat /\ asked'[m] \in Nat
    BY <1>5 DEF TurnInv, TurnTypeOK
  <2>2. m \notin excused /\ n > 0 => done[m] = 0
    BY <1>1, <1>3, <2>1 DEF MessageOK, NothingForgotten, OrderIsSeen
  <2> QED BY <1>1, <1>3, <1>4, <1>5, <1>6, <2>1, <2>2
          DEF MessageOK, NothingInvented, NothingForgotten, OrderIsSeen, InFlight, At
<1>9. Apart(m)
  BY <1>4, <1>5, <1>6 DEF Apart
<1> QED BY <1>7, <1>8, <1>9, ApartOK

\* _fallback_turn makes the message one that was exhausted.
LEMMA GiveUpInv == ASSUME TurnInv, NEW m \in Messages, GiveUp(m) PROVE TurnInv'
<1>1. turn[m] \in Turn
  BY DEF GiveUp, At, NoTurn, TurnInv, TurnTypeOK
<1>2. /\ turn'[m] \in Turn
      /\ turn'[m].pc = "answer"
      /\ turn'[m].known = turn[m].known
      /\ turn'[m].calls = turn[m].calls /\ turn[m].pc = "llm"
      /\ turn'[m].answer = "sorry"
      /\ turn' \in [Messages -> {NoTurn} \cup Turn]
      /\ \A n \in Messages \ {m} : turn'[n] = turn[n]
  BY <1>1 DEF GiveUp, TurnInv, TurnTypeOK, Turn, Steps, At
<1>3. TurnTypeOK'
  BY <1>2 DEF GiveUp, history, TurnInv, TurnTypeOK
<1>4. MessageOK(m)'
  BY <1>1, <1>2 DEF GiveUp, history, TurnInv, TurnTypeOK, MessageOK, NothingInvented,
     NothingForgotten, OrderIsSeen, InFlight, At
<1>5. Apart(m)
  BY <1>2 DEF GiveUp, history, TurnInv, TurnTypeOK, Apart
<1> QED BY <1>3, <1>4, <1>5, ApartOK

\* A tool that reads.
LEMMA ReadToolInv == ASSUME TurnInv, NEW m \in Messages, ReadTool(m) PROVE TurnInv'
<1>1. turn[m] \in Turn
  BY DEF ReadTool, At, NoTurn, TurnInv, TurnTypeOK
<1>2. /\ turn'[m] \in Turn
      /\ turn'[m].pc = "llm"
      /\ turn'[m].known = turn[m].known
      /\ turn'[m].calls = turn[m].calls /\ turn[m].pc = "read"
      /\ turn'[m].answer = turn[m].answer
      /\ turn' \in [Messages -> {NoTurn} \cup Turn]
      /\ \A n \in Messages \ {m} : turn'[n] = turn[n]
  BY <1>1 DEF ReadTool, TurnInv, TurnTypeOK, Turn, Steps, Go, At
<1>3. TurnTypeOK'
  BY <1>2 DEF ReadTool, history, TurnInv, TurnTypeOK
<1>4. MessageOK(m)'
  BY <1>1, <1>2 DEF ReadTool, history, TurnInv, TurnTypeOK, MessageOK, NothingInvented,
     NothingForgotten, OrderIsSeen, InFlight, At
<1>5. Apart(m)
  BY <1>2 DEF ReadTool, history, TurnInv, TurnTypeOK, Apart
<1> QED BY <1>3, <1>4, <1>5, ApartOK

\* The result of a tool leads to the next call of the message, or to the next round.
LEMMA ReturnedTypes ==
  ASSUME TurnTypeOK, NEW m \in Messages, turn[m] \in Turn, NEW result \in {"failed", "created"},
         Returned(m, result)
  PROVE  /\ turn' \in [Messages -> {NoTurn} \cup Turn] /\ turn'[m] \in Turn
         /\ \A n \in Messages \ {m} : turn'[n] = turn[n]
         /\ turn'[m].answer = turn[m].answer
         /\ turn'[m].known = IF turn[m].known = "created" THEN "created" ELSE result
         /\ \/ turn[m].calls > 0 /\ turn'[m].pc = "sent" /\ turn'[m].calls = turn[m].calls - 1
            \/ turn[m].calls = 0 /\ turn'[m].pc = "llm" /\ turn'[m].calls = 0
<1> DEFINE seen == Seen(turn[m], result)
           next == NextCall(seen)
<1>1. /\ seen \in Turn /\ seen.answer = turn[m].answer /\ seen.calls = turn[m].calls
      /\ seen.known = IF turn[m].known = "created" THEN "created" ELSE result
  BY DEF Seen, Turn
<1> HIDE DEF seen
<1>2. seen.calls \in Nat
  BY <1>1 DEF Turn
<1>3. /\ next \in Turn /\ next.answer = seen.answer /\ next.known = seen.known
      /\ \/ seen.calls > 0 /\ next.pc = "sent" /\ next.calls = seen.calls - 1
         \/ seen.calls = 0 /\ next.pc = "llm" /\ next.calls = 0
  <2>1. CASE seen.calls > 0
    <3>1. next = [pc |-> "sent", left |-> seen.left, calls |-> seen.calls - 1,
                  known |-> seen.known, answer |-> seen.answer]
      BY <1>1, <2>1 DEF NextCall, Turn
    <3>2. seen.left \in Nat /\ seen.known \in {"none", "failed", "created"}
          /\ seen.answer \in {"none", "text", "created", "sorry"}
      BY <1>1 DEF Turn
    <3> QED BY <1>2, <2>1, <3>1, <3>2 DEF Turn, Steps
  <2>2. CASE seen.calls = 0
    <3>1. next = [seen EXCEPT !.pc = "llm"]
      BY <2>2 DEF NextCall
    <3> QED BY <1>1, <1>2, <2>2, <3>1 DEF Turn, Steps
  <2> QED BY <1>2, <2>1, <2>2
<1>4. turn' = [turn EXCEPT ![m] = next]
  BY DEF Returned, seen
<1> HIDE DEF next
<1>5. turn' \in [Messages -> {NoTurn} \cup Turn] /\ turn'[m] = next
      /\ \A n \in Messages \ {m} : turn'[n] = turn[n]
  BY <1>3, <1>4 DEF TurnTypeOK
<1> QED BY <1>1, <1>3, <1>5

\* The answer of create_order is seen.
LEMMA ToolAnswersInv == ASSUME TurnInv, NEW m \in Messages, ToolAnswers(m) PROVE TurnInv'
<1>1. turn[m] \in Turn
  BY DEF ToolAnswers, At, NoTurn, TurnInv, TurnTypeOK
<1>2. /\ turn' \in [Messages -> {NoTurn} \cup Turn] /\ turn'[m] \in Turn
      /\ \A n \in Messages \ {m} : turn'[n] = turn[n]
      /\ turn'[m].answer = turn[m].answer
      /\ turn'[m].known = IF turn[m].known = "created" THEN "created" ELSE "created"
      /\ \/ turn[m].calls > 0 /\ turn'[m].pc = "sent" /\ turn'[m].calls = turn[m].calls - 1
         \/ turn[m].calls = 0 /\ turn'[m].pc = "llm" /\ turn'[m].calls = 0
  BY <1>1, ReturnedTypes DEF ToolAnswers, TurnInv
<1>3. TurnTypeOK'
  BY <1>2 DEF ToolAnswers, history, TurnInv, TurnTypeOK
<1>4. MessageOK(m)'
  BY <1>1, <1>2 DEF ToolAnswers, history, TurnInv, TurnTypeOK, Turn, MessageOK, NothingInvented,
     NothingForgotten, OrderIsSeen, InFlight, At
<1>5. Apart(m)
  BY <1>2 DEF ToolAnswers, history, TurnInv, TurnTypeOK, Apart
<1> QED BY <1>3, <1>4, <1>5, ApartOK

\* A request that fails for the client: what it may still do is excused.
LEMMA LoseRequestInv == ASSUME TurnInv, NEW m \in Messages, LoseRequest(m) PROVE TurnInv'
<1>1. turn[m] \in Turn
  BY DEF LoseRequest, At, NoTurn, TurnInv, TurnTypeOK
<1>2. /\ turn' \in [Messages -> {NoTurn} \cup Turn] /\ turn'[m] \in Turn
      /\ \A n \in Messages \ {m} : turn'[n] = turn[n]
      /\ turn'[m].answer = turn[m].answer
      /\ turn'[m].known = IF turn[m].known = "created" THEN "created" ELSE "failed"
      /\ \/ turn[m].calls > 0 /\ turn'[m].pc = "sent" /\ turn'[m].calls = turn[m].calls - 1
         \/ turn[m].calls = 0 /\ turn'[m].pc = "llm" /\ turn'[m].calls = 0
  BY <1>1, ReturnedTypes DEF LoseRequest, TurnInv
<1>3. TurnTypeOK'
  BY <1>2 DEF LoseRequest, history, TurnInv, TurnTypeOK, Fault
<1>4. MessageOK(m)'
  BY <1>1, <1>2 DEF LoseRequest, history, TurnInv, TurnTypeOK, Turn, MessageOK, NothingInvented,
     NothingForgotten, OrderIsSeen, InFlight, At, Fault
<1>5. Apart(m)
  BY <1>2 DEF LoseRequest, history, TurnInv, TurnTypeOK, Apart, Fault
<1> QED BY <1>3, <1>4, <1>5, ApartOK

\* A refusal makes no order.
LEMMA RefuseOrderInv == ASSUME TurnInv, NEW m \in Messages, RefuseOrder(m) PROVE TurnInv'
<1>1. turn[m] \in Turn
  BY DEF RefuseOrder, At, NoTurn, TurnInv, TurnTypeOK
<1>2. /\ turn' \in [Messages -> {NoTurn} \cup Turn] /\ turn'[m] \in Turn
      /\ \A n \in Messages \ {m} : turn'[n] = turn[n]
      /\ turn'[m].answer = turn[m].answer
      /\ turn'[m].known = IF turn[m].known = "created" THEN "created" ELSE "failed"
      /\ \/ turn[m].calls > 0 /\ turn'[m].pc = "sent" /\ turn'[m].calls = turn[m].calls - 1
         \/ turn[m].calls = 0 /\ turn'[m].pc = "llm" /\ turn'[m].calls = 0
  BY <1>1, ReturnedTypes DEF RefuseOrder, TurnInv
<1>3. TurnTypeOK'
  BY <1>2 DEF RefuseOrder, history, TurnInv, TurnTypeOK
<1>4. MessageOK(m)'
  BY <1>1, <1>2 DEF RefuseOrder, history, TurnInv, TurnTypeOK, Turn, MessageOK, NothingInvented,
     NothingForgotten, OrderIsSeen, InFlight, At
<1>5. Apart(m)
  BY <1>2 DEF RefuseOrder, history, TurnInv, TurnTypeOK, Apart
<1> QED BY <1>3, <1>4, <1>5, ApartOK

\* What Made writes.
LEMMA MadeTypes ==
  ASSUME TurnInv, NEW m \in Messages, Made(m)
  PROVE  /\ done' \in [Messages -> Nat] /\ done'[m] = done[m] + 1
         /\ \A n \in Messages \ {m} : done'[n] = done[n]
         /\ allowed' \in Int
<1>1. /\ done' \in [Messages -> Nat] /\ done'[m] = done[m] + 1
      /\ \A n \in Messages \ {m} : done'[n] = done[n]
  BY DEF Made, TurnInv, TurnTypeOK
<1>2. allowed' = allowed \/ allowed' = allowed - 1
  BY DEF Made
<1> QED BY <1>1, <1>2 DEF TurnInv, TurnTypeOK

\* The first order of a message that is not excused.
LEMMA ServeRequestInv == ASSUME TurnInv, NEW m \in Messages, ServeRequest(m) PROVE TurnInv'
<1>1. turn[m] \in Turn
  BY DEF ServeRequest, At, NoTurn, TurnInv, TurnTypeOK
<1>2. /\ turn'[m] \in Turn
      /\ turn'[m].pc = "served"
      /\ turn'[m].known = turn[m].known /\ turn'[m].calls = turn[m].calls
      /\ turn'[m].answer = turn[m].answer
      /\ turn' \in [Messages -> {NoTurn} \cup Turn]
      /\ \A n \in Messages \ {m} : turn'[n] = turn[n]
  BY <1>1 DEF ServeRequest, TurnInv, TurnTypeOK, Turn, Steps, Go
<1>3. TurnTypeOK'
  BY <1>2, MadeTypes DEF ServeRequest, TurnInv, TurnTypeOK
<1>4. MessageOK(m)'
  BY <1>1, <1>2 DEF ServeRequest, history, TurnInv, TurnTypeOK, Turn, MessageOK, NothingInvented,
     NothingForgotten, OrderIsSeen, InFlight, At, Made
<1>5. Apart(m)
  BY <1>2 DEF ServeRequest, history, TurnInv, TurnTypeOK, Apart, Made
<1> QED BY <1>3, <1>4, <1>5, ApartOK

\* The check of the key makes nothing.
LEMMA VerifyRequestInv == ASSUME TurnInv, NEW m \in Messages, VerifyRequest(m) PROVE TurnInv'
<1>1. turn[m] \in Turn
  BY DEF VerifyRequest, At, NoTurn, TurnInv, TurnTypeOK
<1>2. /\ turn' \in [Messages -> {NoTurn} \cup Turn] /\ turn'[m] \in Turn
      /\ \A n \in Messages \ {m} : turn'[n] = turn[n]
      /\ turn'[m].answer = turn[m].answer
      /\ \/ /\ turn'[m].pc = "verified" /\ turn'[m].known = turn[m].known
            /\ turn'[m].calls = turn[m].calls
         \/ /\ turn'[m].known = IF turn[m].known = "created" THEN "created" ELSE "failed"
            /\ \/ turn[m].calls > 0 /\ turn'[m].pc = "sent" /\ turn'[m].calls = turn[m].calls - 1
               \/ turn[m].calls = 0 /\ turn'[m].pc = "llm" /\ turn'[m].calls = 0
  <2>1. CASE Authorised
    BY <1>1, <2>1 DEF VerifyRequest, TurnInv, TurnTypeOK, Turn, Steps, Go
  <2>2. CASE ~ Authorised
    BY <1>1, <2>2, ReturnedTypes DEF VerifyRequest, TurnInv
  <2> QED BY <2>1, <2>2
<1>3. TurnTypeOK'
  BY <1>2 DEF VerifyRequest, history, TurnInv, TurnTypeOK
<1>4. MessageOK(m)'
  BY <1>1, <1>2 DEF VerifyRequest, history, TurnInv, TurnTypeOK, Turn, MessageOK, NothingInvented,
     NothingForgotten, OrderIsSeen, InFlight, At
<1>5. Apart(m)
  BY <1>2 DEF VerifyRequest, history, TurnInv, TurnTypeOK, Apart
<1> QED BY <1>3, <1>4, <1>5, ApartOK

\* A late request is one of an excused message.
LEMMA LateRequestInv == ASSUME TurnInv, NEW m \in Messages, LateRequest(m) PROVE TurnInv'
<1>1. m \in excused /\ m \in excused'
  BY DEF LateRequest, TurnInv, MessageOK, NothingForgotten
<1>2. /\ late' \in [Messages -> {{}, {"sent"}, {"verified"}}]
      /\ \A n \in Messages \ {m} : late'[n] = late[n]
  BY DEF LateRequest, TurnInv, TurnTypeOK
<1>3. /\ done' \in [Messages -> Nat] /\ done'[m] >= done[m]
      /\ \A n \in Messages \ {m} : done'[n] = done[n]
      /\ allowed' \in Int
  BY MadeTypes DEF LateRequest, TurnInv, TurnTypeOK
<1>4. TurnTypeOK'
  BY <1>2, <1>3 DEF LateRequest, TurnInv, TurnTypeOK
<1>5. MessageOK(m)'
  BY <1>1, <1>3 DEF LateRequest, TurnInv, TurnTypeOK, MessageOK, NothingInvented,
     NothingForgotten, At
<1>6. Apart(m)
  BY <1>2, <1>3 DEF LateRequest, Apart
<1> QED BY <1>4, <1>5, <1>6, ApartOK

\* post_message tells what has been seen, and ends the turn.
LEMMA PostAnswerInv == ASSUME TurnInv, NEW m \in Messages, PostAnswer(m) PROVE TurnInv'
<1>1. turn[m] \in Turn
  BY DEF PostAnswer, At, NoTurn, TurnInv, TurnTypeOK
<1>2. /\ turn'[m] = NoTurn /\ turn' \in [Messages -> {NoTurn} \cup Turn]
      /\ told'[m] = turn[m].answer /\ told' \in [Messages -> {"none", "text", "created", "sorry"}]
      /\ \A n \in Messages \ {m} : turn'[n] = turn[n] /\ told'[n] = told[n]
  BY <1>1 DEF PostAnswer, TurnInv, TurnTypeOK, Turn
<1>3. TurnTypeOK'
  BY <1>2 DEF PostAnswer, history, TurnInv, TurnTypeOK
<1>4. MessageOK(m)'
  BY <1>1, <1>2 DEF PostAnswer, history, TurnInv, TurnTypeOK, MessageOK, NothingInvented,
     NothingForgotten, OrderIsSeen, InFlight, At, NoTurn
<1>5. Apart(m)
  BY <1>2 DEF PostAnswer, history, Apart
<1> QED BY <1>3, <1>4, <1>5, ApartOK

\* A turn that fails after it made an order, or may yet make one, is excused.
LEMMA TurnFailsInv == ASSUME TurnInv, NEW m \in Messages, TurnFails(m) PROVE TurnInv'
<1>1. turn[m] \in Turn
  BY DEF TurnFails, At, NoTurn, TurnInv, TurnTypeOK
<1>2. /\ turn'[m] = NoTurn /\ turn' \in [Messages -> {NoTurn} \cup Turn]
      /\ \A n \in Messages \ {m} : turn'[n] = turn[n]
  BY <1>1 DEF TurnFails, TurnInv, TurnTypeOK
<1>3. /\ told'[m] = told[m] \/ told'[m] = turn[m].answer
      /\ told' \in [Messages -> {"none", "text", "created", "sorry"}]
      /\ \A n \in Messages \ {m} : told'[n] = told[n]
  BY <1>1 DEF TurnFails, TurnInv, TurnTypeOK, Turn
<1>4. /\ late' \in [Messages -> {{}, {"sent"}, {"verified"}}]
      /\ \A n \in Messages \ {m} : late'[n] = late[n]
  BY DEF TurnFails, TurnInv, TurnTypeOK
<1>5. /\ m \notin excused' => m \notin excused /\ done[m] = 0 /\ late'[m] = {}
      /\ \A n \in Messages \ {m} : n \in excused' <=> n \in excused
  BY DEF TurnFails, TurnInv, TurnTypeOK
<1>6. TurnTypeOK'
  BY <1>2, <1>3, <1>4 DEF TurnFails, TurnInv, TurnTypeOK
<1>7. MessageOK(m)'
  BY <1>1, <1>2, <1>3, <1>5 DEF TurnFails, TurnInv, TurnTypeOK, MessageOK, NothingInvented,
     NothingForgotten, OrderIsSeen, InFlight, At, NoTurn
<1>8. Apart(m)
  BY <1>2, <1>3, <1>4, <1>5 DEF TurnFails, Apart
<1> QED BY <1>6, <1>7, <1>8, ApartOK

\* Every step for a message.
LEMMA MessageStepInv == ASSUME TurnInv, TurnAssumption, NEW m \in Messages,
   MessageStep(m) PROVE TurnInv'
  BY BeginTurnInv, CallToolsInv, AnswerInv, GiveUpInv, PostAnswerInv, TurnFailsInv, ReadToolInv,
     ToolAnswersInv, LoseRequestInv, VerifyRequestInv, RefuseOrderInv, ServeRequestInv,
        LateRequestInv
     DEF MessageStep, ExecuteTool, ServeTool

\* A step that touches no turn.
LEMMA TurnKept ==
  ASSUME TurnInv, UNCHANGED <<turn, late, done, asked, told, handled, excused, exhausted>>,
     allowed' \in Int
  PROVE  TurnInv'
BY DEF TurnInv, TurnTypeOK, MessageOK, NothingInvented, NothingForgotten, OrderIsSeen, InFlight, At

\* The invariant of the turns gives the two properties of orders.
LEMMA TurnSafe == TurnInv => OrderedOnce /\ OrdersAreTold
<1> SUFFICES ASSUME TurnInv PROVE OrderedOnce /\ OrdersAreTold
  OBVIOUS
<1>1. ASSUME NEW m \in Messages \ excused PROVE done[m] + Cardinality(late[m]) <= asked[m]
  <2>1. late[m] = {} /\ done[m] <= asked[m] /\ done[m] \in Nat
    BY DEF TurnInv, TurnTypeOK, MessageOK, NothingForgotten, OrderIsSeen
  <2> QED BY <2>1, FS_EmptySet
<1>2. OrdersAreTold
  BY DEF OrdersAreTold, TurnInv, TurnTypeOK, MessageOK, NothingInvented, OrderIsSeen
<1> QED BY <1>1, <1>2 DEF OrderedOnce

-----------------------------------------------------------------------------
(***************************************************************************)
(* The agent's key.                                                        *)
(***************************************************************************)

\* Write requests that have passed the check of the key, by whether somebody
\* still waits for them.
Checked == {m \in Messages : At(m) = "verified"}
LateChecked == {m \in Messages : late[m] = {"verified"}}

\* While the key is not valid every request that was let in is allowed for.
KeyInv ==
  /\ IsFiniteSet(Checked) /\ IsFiniteSet(LateChecked)
  /\ allowed \in Nat
  /\ VerifyKey(SeedKey) \/ Cardinality(Checked) + Cardinality(LateChecked) <= allowed

\* Nothing is let in at first.
LEMMA KeyInitInv == TurnInit => KeyInv
<1> SUFFICES ASSUME TurnInit PROVE KeyInv
  OBVIOUS
<1>1. Checked = {} /\ LateChecked = {} /\ allowed = 0
  BY DEF TurnInit, Checked, LateChecked, At, NoTurn
<1> QED BY <1>1, FS_EmptySet DEF KeyInv

\* Fewer requests are let in.
LEMMA FewerLetIn ==
  ASSUME KeyInv, UNCHANGED <<keys, allowed>>, Checked' \subseteq Checked,
     LateChecked' \subseteq LateChecked
  PROVE  KeyInv'
<1>1. /\ IsFiniteSet(Checked') /\ Cardinality(Checked') <= Cardinality(Checked)
      /\ IsFiniteSet(LateChecked') /\ Cardinality(LateChecked') <= Cardinality(LateChecked)
      /\ Cardinality(Checked) \in Nat /\ Cardinality(LateChecked) \in Nat
      /\ Cardinality(Checked') \in Nat /\ Cardinality(LateChecked') \in Nat
  BY FS_Subset, FS_CardinalityType DEF KeyInv
<1>2. VerifyKey(SeedKey)' <=> VerifyKey(SeedKey)
  BY DEF VerifyKey
<1>3. allowed' \in Nat
  BY DEF KeyInv
<1>4. VerifyKey(SeedKey)' \/ Cardinality(Checked)' + Cardinality(LateChecked)' <= allowed'
  <2>1. CASE VerifyKey(SeedKey)
    BY <1>2, <2>1
  <2>2. CASE ~ VerifyKey(SeedKey)
    BY <1>1, <2>2 DEF KeyInv
  <2> QED BY <2>1, <2>2
<1> QED BY <1>1, <1>3, <1>4 DEF KeyInv

\* Nobody waits any more for a request that is let in.
LEMMA LetInIsLeft ==
  ASSUME KeyInv, UNCHANGED <<keys, allowed>>, NEW m \in Checked,
         Checked' \subseteq Checked \ {m}, LateChecked' \subseteq LateChecked \cup {m}
  PROVE  KeyInv'
<1>1. /\ IsFiniteSet(Checked \ {m}) /\ Cardinality(Checked \ {m}) = Cardinality(Checked) - 1
      /\ IsFiniteSet(LateChecked \cup {m})
      /\ Cardinality(LateChecked \cup {m}) <= Cardinality(LateChecked) + 1
      /\ Cardinality(Checked) \in Nat /\ Cardinality(LateChecked) \in Nat
  <2>1. Cardinality(Checked) \in Nat /\ Cardinality(LateChecked) \in Nat
    BY FS_CardinalityType DEF KeyInv
  <2>2. IsFiniteSet(Checked \ {m}) /\ Cardinality(Checked \ {m}) = Cardinality(Checked) - 1
    BY FS_RemoveElement DEF KeyInv
  <2>3. /\ IsFiniteSet(LateChecked \cup {m})
        /\ Cardinality(LateChecked \cup {m}) =
             IF m \in LateChecked THEN Cardinality(LateChecked) ELSE Cardinality(LateChecked) + 1
    BY FS_AddElement DEF KeyInv
  <2> QED BY <2>1, <2>2, <2>3
<1>2. /\ IsFiniteSet(Checked') /\ Cardinality(Checked') <= Cardinality(Checked \ {m})
      /\ Cardinality(Checked') \in Nat
  BY <1>1, FS_Subset, FS_CardinalityType
<1>3. /\ IsFiniteSet(LateChecked') /\ Cardinality(LateChecked') <= Cardinality(LateChecked \cup {m})
      /\ Cardinality(LateChecked') \in Nat /\ Cardinality(LateChecked \cup {m}) \in Nat
  BY <1>1, FS_Subset, FS_CardinalityType
<1>4. VerifyKey(SeedKey)' <=> VerifyKey(SeedKey)
  BY DEF VerifyKey
<1>5. allowed' \in Nat
  BY DEF KeyInv
<1>6. VerifyKey(SeedKey)' \/ Cardinality(Checked)' + Cardinality(LateChecked)' <= allowed'
  <2>1. CASE VerifyKey(SeedKey)
    BY <1>4, <2>1
  <2>2. CASE ~ VerifyKey(SeedKey)
    BY <1>1, <1>2, <1>3, <2>2 DEF KeyInv
  <2> QED BY <2>1, <2>2
<1> QED BY <1>2, <1>3, <1>5, <1>6 DEF KeyInv

\* An order is made by a request that was let in.
LEMMA LetInIsMade ==
  ASSUME KeyInv, TurnInv, NEW m \in Messages, Made(m), UNCHANGED keys,
         \/ m \in Checked /\ Checked' = Checked \ {m} /\ LateChecked' = LateChecked
         \/ m \in LateChecked /\ Checked' = Checked /\ LateChecked' = LateChecked \ {m}
  PROVE  KeyInv'
<1>1. /\ Cardinality(Checked) \in Nat /\ Cardinality(LateChecked) \in Nat
      /\ IsFiniteSet(Checked) /\ IsFiniteSet(LateChecked) /\ allowed \in Nat
  BY FS_CardinalityType DEF KeyInv
<1>2. /\ IsFiniteSet(Checked') /\ IsFiniteSet(LateChecked')
      /\ Cardinality(Checked') \in Nat /\ Cardinality(LateChecked') \in Nat
      /\ Cardinality(Checked') + Cardinality(LateChecked')
           = Cardinality(Checked) + Cardinality(LateChecked) - 1
  <2>1. CASE m \in Checked /\ Checked' = Checked \ {m} /\ LateChecked' = LateChecked
    <3>1. IsFiniteSet(Checked \ {m}) /\ Cardinality(Checked \ {m}) = Cardinality(Checked) - 1
      BY <1>1, <2>1, FS_RemoveElement
    <3>2. Cardinality(Checked \ {m}) \in Nat
      BY <3>1, FS_CardinalityType
    <3> QED BY <1>1, <2>1, <3>1, <3>2
  <2>2. CASE m \in LateChecked /\ Checked' = Checked /\ LateChecked' = LateChecked \ {m}
    <3>1. IsFiniteSet(LateChecked \ {m}) /\ Cardinality(LateChecked \ {m}) = Cardinality(LateChecked) - 1
      BY <1>1, <2>2, FS_RemoveElement
    <3>2. Cardinality(LateChecked \ {m}) \in Nat
      BY <3>1, FS_CardinalityType
    <3> QED BY <1>1, <2>2, <3>1, <3>2
  <2> QED BY <2>1, <2>2
<1>3. VerifyKey(SeedKey)' <=> VerifyKey(SeedKey)
  BY DEF VerifyKey
<1>4. CASE VerifyKey(SeedKey)
  <2>1. allowed' = allowed
    BY <1>4 DEF Made
  <2> QED BY <1>1, <1>2, <1>3, <1>4, <2>1 DEF KeyInv
<1>5. CASE ~ VerifyKey(SeedKey)
  <2>1. allowed' = allowed - 1
    BY <1>5 DEF Made
  <2>2. Cardinality(Checked) + Cardinality(LateChecked) <= allowed
    BY <1>5 DEF KeyInv
  <2>3. Cardinality(Checked') + Cardinality(LateChecked') <= allowed' /\ allowed' \in Nat
    BY <1>1, <1>2, <2>1, <2>2
  <2> QED BY <1>2, <2>3 DEF KeyInv
<1> QED BY <1>4, <1>5

\* A step for a message lets a request in only with a valid key, and an order
\* is made by a request that was let in.
LEMMA KeyMessageInv ==
  ASSUME KeyInv, TurnInv, TurnInv', UNCHANGED desk, NEW m \in Messages, MessageStep(m)
  PROVE  KeyInv'
<1>1. UNCHANGED keys
  BY DEF desk
<1>2. CASE BeginTurn(m) \/ CallTools(m) \/ Answer(m) \/ GiveUp(m) \/ PostAnswer(m) \/ ReadTool(m)
           \/ ToolAnswers(m)
  <2>1. \A n \in Messages : At(n)' = "verified" => At(n) = "verified"
    <3>1. turn' \in [Messages -> {NoTurn} \cup Turn] /\ \A n \in Messages \ {m} : turn'[n] = turn[n]
      BY <1>2 DEF TurnInv, TurnTypeOK, BeginTurn, CallTools, Answer, GiveUp, PostAnswer, ReadTool,
         ToolAnswers, Go, Returned
    <3>2. CASE BeginTurn(m) \/ PostAnswer(m)
      BY <3>1, <3>2 DEF BeginTurn, PostAnswer, TurnInv, TurnTypeOK, At, NoTurn
    <3>3. CASE CallTools(m) \/ Answer(m) \/ GiveUp(m) \/ ReadTool(m) \/ ToolAnswers(m)
      <4>1. turn[m] \in Turn
        <5>1. At(m) # "none"
          BY <3>3 DEF CallTools, Answer, GiveUp, ReadTool, ToolAnswers
        <5> QED BY <5>1 DEF At, NoTurn, TurnInv, TurnTypeOK
      <4>2. turn'[m].pc # "verified"
        <5>1. CASE CallTools(m)
          BY <4>1, <5>1 DEF CallTools, TurnInv, TurnTypeOK, Turn
        <5>2. CASE Answer(m) \/ GiveUp(m)
          BY <4>1, <5>2 DEF Answer, GiveUp, TurnInv, TurnTypeOK, Turn
        <5>3. CASE ReadTool(m)
          BY <4>1, <5>3 DEF ReadTool, Go, TurnInv, TurnTypeOK, Turn
        <5>4. CASE ToolAnswers(m)
          BY <4>1, <5>4, ReturnedTypes DEF ToolAnswers, TurnInv
        <5> QED BY <3>3, <5>1, <5>2, <5>3, <5>4
      <4> QED BY <3>1, <4>2 DEF At
    <3> QED BY <1>2, <3>2, <3>3
  <2>2. UNCHANGED <<late, allowed>>
    BY <1>2 DEF BeginTurn, CallTools, Answer, GiveUp, PostAnswer, ReadTool, ToolAnswers, history
  <2> QED BY <1>1, <2>1, <2>2, FewerLetIn DEF Checked, LateChecked
<1>3. CASE RefuseOrder(m)
  <2>1. \A n \in Messages : At(n)' = "verified" => At(n) = "verified"
    <3>1. turn[m] \in Turn
      BY <1>3 DEF RefuseOrder, At, NoTurn, TurnInv, TurnTypeOK
    <3> QED BY <1>3, <3>1, ReturnedTypes DEF TurnInv, RefuseOrder, At
  <2> QED BY <1>1, <1>3, <2>1, FewerLetIn DEF Checked, LateChecked, RefuseOrder, history
<1>4. CASE VerifyRequest(m)
  <2>1. CASE ~ Authorised
    <3>1. \A n \in Messages : At(n)' = "verified" => At(n) = "verified"
      <4>1. turn[m] \in Turn
        BY <1>4 DEF VerifyRequest, At, NoTurn, TurnInv, TurnTypeOK
      <4>2. turn'[m].pc \in {"sent", "llm"} /\ \A n \in Messages \ {m} : turn'[n] = turn[n]
        BY <1>4, <2>1, <4>1, ReturnedTypes DEF VerifyRequest, TurnInv
      <4> QED BY <4>2 DEF At
    <3> QED BY <1>1, <1>4, <3>1, FewerLetIn DEF Checked, LateChecked, VerifyRequest, history
  <2>2. CASE Authorised
    <3>1. \A n \in Messages \ {m} : At(n)' = At(n)
      BY <1>4 DEF TurnInv, TurnTypeOK, VerifyRequest, Returned, Go, At
    <3>2. Checked' \subseteq Checked \cup {m} /\ LateChecked' = LateChecked
      BY <1>4, <3>1 DEF Checked, LateChecked, VerifyRequest, history
    <3>3. IsFiniteSet(Checked')
      <4>1. IsFiniteSet(Checked \cup {m})
        BY FS_AddElement DEF KeyInv
      <4> QED BY <3>2, <4>1, FS_Subset
    <3>4. VerifyKey(SeedKey)' /\ allowed' = allowed
      BY <1>1, <1>4, <2>2 DEF Authorised, VerifyKey, VerifyRequest, history
    <3> QED BY <3>2, <3>3, <3>4 DEF KeyInv
  <2> QED BY <2>1, <2>2
<1>5. CASE ServeRequest(m)
  <2>1. /\ At(m) = "verified" /\ At(m)' = "served"
        /\ \A n \in Messages \ {m} : At(n)' = At(n)
    BY <1>5 DEF TurnInv, TurnTypeOK, ServeRequest, Go, At, NoTurn
  <2>2. Checked' = Checked \ {m} /\ m \in Checked /\ LateChecked' = LateChecked
    BY <1>5, <2>1 DEF Checked, LateChecked, ServeRequest
  <2> QED BY <1>1, <1>5, <2>2, LetInIsMade DEF ServeRequest
<1>6. CASE TurnFails(m) \/ LoseRequest(m)
  <2>1. /\ At(m)' # "verified" /\ \A n \in Messages \ {m} : At(n)' = At(n)
        /\ UNCHANGED allowed
    <3>1. turn'[m].pc # "verified" /\ \A n \in Messages \ {m} : turn'[n] = turn[n]
      <4>1. CASE TurnFails(m)
        <5>1. turn' = [turn EXCEPT ![m] = NoTurn]
          BY <4>1 DEF TurnFails
        <5> QED BY <5>1 DEF NoTurn, TurnInv, TurnTypeOK
      <4>2. CASE LoseRequest(m)
        <5>1. turn[m] \in Turn
          BY <4>2 DEF LoseRequest, At, NoTurn, TurnInv, TurnTypeOK
        <5> QED BY <4>2, <5>1, ReturnedTypes DEF LoseRequest, TurnInv
      <4> QED BY <1>6, <4>1, <4>2
    <3>2. UNCHANGED allowed
      BY <1>6 DEF TurnFails, LoseRequest
    <3> QED BY <3>1, <3>2 DEF At
  <2>2. /\ late'[m] = {"verified"} => At(m) = "verified"
        /\ \A n \in Messages \ {m} : late'[n] = late[n]
    <3>1. CASE TurnFails(m)
      <4>1. late' = IF At(m) \in {"sent", "verified"} THEN [late EXCEPT ![m] = {At(m)}] ELSE late
        BY <3>1, Zenon DEF TurnFails
      <4>2. late[m] = {}
        BY <3>1, Zenon DEF TurnFails
      <4> QED BY <4>1, <4>2 DEF TurnInv, TurnTypeOK
    <3>2. CASE LoseRequest(m)
      <4>1. late' = late \/ late' = [late EXCEPT ![m] = {At(m)}]
        BY <3>2 DEF LoseRequest
      <4>2. late[m] = {}
        BY <3>2 DEF LoseRequest
      <4> QED BY <4>1, <4>2 DEF TurnInv, TurnTypeOK
    <3> QED BY <1>6, <3>1, <3>2
  <2>3. CASE m \in Checked
    BY <1>1, <2>1, <2>2, <2>3, LetInIsLeft DEF Checked, LateChecked
  <2>4. CASE m \notin Checked
    BY <1>1, <2>1, <2>2, <2>4, FewerLetIn DEF Checked, LateChecked
  <2> QED BY <2>3, <2>4
<1>7. CASE LateRequest(m)
  <2>1. Checked' = Checked /\ \A n \in Messages \ {m} : late'[n] = late[n]
    BY <1>7 DEF LateRequest, TurnInv, TurnTypeOK, Checked, At
  <2>2. CASE late[m] = {"sent"}
    <3>1. UNCHANGED allowed
      BY <1>7, <2>2 DEF LateRequest
    <3>2. CASE ~ Authorised
      <4>1. late'[m] = {}
        BY <1>7, <2>2, <3>2 DEF LateRequest, TurnInv, TurnTypeOK
      <4> QED BY <1>1, <2>1, <3>1, <4>1, FewerLetIn DEF LateChecked
    <3>3. CASE Authorised
      <4>1. LateChecked' \subseteq LateChecked \cup {m}
        BY <2>1 DEF LateChecked
      <4>2. IsFiniteSet(LateChecked')
        <5>1. IsFiniteSet(LateChecked \cup {m})
          BY FS_AddElement DEF KeyInv
        <5> QED BY <4>1, <5>1, FS_Subset
      <4>3. VerifyKey(SeedKey)'
        BY <1>1, <3>3 DEF Authorised, VerifyKey
      <4> QED BY <2>1, <3>1, <4>2, <4>3 DEF KeyInv
    <3> QED BY <3>2, <3>3
  <2>3. CASE late[m] = {"verified"}
    <3>1. late'[m] = {} /\ Made(m)
      BY <1>7, <2>3 DEF LateRequest, TurnInv, TurnTypeOK
    <3>2. m \in LateChecked /\ LateChecked' = LateChecked \ {m}
      BY <2>1, <2>3, <3>1 DEF LateChecked
    <3> QED BY <1>1, <2>1, <3>1, <3>2, LetInIsMade
  <2> QED BY <1>7, <2>2, <2>3 DEF LateRequest
<1> QED BY <1>2, <1>3, <1>4, <1>5, <1>6, <1>7 DEF MessageStep, ExecuteTool, ServeTool

\* set_key_enabled and delete_key: what has been let in is allowed for.
LEMMA KeyTakenInv == ASSUME KeyInv, KeyTaken PROVE KeyInv'
<1>1. Checked' = Checked /\ LateChecked' = LateChecked
  BY DEF KeyTaken, Checked, LateChecked, At
<1>2. LetIn \in Nat /\ LetIn = Cardinality(Checked) + Cardinality(LateChecked)
  BY FS_CardinalityType DEF KeyInv, LetIn, Checked, LateChecked
<1>3. CASE VerifyKey(SeedKey)'
  BY <1>1, <1>3 DEF KeyTaken, KeyInv
<1>4. CASE ~ VerifyKey(SeedKey)'
  BY <1>1, <1>2, <1>4 DEF KeyTaken, KeyInv
<1> QED BY <1>3, <1>4

\* The pages and the seed leave the agent's key as it is, but that the seed
\* puts it back, enabled, when it is missing.
LEMMA KeyDeskInv == ASSUME KeyInv, DeskNext PROVE KeyInv'
<1>1. Checked' = Checked /\ LateChecked' = LateChecked /\ allowed' = allowed
  BY DEF DeskNext, turns, Checked, LateChecked, At
<1>2. VerifyKey(SeedKey) => VerifyKey(SeedKey)'
  <2>1. CASE SeedAll
    BY <2>1 DEF SeedAll, StartCore, SeedPrompt, SeedTools, SeedApiKey, StopCore, VerifyKey, With
  <2>2. CASE PromptPages \/ ToolPages
    BY <2>2 DEF PromptPages, ToolPages, CreatePrompt, AddPromptVersion, BeginVersion,
       ActivatePromptVersion,
       UpdateTool, VerifyKey
  <2>3. ASSUME NEW k \in Keys \ {SeedKey},
     KeyPages(k) PROVE VerifyKey(SeedKey) => VerifyKey(SeedKey)'
    BY <2>3 DEF KeyPages, CreateKey, ToggleKey, DeleteKey, VerifyKey, With
  <2> QED BY <2>1, <2>2, <2>3 DEF DeskNext
<1> QED BY <1>1, <1>2 DEF KeyInv

-----------------------------------------------------------------------------
(***************************************************************************)
(* The specification.                                                      *)
(***************************************************************************)

\* What holds in every reachable state.
IInv == AdminInv /\ TurnInv /\ KeyInv

\* The invariant holds at first.
LEMMA InitIInv == Init => IInv
  BY AdminInitInv, TurnInitInv, KeyInitInv DEF Init, IInv

\* Every step keeps the invariant.
LEMMA NextIInv == IInv /\ [Next]_vars => IInv'
<1> USE AdminAssumption, TurnAssumption
<1> SUFFICES ASSUME IInv, [Next]_vars PROVE IInv'
  OBVIOUS
<1>1. CASE DeskNext
  <2>1. AdminInv'
    BY <1>1, SeedInv, PagesInv DEF DeskNext, IInv
  <2>2. TurnInv'
    BY <1>1, TurnKept DEF DeskNext, turns, IInv, TurnInv, TurnTypeOK
  <2> QED BY <1>1, <2>1, <2>2, KeyDeskInv DEF IInv
<1>2. CASE KeyTaken
  <2>1. AdminInv'
    BY <1>2, KeysAndToolsInv DEF KeyTaken, ToggleKey, DeleteKey, IInv
  <2>2. KeyInv'
    BY <1>2, KeyTakenInv DEF IInv
  <2>3. TurnInv'
    BY <1>2, <2>2, TurnKept DEF KeyTaken, IInv, KeyInv
  <2> QED BY <2>1, <2>2, <2>3 DEF IInv
<1>3. ASSUME NEW m \in Messages, MessageStep(m), UNCHANGED desk PROVE IInv'
  <2>1. AdminInv'
    BY <1>3, KeysAndToolsInv DEF desk, IInv
  <2>2. TurnInv'
    BY <1>3, MessageStepInv DEF IInv
  <2>3. KeyInv'
    BY <1>3, <2>2, KeyMessageInv DEF IInv
  <2> QED BY <2>1, <2>2, <2>3 DEF IInv
<1>4. CASE UNCHANGED vars
  <2>1. AdminInv'
    BY <1>4, KeysAndToolsInv DEF vars, desk, IInv
  <2>2. TurnInv'
    BY <1>4, TurnKept DEF vars, turns, history, IInv, TurnInv, TurnTypeOK
  <2>3. KeyInv'
    BY <1>4, FewerLetIn DEF vars, desk, turns, IInv, Checked, LateChecked, At
  <2> QED BY <2>1, <2>2, <2>3 DEF IInv
<1> QED BY <1>1, <1>2, <1>3, <1>4 DEF Next, TurnNext, MessageStep

\* The invariant holds in every reachable state.
LEMMA SpecIInv == Spec => []IInv
<1>1. Init => IInv
  BY InitIInv
<1>2. IInv /\ [Next]_vars => IInv'
  BY NextIInv
<1> QED BY <1>1, <1>2, PTL DEF Spec

\* However forms of administrators, seeds and stops of the core interleave, a
\* prompt has its active version and list_prompts can answer, but for prompts
\* whose versions were edited at the same time or out of turn.
THEOREM DeskReadable == Spec => []PromptsReadable
<1>1. IInv => PromptsReadable
  BY AdminReadable DEF IInv
<1> QED BY <1>1, SpecIInv, PTL

\* Whatever the model of language calls and whatever the network loses, a
\* message makes no more orders than were asked for at once, unless the agent
\* could not know that one was made.
THEOREM TurnsOrderOnce == Spec => []OrderedOnce
<1>1. IInv => OrderedOnce
  BY TurnSafe DEF IInv
<1> QED BY <1>1, SpecIInv, PTL

\* The answer to a message speaks of an order exactly when one was made, but
\* for the messages that the property names.
THEOREM TurnsTell == Spec => []OrdersAreTold
<1>1. IInv => OrdersAreTold
  BY TurnSafe DEF IInv
<1> QED BY <1>1, SpecIInv, PTL

\* No order is made with a key that was taken away, beyond those whose
\* requests get_current_agent had let in.
THEOREM RevokedKeyStops == Spec => []RevokedKeyOrdersNothingNew
<1>1. IInv => RevokedKeyOrdersNothingNew
  BY DEF IInv, KeyInv, RevokedKeyOrdersNothingNew
<1> QED BY <1>1, SpecIInv, PTL

-----------------------------------------------------------------------------
(***************************************************************************)
(* The inbox: the safety properties of AgentInbox, for any number of       *)
(* messages, chats and failures.  Its states are not those of the turns.   *)
(***************************************************************************)

\* A message that is being worked on is claimed.
WorkersClaim == \A w \in Workers : phase[w] \in Working => On(w) \in claimed

\* What a worker may rely on about its message.
PhasesKnow ==
  \A w \in Workers :
    /\ phase[w] \in {"stored", "replied"} => answers[On(w)] > 0
    /\ phase[w] = "silent" => On(w) \in pardoned

\* No worker is about to answer a message that has an answer.
AnsweredIsPast ==
  \A m \in InboxMessages \ again : answers[m] + lateReplies[m] > 0 =>
    \A w \in Workers : phase[w] \in {"thinking", "sent", "silent"} => On(w) # m

\* Nothing brings an answered message to the agent again, unless the claim
\* turns it away.
Settled(m) ==
  /\ m \notin Unread /\ m \notin hooks /\ m \notin polled
  /\ phase[m] = "idle"

AnsweredIsTurnedAway ==
  \A m \in InboxMessages \ again : answers[m] + lateReplies[m] > 0 => m \in claimed \/ Settled(m)

\* What has not arrived is nowhere.
AbsentIsUntouched ==
  \A m \in InboxMessages : status[m] = "absent" =>
    /\ answers[m] + lateReplies[m] = 0
    /\ m \notin hooks /\ m \notin polled /\ phase[m] = "idle"

InboxInv ==
  /\ TypeOK /\ WorkersClaim /\ PhasesKnow /\ AnsweredIsPast /\ AnsweredIsTurnedAway
  /\ AbsentIsUntouched /\ OneWorkerPerMessage /\ AnsweredOnce /\ ReadMeansHandled

LEMMA InitInboxInv == InboxInit => InboxInv
<1> SUFFICES ASSUME InboxInit PROVE InboxInv
  OBVIOUS
<1>1. TypeOK
  BY InboxAssumption DEF InboxInit, TypeOK, Phases, Workers, InboxMessages
<1>2. WorkersClaim /\ PhasesKnow /\ OneWorkerPerMessage
  BY DEF InboxInit, WorkersClaim, PhasesKnow, OneWorkerPerMessage, Working
<1>3. AnsweredIsPast /\ AnsweredIsTurnedAway /\ AbsentIsUntouched /\ AnsweredOnce
  BY DEF InboxInit, AnsweredIsPast, AnsweredIsTurnedAway, AbsentIsUntouched, AnsweredOnce,
     Workers
<1>4. ReadMeansHandled
  BY DEF InboxInit, ReadMeansHandled
<1> QED BY <1>1, <1>2, <1>3, <1>4 DEF InboxInv

-----------------------------------------------------------------------------
(***************************************************************************)
(* The message a worker is on.                                             *)
(***************************************************************************)

\* The loop is at a message it has received: sets of numbers have a least.
LEMMA FirstIsPolled ==
  ASSUME polled \in SUBSET InboxMessages, polled # {}
  PROVE  First \in polled
<1>1. polled \subseteq Nat
  BY InboxAssumption DEF InboxMessages
<1>2. PICK m \in polled : \A k \in polled : ~ (<<k, m>> \in OpToRel(<, Nat))
  BY <1>1, NatLessThanWellFounded, WFMin
<1>3. ASSUME NEW k \in Nat, k < m PROVE <<k, m>> \in OpToRel(<, Nat)
  BY <1>1, <1>3 DEF OpToRel
<1>4. ASSUME NEW k \in polled PROVE m <= k
  <2>1. ~ (k < m)
    BY <1>1, <1>2, <1>3
  <2> QED BY <1>1, <2>1
<1> QED BY <1>4 DEF First

LEMMA OnMessages ==
  ASSUME TypeOK, NEW w \in Workers, phase[w] # "idle"
  PROVE  /\ On(w) \in InboxMessages
         /\ w = Poll => On(w) \in polled
         /\ w # Poll => On(w) = w
<1>1. CASE w = Poll
  BY <1>1, FirstIsPolled DEF TypeOK, On
<1>2. CASE w # Poll
  BY <1>2 DEF On, Workers
<1> QED BY <1>1, <1>2

LEMMA OnSame ==
  ASSUME polled' = polled
  PROVE  \A w \in Workers : On(w)' = On(w)
  BY DEF On, First

\* A worker goes on with its message.
LEMMA GotoFacts ==
  ASSUME TypeOK, NEW w \in Workers, phase[w] # "idle",
         NEW next \in Phases \ {"idle"}, Goto(w, next)
  PROVE  /\ \A v \in Workers : On(v)' = On(v)
         /\ \A v \in Workers \ {w} : phase'[v] = phase[v]
         /\ phase'[w] = next
         /\ phase' \in [Workers -> Phases]
         /\ polled' = polled
         /\ phase'[Poll] = "idle" <=> polled' = {}
<1>1. polled' = polled
  BY DEF Goto
<1>2. \A v \in Workers : On(v)' = On(v)
  BY <1>1, OnSame
<1> QED BY <1>1, <1>2 DEF Goto, TypeOK, Workers

\* A worker is done with its message.
LEMMA DoneFacts ==
  ASSUME TypeOK, NEW w \in Workers, phase[w] # "idle", Done(w)
  PROVE  /\ \A v \in Workers \ {w} : phase'[v] = phase[v] /\ On(v)' = On(v)
         /\ phase'[w] \in {"idle", "received"}
         /\ w \in InboxMessages => phase'[w] = "idle"
         /\ phase' \in [Workers -> Phases]
         /\ polled' \subseteq polled
         /\ phase'[Poll] = "idle" <=> polled' = {}
<1>1. CASE w = Poll
  <2>1. \A v \in Workers \ {w} : On(v)' = On(v)
    BY <1>1 DEF On
  <2>2. First \in polled
    BY <1>1, FirstIsPolled DEF TypeOK
  <2> QED BY <1>1, <2>1, <2>2, InboxAssumption DEF Done, TypeOK, Phases
<1>2. CASE w # Poll
  <2>1. polled' = polled /\ phase' = [phase EXCEPT ![w] = "idle"]
    BY <1>2 DEF Done, Goto
  <2>2. \A v \in Workers : On(v)' = On(v)
    BY <2>1, OnSame
  <2> QED BY <1>2, <2>1, <2>2 DEF TypeOK, Phases, Workers
<1> QED BY <1>1, <1>2

LEMMA FaultFacts == TypeOK /\ InboxFault => inboxFaults' \in 0 .. MaxInboxFaults
  BY InboxAssumption DEF TypeOK, InboxFault

-----------------------------------------------------------------------------
(***************************************************************************)
(* The invariant is preserved, one lemma per action.                       *)
(***************************************************************************)

LEMMA ReceiveStep ==
  ASSUME InboxInv, NEW m \in InboxMessages, Receive(m)
  PROVE  InboxInv'
<1>1. \A w \in Workers : On(w)' = On(w)
  BY OnSame DEF Receive, agent
<1>2. TypeOK'
  BY DEF InboxInv, TypeOK, Receive, agent
<1>3. WorkersClaim'
  BY <1>1 DEF InboxInv, WorkersClaim, Receive, agent
<1>4. PhasesKnow'
  BY <1>1 DEF InboxInv, PhasesKnow, Receive, agent
<1>5. AnsweredIsPast'
  BY <1>1 DEF InboxInv, AnsweredIsPast, Receive, agent
<1>6. AnsweredIsTurnedAway'
  BY DEF InboxInv, AnsweredIsTurnedAway, Settled, Unread, Receive, agent, AbsentIsUntouched
<1>7. AbsentIsUntouched'
  BY DEF InboxInv, TypeOK, AbsentIsUntouched, Receive, agent
<1>8. OneWorkerPerMessage'
  BY <1>1 DEF InboxInv, OneWorkerPerMessage, Receive, agent
<1>9. AnsweredOnce'
  BY DEF InboxInv, AnsweredOnce, Receive
<1>10. ReadMeansHandled'
  BY DEF InboxInv, ReadMeansHandled, Receive
<1> QED BY <1>2, <1>3, <1>4, <1>5, <1>6, <1>7, <1>8, <1>9, <1>10 DEF InboxInv

LEMMA ViewChatStep ==
  ASSUME InboxInv, NEW c \in Chats, ViewChat(c)
  PROVE  InboxInv'
<1>1. \A w \in Workers : On(w)' = On(w)
  BY OnSame DEF ViewChat, agent
<1>2. TypeOK'
  BY DEF InboxInv, TypeOK, ViewChat, agent, AsRead, Unread
<1>3. WorkersClaim'
  BY <1>1 DEF InboxInv, WorkersClaim, ViewChat, agent
<1>4. PhasesKnow'
  BY <1>1 DEF InboxInv, PhasesKnow, ViewChat, agent
<1>5. AnsweredIsPast'
  BY <1>1 DEF InboxInv, AnsweredIsPast, ViewChat, agent
<1>6. AnsweredIsTurnedAway'
  BY DEF InboxInv, AnsweredIsTurnedAway, Settled, Unread, ViewChat, agent, AsRead
<1>7. AbsentIsUntouched'
  BY DEF InboxInv, AbsentIsUntouched, ViewChat, agent, AsRead
<1>8. OneWorkerPerMessage'
  BY <1>1 DEF InboxInv, OneWorkerPerMessage, ViewChat, agent
<1>9. AnsweredOnce'
  BY DEF InboxInv, AnsweredOnce, ViewChat
<1>10. ReadMeansHandled'
  BY DEF InboxInv, ReadMeansHandled, ViewChat, AsRead
<1> QED BY <1>2, <1>3, <1>4, <1>5, <1>6, <1>7, <1>8, <1>9, <1>10 DEF InboxInv

LEMMA ToggleAgentStep ==
  ASSUME InboxInv, NEW c \in Chats, ToggleAgent(c)
  PROVE  InboxInv'
<1>1. \A w \in Workers : On(w)' = On(w)
  BY OnSame DEF ToggleAgent, agent
<1>2. TypeOK'
  BY DEF InboxInv, TypeOK, ToggleAgent, agent
<1>3. WorkersClaim'
  BY <1>1 DEF InboxInv, WorkersClaim, ToggleAgent, agent
<1>4. PhasesKnow'
  BY <1>1 DEF InboxInv, PhasesKnow, ToggleAgent, agent
<1>5. AnsweredIsPast'
  BY <1>1 DEF InboxInv, AnsweredIsPast, ToggleAgent, agent
<1>6. AnsweredIsTurnedAway'
  BY DEF InboxInv, AnsweredIsTurnedAway, Settled, Unread, ToggleAgent, agent
<1>7. AbsentIsUntouched'
  BY DEF InboxInv, AbsentIsUntouched, ToggleAgent, agent
<1>8. OneWorkerPerMessage'
  BY <1>1 DEF InboxInv, OneWorkerPerMessage, ToggleAgent, agent
<1>9. AnsweredOnce'
  BY DEF InboxInv, AnsweredOnce, ToggleAgent
<1>10. ReadMeansHandled'
  BY DEF InboxInv, ReadMeansHandled, ToggleAgent
<1> QED BY <1>2, <1>3, <1>4, <1>5, <1>6, <1>7, <1>8, <1>9, <1>10 DEF InboxInv

LEMMA DeliverWebhookStep ==
  ASSUME InboxInv, NEW m \in InboxMessages, DeliverWebhook(m)
  PROVE  InboxInv'
<1>1. \A w \in Workers : On(w)' = On(w)
  BY OnSame DEF DeliverWebhook
<1>2. InboxMessages \subseteq Workers /\ Poll \notin InboxMessages /\ Poll \in Workers
  BY InboxAssumption DEF Workers
<1>3. TypeOK'
  BY <1>2 DEF InboxInv, TypeOK, DeliverWebhook, Phases
<1>4. WorkersClaim'
  BY <1>1 DEF InboxInv, WorkersClaim, Working, DeliverWebhook
<1>5. PhasesKnow'
  BY <1>1 DEF InboxInv, PhasesKnow, DeliverWebhook
<1>6. AnsweredIsPast'
  BY <1>1 DEF InboxInv, AnsweredIsPast, DeliverWebhook
<1>7. AnsweredIsTurnedAway'
  BY DEF InboxInv, AnsweredIsTurnedAway, Settled, Unread, DeliverWebhook
<1>8. AbsentIsUntouched'
  BY DEF InboxInv, AbsentIsUntouched, DeliverWebhook
<1>9. OneWorkerPerMessage'
  BY <1>1 DEF InboxInv, OneWorkerPerMessage, Working, DeliverWebhook
<1>10. AnsweredOnce'
  BY DEF InboxInv, AnsweredOnce, DeliverWebhook
<1>11. ReadMeansHandled'
  BY DEF InboxInv, ReadMeansHandled, DeliverWebhook
<1> QED BY <1>3, <1>4, <1>5, <1>6, <1>7, <1>8, <1>9, <1>10, <1>11 DEF InboxInv

LEMMA LoseWebhookStep ==
  ASSUME InboxInv, NEW m \in InboxMessages, LoseWebhook(m)
  PROVE  InboxInv'
<1>1. \A w \in Workers : On(w)' = On(w)
  BY OnSame DEF LoseWebhook, agent
<1>2. TypeOK'
  BY DEF InboxInv, TypeOK, LoseWebhook, agent
<1>3. WorkersClaim'
  BY <1>1 DEF InboxInv, WorkersClaim, LoseWebhook, agent
<1>4. PhasesKnow'
  BY <1>1 DEF InboxInv, PhasesKnow, LoseWebhook, agent
<1>5. AnsweredIsPast'
  BY <1>1 DEF InboxInv, AnsweredIsPast, LoseWebhook, agent
<1>6. AnsweredIsTurnedAway'
  BY DEF InboxInv, AnsweredIsTurnedAway, Settled, Unread, LoseWebhook, agent
<1>7. AbsentIsUntouched'
  BY DEF InboxInv, AbsentIsUntouched, LoseWebhook, agent
<1>8. OneWorkerPerMessage'
  BY <1>1 DEF InboxInv, OneWorkerPerMessage, LoseWebhook, agent
<1>9. AnsweredOnce'
  BY DEF InboxInv, AnsweredOnce, LoseWebhook
<1>10. ReadMeansHandled'
  BY DEF InboxInv, ReadMeansHandled, LoseWebhook
<1> QED BY <1>2, <1>3, <1>4, <1>5, <1>6, <1>7, <1>8, <1>9, <1>10 DEF InboxInv

LEMMA StoreLateStep ==
  ASSUME InboxInv, NEW m \in InboxMessages, StoreLate(m)
  PROVE  InboxInv'
<1>1. \A w \in Workers : On(w)' = On(w)
  BY OnSame DEF StoreLate, agent
<1>2. TypeOK'
  BY DEF InboxInv, TypeOK, StoreLate, agent
<1>3. WorkersClaim'
  BY <1>1 DEF InboxInv, WorkersClaim, StoreLate, agent
<1>4. PhasesKnow'
  BY <1>1 DEF InboxInv, TypeOK, PhasesKnow, StoreLate, agent
<1>5. AnsweredIsPast'
  BY <1>1 DEF InboxInv, TypeOK, AnsweredIsPast, StoreLate, agent
<1>6. AnsweredIsTurnedAway'
  BY DEF InboxInv, TypeOK, AnsweredIsTurnedAway, Settled, Unread, StoreLate, agent
<1>7. AbsentIsUntouched'
  BY DEF InboxInv, TypeOK, AbsentIsUntouched, StoreLate, agent
<1>8. OneWorkerPerMessage'
  BY <1>1 DEF InboxInv, OneWorkerPerMessage, StoreLate, agent
<1>9. AnsweredOnce'
  BY DEF InboxInv, TypeOK, AnsweredOnce, StoreLate
<1>10. ReadMeansHandled'
  BY DEF InboxInv, TypeOK, ReadMeansHandled, StoreLate
<1> QED BY <1>2, <1>3, <1>4, <1>5, <1>6, <1>7, <1>8, <1>9, <1>10 DEF InboxInv

LEMMA PollInboxStep ==
  ASSUME InboxInv, PollInbox
  PROVE  InboxInv'
<1>1. InboxMessages \subseteq Workers /\ Poll \notin InboxMessages /\ Poll \in Workers
  BY InboxAssumption DEF Workers
<1>2. \A w \in Workers \ {Poll} : On(w)' = On(w)
  BY DEF On
<1>3. phase'[Poll] = "received" /\ \A w \in Workers \ {Poll} : phase'[w] = phase[w]
  BY <1>1 DEF InboxInv, TypeOK, PollInbox
<1>4. TypeOK'
  BY <1>3 DEF InboxInv, TypeOK, PollInbox, inboxCore, Unread, Phases
<1>5. WorkersClaim'
  BY <1>2 DEF InboxInv, WorkersClaim, Working, PollInbox
<1>6. PhasesKnow'
  BY <1>2 DEF InboxInv, PhasesKnow, PollInbox, inboxCore
<1>7. AnsweredIsPast'
  BY <1>2 DEF InboxInv, AnsweredIsPast, PollInbox, inboxCore
<1>8. AnsweredIsTurnedAway'
  BY <1>1 DEF InboxInv, AnsweredIsTurnedAway, Settled, Unread, PollInbox, inboxCore
<1>9. AbsentIsUntouched'
  BY <1>1 DEF InboxInv, AbsentIsUntouched, PollInbox, inboxCore, Unread
<1>10. OneWorkerPerMessage'
  BY <1>2 DEF InboxInv, OneWorkerPerMessage, Working, PollInbox
<1>11. AnsweredOnce'
  BY DEF InboxInv, AnsweredOnce, PollInbox, inboxCore
<1>12. ReadMeansHandled'
  BY DEF InboxInv, ReadMeansHandled, PollInbox, inboxCore
<1> QED BY <1>4, <1>5, <1>6, <1>7, <1>8, <1>9, <1>10, <1>11, <1>12 DEF InboxInv

LEMMA TurnAnswersStep ==
  ASSUME InboxInv, NEW w \in Workers, TurnAnswers(w)
  PROVE  InboxInv'
<1>1. InboxMessages \subseteq Workers /\ Poll \notin InboxMessages /\ Poll \in Workers
  BY InboxAssumption DEF Workers
<1>2. /\ \A v \in Workers : On(v)' = On(v)
      /\ \A v \in Workers \ {w} : phase'[v] = phase[v]
      /\ phase'[w] = "sent"
      /\ phase' \in [Workers -> Phases]
      /\ polled' = polled
      /\ phase'[Poll] = "idle" <=> polled' = {}
  BY GotoFacts DEF InboxInv, TurnAnswers, Phases
<1>3. TypeOK'
  BY <1>2 DEF InboxInv, TypeOK, TurnAnswers, inboxCore
<1>4. WorkersClaim'
  BY <1>2 DEF InboxInv, TypeOK, WorkersClaim, Working, TurnAnswers
<1>5. PhasesKnow'
  BY <1>2 DEF InboxInv, PhasesKnow, TurnAnswers, inboxCore
<1>6. AnsweredIsPast'
  BY <1>2 DEF InboxInv, AnsweredIsPast, TurnAnswers, inboxCore
<1>7. AnsweredIsTurnedAway'
  BY <1>1, <1>2 DEF InboxInv, AnsweredIsTurnedAway, Settled, Unread, TurnAnswers, inboxCore
<1>8. AbsentIsUntouched'
  BY <1>1, <1>2 DEF InboxInv, AbsentIsUntouched, TurnAnswers, inboxCore
<1>9. OneWorkerPerMessage'
  BY <1>2 DEF InboxInv, TypeOK, OneWorkerPerMessage, Working, TurnAnswers
<1>10. AnsweredOnce'
  BY DEF InboxInv, AnsweredOnce, TurnAnswers, inboxCore
<1>11. ReadMeansHandled'
  BY DEF InboxInv, ReadMeansHandled, TurnAnswers, inboxCore
<1> QED BY <1>3, <1>4, <1>5, <1>6, <1>7, <1>8, <1>9, <1>10, <1>11 DEF InboxInv

LEMMA TurnSilentStep ==
  ASSUME InboxInv, NEW w \in Workers, TurnSilent(w)
  PROVE  InboxInv'
<1>1. InboxMessages \subseteq Workers /\ Poll \notin InboxMessages /\ Poll \in Workers
  BY InboxAssumption DEF Workers
<1>2. \A v \in Workers : phase[v] # "idle" => /\ On(v) \in InboxMessages
                                              /\ v = Poll => On(v) \in polled
                                              /\ v # Poll => On(v) = v
  BY OnMessages DEF InboxInv
<1>3. /\ \A v \in Workers : On(v)' = On(v)
      /\ \A v \in Workers \ {w} : phase'[v] = phase[v]
      /\ phase'[w] = "silent"
      /\ phase' \in [Workers -> Phases]
      /\ polled' = polled
      /\ phase'[Poll] = "idle" <=> polled' = {}
  BY GotoFacts DEF InboxInv, TurnSilent, Phases
<1>4. TypeOK'
  BY <1>2, <1>3 DEF InboxInv, TypeOK, TurnSilent, inboxCore
<1>5. WorkersClaim'
  BY <1>3 DEF InboxInv, TypeOK, WorkersClaim, Working, TurnSilent
<1>6. PhasesKnow'
  BY <1>3 DEF InboxInv, PhasesKnow, TurnSilent, inboxCore
<1>7. AnsweredIsPast'
  BY <1>3 DEF InboxInv, AnsweredIsPast, TurnSilent, inboxCore
<1>8. AnsweredIsTurnedAway'
  BY <1>1, <1>3 DEF InboxInv, AnsweredIsTurnedAway, Settled, Unread, TurnSilent, inboxCore
<1>9. AbsentIsUntouched'
  BY <1>1, <1>3 DEF InboxInv, AbsentIsUntouched, TurnSilent, inboxCore
<1>10. OneWorkerPerMessage'
  BY <1>3 DEF InboxInv, TypeOK, OneWorkerPerMessage, Working, TurnSilent
<1>11. AnsweredOnce'
  BY DEF InboxInv, AnsweredOnce, TurnSilent, inboxCore
<1>12. ReadMeansHandled'
  BY DEF InboxInv, ReadMeansHandled, TurnSilent, inboxCore
<1> QED BY <1>4, <1>5, <1>6, <1>7, <1>8, <1>9, <1>10, <1>11, <1>12 DEF InboxInv

LEMMA StoreReplyStep ==
  ASSUME InboxInv, NEW w \in Workers, StoreReply(w)
  PROVE  InboxInv'
<1>1. InboxMessages \subseteq Workers /\ Poll \notin InboxMessages /\ Poll \in Workers
  BY InboxAssumption DEF Workers
<1>2. \A v \in Workers : phase[v] # "idle" => /\ On(v) \in InboxMessages
                                              /\ v = Poll => On(v) \in polled
                                              /\ v # Poll => On(v) = v
  BY OnMessages DEF InboxInv
<1>3. /\ \A v \in Workers : On(v)' = On(v)
      /\ \A v \in Workers \ {w} : phase'[v] = phase[v]
      /\ phase'[w] = "stored"
      /\ phase' \in [Workers -> Phases]
      /\ polled' = polled
      /\ phase'[Poll] = "idle" <=> polled' = {}
  BY GotoFacts DEF InboxInv, StoreReply, Phases
<1>4. TypeOK'
  BY <1>2, <1>3 DEF InboxInv, TypeOK, StoreReply
<1>5. WorkersClaim'
  BY <1>3 DEF InboxInv, TypeOK, WorkersClaim, Working, StoreReply
<1>6. PhasesKnow'
  BY <1>2, <1>3 DEF InboxInv, TypeOK, PhasesKnow, StoreReply
<1>7. AnsweredIsPast'
  BY <1>3 DEF InboxInv, TypeOK, AnsweredIsPast, StoreReply, OneWorkerPerMessage, Working
<1>8. AnsweredIsTurnedAway'
  BY <1>1, <1>3 DEF InboxInv, TypeOK, AnsweredIsTurnedAway, Settled, Unread, StoreReply,
     WorkersClaim, Working, OneWorkerPerMessage
<1>9. AbsentIsUntouched'
  BY <1>1, <1>2, <1>3 DEF InboxInv, AbsentIsUntouched, StoreReply
<1>10. OneWorkerPerMessage'
  BY <1>3 DEF InboxInv, TypeOK, OneWorkerPerMessage, Working, StoreReply
<1>11. AnsweredOnce'
  BY DEF InboxInv, TypeOK, AnsweredOnce, StoreReply, AnsweredIsPast
<1>12. ReadMeansHandled'
  BY DEF InboxInv, TypeOK, ReadMeansHandled, StoreReply
<1> QED BY <1>4, <1>5, <1>6, <1>7, <1>8, <1>9, <1>10, <1>11, <1>12 DEF InboxInv

LEMMA ReplyAcceptedStep ==
  ASSUME InboxInv, NEW w \in Workers, ReplyAccepted(w)
  PROVE  InboxInv'
<1>1. InboxMessages \subseteq Workers /\ Poll \notin InboxMessages /\ Poll \in Workers
  BY InboxAssumption DEF Workers
<1>2. /\ \A v \in Workers : On(v)' = On(v)
      /\ \A v \in Workers \ {w} : phase'[v] = phase[v]
      /\ phase'[w] = "replied"
      /\ phase' \in [Workers -> Phases]
      /\ polled' = polled
      /\ phase'[Poll] = "idle" <=> polled' = {}
  BY GotoFacts DEF InboxInv, ReplyAccepted, Phases
<1>3. TypeOK'
  BY <1>2 DEF InboxInv, TypeOK, ReplyAccepted, inboxCore
<1>4. WorkersClaim'
  BY <1>2 DEF InboxInv, TypeOK, WorkersClaim, Working, ReplyAccepted
<1>5. PhasesKnow'
  BY <1>2 DEF InboxInv, PhasesKnow, ReplyAccepted, inboxCore
<1>6. AnsweredIsPast'
  BY <1>2 DEF InboxInv, AnsweredIsPast, ReplyAccepted, inboxCore
<1>7. AnsweredIsTurnedAway'
  BY <1>1, <1>2 DEF InboxInv, AnsweredIsTurnedAway, Settled, Unread, ReplyAccepted, inboxCore
<1>8. AbsentIsUntouched'
  BY <1>1, <1>2 DEF InboxInv, AbsentIsUntouched, ReplyAccepted, inboxCore
<1>9. OneWorkerPerMessage'
  BY <1>2 DEF InboxInv, TypeOK, OneWorkerPerMessage, Working, ReplyAccepted
<1>10. AnsweredOnce'
  BY DEF InboxInv, AnsweredOnce, ReplyAccepted, inboxCore
<1>11. ReadMeansHandled'
  BY DEF InboxInv, ReadMeansHandled, ReplyAccepted, inboxCore
<1> QED BY <1>3, <1>4, <1>5, <1>6, <1>7, <1>8, <1>9, <1>10, <1>11 DEF InboxInv

LEMMA TurnFailsStep ==
  ASSUME InboxInv, NEW w \in Workers, TakingTurnFails(w)
  PROVE  InboxInv'
<1>1. InboxMessages \subseteq Workers /\ Poll \notin InboxMessages /\ Poll \in Workers
  BY InboxAssumption DEF Workers
<1>2. /\ \A v \in Workers \ {w} : phase'[v] = phase[v] /\ On(v)' = On(v)
      /\ phase'[w] \in {"idle", "received"}
      /\ w \in InboxMessages => phase'[w] = "idle"
      /\ phase' \in [Workers -> Phases]
      /\ polled' \subseteq polled
      /\ phase'[Poll] = "idle" <=> polled' = {}
  BY DoneFacts DEF InboxInv, TakingTurnFails
<1>3. inboxFaults' \in 0 .. MaxInboxFaults
  BY FaultFacts DEF InboxInv, TakingTurnFails
<1>4. TypeOK'
  BY <1>2, <1>3 DEF InboxInv, TypeOK, TakingTurnFails, inboxCore, Release
<1>5. WorkersClaim'
  BY <1>2 DEF InboxInv, TypeOK, WorkersClaim, Working, TakingTurnFails, Release,
     OneWorkerPerMessage
<1>6. PhasesKnow'
  BY <1>2 DEF InboxInv, PhasesKnow, TakingTurnFails, inboxCore
<1>7. AnsweredIsPast'
  BY <1>2 DEF InboxInv, AnsweredIsPast, TakingTurnFails, inboxCore
<1>8. AnsweredIsTurnedAway'
  BY <1>1, <1>2 DEF InboxInv, AnsweredIsTurnedAway, Settled, Unread, TakingTurnFails, inboxCore,
     Release, AnsweredIsPast
<1>9. AbsentIsUntouched'
  BY <1>1, <1>2 DEF InboxInv, AbsentIsUntouched, TakingTurnFails, inboxCore
<1>10. OneWorkerPerMessage'
  BY <1>2 DEF InboxInv, OneWorkerPerMessage, Working, TakingTurnFails
<1>11. AnsweredOnce'
  BY DEF InboxInv, AnsweredOnce, TakingTurnFails, inboxCore
<1>12. ReadMeansHandled'
  BY DEF InboxInv, ReadMeansHandled, TakingTurnFails, inboxCore
<1> QED BY <1>4, <1>5, <1>6, <1>7, <1>8, <1>9, <1>10, <1>11, <1>12 DEF InboxInv

LEMMA ReplyFailsStep ==
  ASSUME InboxInv, NEW w \in Workers, ReplyFails(w)
  PROVE  InboxInv'
<1>1. InboxMessages \subseteq Workers /\ Poll \notin InboxMessages /\ Poll \in Workers
  BY InboxAssumption DEF Workers
<1>2. \A v \in Workers : phase[v] # "idle" => /\ On(v) \in InboxMessages
                                              /\ v = Poll => On(v) \in polled
                                              /\ v # Poll => On(v) = v
  BY OnMessages DEF InboxInv
<1>3. /\ \A v \in Workers \ {w} : phase'[v] = phase[v] /\ On(v)' = On(v)
      /\ phase'[w] \in {"idle", "received"}
      /\ w \in InboxMessages => phase'[w] = "idle"
      /\ phase' \in [Workers -> Phases]
      /\ polled' \subseteq polled
      /\ phase'[Poll] = "idle" <=> polled' = {}
  BY DoneFacts DEF InboxInv, ReplyFails
<1>4. inboxFaults' \in 0 .. MaxInboxFaults
  BY FaultFacts DEF InboxInv, ReplyFails
<1>5. TypeOK'
  BY <1>2, <1>3, <1>4 DEF InboxInv, TypeOK, ReplyFails, Release
<1>6. WorkersClaim'
  BY <1>3 DEF InboxInv, TypeOK, WorkersClaim, Working, ReplyFails, Release,
     OneWorkerPerMessage
<1>7. PhasesKnow'
  BY <1>3 DEF InboxInv, PhasesKnow, ReplyFails
<1>8. AnsweredIsPast'
  BY <1>3 DEF InboxInv, AnsweredIsPast, ReplyFails
<1>9. AnsweredIsTurnedAway'
  BY <1>1, <1>3 DEF InboxInv, AnsweredIsTurnedAway, Settled, Unread, ReplyFails, Release,
     AnsweredIsPast
<1>10. AbsentIsUntouched'
  BY <1>1, <1>2, <1>3 DEF InboxInv, AbsentIsUntouched, ReplyFails
<1>11. OneWorkerPerMessage'
  BY <1>3 DEF InboxInv, OneWorkerPerMessage, Working, ReplyFails
<1>12. AnsweredOnce'
  BY DEF InboxInv, AnsweredOnce, ReplyFails
<1>13. ReadMeansHandled'
  BY DEF InboxInv, ReadMeansHandled, ReplyFails
<1> QED BY <1>5, <1>6, <1>7, <1>8, <1>9, <1>10, <1>11, <1>12, <1>13 DEF InboxInv

LEMMA MarkReadStep ==
  ASSUME InboxInv, NEW w \in Workers, MarkRead(w)
  PROVE  InboxInv'
<1>1. InboxMessages \subseteq Workers /\ Poll \notin InboxMessages /\ Poll \in Workers
  BY InboxAssumption DEF Workers
<1>2. /\ \A v \in Workers \ {w} : phase'[v] = phase[v] /\ On(v)' = On(v)
      /\ phase'[w] \in {"idle", "received"}
      /\ w \in InboxMessages => phase'[w] = "idle"
      /\ phase' \in [Workers -> Phases]
      /\ polled' \subseteq polled
      /\ phase'[Poll] = "idle" <=> polled' = {}
  BY DoneFacts DEF InboxInv, MarkRead
<1>3. TypeOK'
  BY <1>2 DEF InboxInv, TypeOK, MarkRead, AsRead
<1>4. WorkersClaim'
  BY <1>2 DEF InboxInv, WorkersClaim, Working, MarkRead
<1>5. PhasesKnow'
  BY <1>2 DEF InboxInv, PhasesKnow, MarkRead
<1>6. AnsweredIsPast'
  BY <1>2 DEF InboxInv, AnsweredIsPast, MarkRead
<1>7. AnsweredIsTurnedAway'
  BY <1>1, <1>2 DEF InboxInv, AnsweredIsTurnedAway, Settled, Unread, MarkRead, AsRead
<1>8. AbsentIsUntouched'
  BY <1>1, <1>2 DEF InboxInv, AbsentIsUntouched, MarkRead, AsRead
<1>9. OneWorkerPerMessage'
  BY <1>2 DEF InboxInv, OneWorkerPerMessage, Working, MarkRead
<1>10. AnsweredOnce'
  BY DEF InboxInv, AnsweredOnce, MarkRead
<1>11. ReadMeansHandled'
  BY DEF InboxInv, ReadMeansHandled, MarkRead, AsRead, PhasesKnow
<1> QED BY <1>3, <1>4, <1>5, <1>6, <1>7, <1>8, <1>9, <1>10, <1>11 DEF InboxInv

LEMMA MarkFailsStep ==
  ASSUME InboxInv, NEW w \in Workers, MarkFails(w)
  PROVE  InboxInv'
<1>1. InboxMessages \subseteq Workers /\ Poll \notin InboxMessages /\ Poll \in Workers
  BY InboxAssumption DEF Workers
<1>2. \A v \in Workers : phase[v] # "idle" => /\ On(v) \in InboxMessages
                                              /\ v = Poll => On(v) \in polled
                                              /\ v # Poll => On(v) = v
  BY OnMessages DEF InboxInv
<1>3. /\ \A v \in Workers \ {w} : phase'[v] = phase[v] /\ On(v)' = On(v)
      /\ phase'[w] \in {"idle", "received"}
      /\ w \in InboxMessages => phase'[w] = "idle"
      /\ phase' \in [Workers -> Phases]
      /\ polled' \subseteq polled
      /\ phase'[Poll] = "idle" <=> polled' = {}
  BY DoneFacts DEF InboxInv, MarkFails
<1>4. inboxFaults' \in 0 .. MaxInboxFaults
  BY FaultFacts DEF InboxInv, MarkFails
<1>5. TypeOK'
  BY <1>2, <1>3, <1>4 DEF InboxInv, TypeOK, MarkFails, AsRead, Release
<1>6. WorkersClaim'
  BY <1>3 DEF InboxInv, TypeOK, WorkersClaim, Working, MarkFails, Release,
     OneWorkerPerMessage
<1>7. PhasesKnow'
  BY <1>3 DEF InboxInv, PhasesKnow, MarkFails
<1>8. AnsweredIsPast'
  BY <1>3 DEF InboxInv, AnsweredIsPast, MarkFails
<1>9. AnsweredIsTurnedAway'
  BY <1>1, <1>3 DEF InboxInv, AnsweredIsTurnedAway, Settled, Unread, MarkFails, AsRead,
     Release
<1>10. AbsentIsUntouched'
  BY <1>1, <1>3 DEF InboxInv, AbsentIsUntouched, MarkFails, AsRead
<1>11. OneWorkerPerMessage'
  BY <1>3 DEF InboxInv, OneWorkerPerMessage, Working, MarkFails
<1>12. AnsweredOnce'
  BY DEF InboxInv, AnsweredOnce, MarkFails
<1>13. ReadMeansHandled'
  BY DEF InboxInv, ReadMeansHandled, MarkFails, AsRead, PhasesKnow
<1> QED BY <1>5, <1>6, <1>7, <1>8, <1>9, <1>10, <1>11, <1>12, <1>13 DEF InboxInv

LEMMA RestartStep ==
  ASSUME InboxInv, Restart
  PROVE  InboxInv'
<1>1. InboxMessages \subseteq Workers /\ Poll \notin InboxMessages /\ Poll \in Workers
  BY InboxAssumption DEF Workers
<1>2. \A v \in Workers : phase[v] # "idle" => /\ On(v) \in InboxMessages
                                              /\ v = Poll => On(v) \in polled
                                              /\ v # Poll => On(v) = v
  BY OnMessages DEF InboxInv
<1>3. inboxFaults' \in 0 .. MaxInboxFaults
  BY FaultFacts DEF InboxInv, Restart
<1>4. TypeOK'
  BY <1>1, <1>3 DEF InboxInv, TypeOK, Restart, Unread, Phases
<1>5. WorkersClaim'
  BY DEF InboxInv, WorkersClaim, Working, Restart
<1>6. PhasesKnow'
  BY DEF InboxInv, PhasesKnow, Restart
<1>7. AnsweredIsPast'
  BY DEF InboxInv, AnsweredIsPast, Restart
<1>8. AnsweredIsTurnedAway'
  BY <1>1 DEF InboxInv, AnsweredIsTurnedAway, Settled, Unread, Restart
<1>9. AbsentIsUntouched'
  BY <1>1, <1>2 DEF InboxInv, AbsentIsUntouched, Restart
<1>10. OneWorkerPerMessage'
  BY DEF InboxInv, OneWorkerPerMessage, Working, Restart
<1>11. AnsweredOnce'
  BY DEF InboxInv, TypeOK, AnsweredOnce, Restart, AnsweredIsPast
<1>12. ReadMeansHandled'
  BY DEF InboxInv, ReadMeansHandled, Restart
<1> QED BY <1>4, <1>5, <1>6, <1>7, <1>8, <1>9, <1>10, <1>11, <1>12 DEF InboxInv

LEMMA ClaimFreeStep ==
  ASSUME InboxInv, NEW w \in Workers, Claim(w), On(w) \notin claimed
  PROVE  InboxInv'
<1>1. InboxMessages \subseteq Workers /\ Poll \notin InboxMessages /\ Poll \in Workers
  BY InboxAssumption DEF Workers
<1>2. \A v \in Workers : phase[v] # "idle" => /\ On(v) \in InboxMessages
                                              /\ v = Poll => On(v) \in polled
                                              /\ v # Poll => On(v) = v
  BY OnMessages DEF InboxInv
<1>3. /\ \A v \in Workers : On(v)' = On(v)
      /\ \A v \in Workers \ {w} : phase'[v] = phase[v]
      /\ phase'[w] = "thinking"
      /\ phase' \in [Workers -> Phases]
      /\ polled' = polled
      /\ phase'[Poll] = "idle" <=> polled' = {}
  BY GotoFacts DEF InboxInv, Claim, Phases
<1>4. TypeOK'
  BY <1>2, <1>3 DEF InboxInv, TypeOK, Claim, inboxCore
<1>5. WorkersClaim'
  BY <1>3 DEF InboxInv, WorkersClaim, Claim
<1>6. PhasesKnow'
  BY <1>3 DEF InboxInv, PhasesKnow, Claim, inboxCore
<1>7. AnsweredIsPast'
  BY <1>2, <1>3 DEF InboxInv, AnsweredIsPast, Claim, inboxCore, AnsweredIsTurnedAway, Settled
<1>8. AnsweredIsTurnedAway'
  BY <1>1, <1>3 DEF InboxInv, AnsweredIsTurnedAway, Settled, Unread, Claim, inboxCore
<1>9. AbsentIsUntouched'
  BY <1>1, <1>3 DEF InboxInv, AbsentIsUntouched, Claim, inboxCore
<1>10. OneWorkerPerMessage'
  BY <1>3 DEF InboxInv, OneWorkerPerMessage, Claim, WorkersClaim
<1>11. AnsweredOnce'
  BY DEF InboxInv, AnsweredOnce, Claim, inboxCore
<1>12. ReadMeansHandled'
  BY DEF InboxInv, ReadMeansHandled, Claim, inboxCore
<1> QED BY <1>4, <1>5, <1>6, <1>7, <1>8, <1>9, <1>10, <1>11, <1>12 DEF InboxInv

LEMMA ClaimTakenStep ==
  ASSUME InboxInv, NEW w \in Workers, Claim(w), On(w) \in claimed
  PROVE  InboxInv'
<1>1. InboxMessages \subseteq Workers /\ Poll \notin InboxMessages /\ Poll \in Workers
  BY InboxAssumption DEF Workers
<1>2. /\ \A v \in Workers \ {w} : phase'[v] = phase[v] /\ On(v)' = On(v)
      /\ phase'[w] \in {"idle", "received"}
      /\ w \in InboxMessages => phase'[w] = "idle"
      /\ phase' \in [Workers -> Phases]
      /\ polled' \subseteq polled
      /\ phase'[Poll] = "idle" <=> polled' = {}
  BY DoneFacts DEF InboxInv, Claim
<1>3. TypeOK'
  BY <1>2 DEF InboxInv, TypeOK, Claim, inboxCore
<1>4. WorkersClaim'
  BY <1>2 DEF InboxInv, WorkersClaim, Working, Claim
<1>5. PhasesKnow'
  BY <1>2 DEF InboxInv, PhasesKnow, Claim, inboxCore
<1>6. AnsweredIsPast'
  BY <1>2 DEF InboxInv, AnsweredIsPast, Claim, inboxCore
<1>7. AnsweredIsTurnedAway'
  BY <1>1, <1>2 DEF InboxInv, AnsweredIsTurnedAway, Settled, Unread, Claim, inboxCore
<1>8. AbsentIsUntouched'
  BY <1>1, <1>2 DEF InboxInv, AbsentIsUntouched, Claim, inboxCore
<1>9. OneWorkerPerMessage'
  BY <1>2 DEF InboxInv, OneWorkerPerMessage, Working, Claim
<1>10. AnsweredOnce'
  BY DEF InboxInv, AnsweredOnce, Claim, inboxCore
<1>11. ReadMeansHandled'
  BY DEF InboxInv, ReadMeansHandled, Claim, inboxCore
<1> QED BY <1>3, <1>4, <1>5, <1>6, <1>7, <1>8, <1>9, <1>10, <1>11 DEF InboxInv

LEMMA StutterStep ==
  ASSUME InboxInv, UNCHANGED inboxVars
  PROVE  InboxInv'
<1>1. \A w \in Workers : On(w)' = On(w)
  BY OnSame DEF inboxVars
<1>2. (TypeOK /\ WorkersClaim /\ PhasesKnow /\ OneWorkerPerMessage)'
  BY <1>1 DEF InboxInv, inboxVars, TypeOK, WorkersClaim, PhasesKnow, OneWorkerPerMessage
<1>3. (AnsweredIsPast /\ AnsweredIsTurnedAway /\ AbsentIsUntouched)'
  BY <1>1 DEF InboxInv, inboxVars, AnsweredIsPast, AnsweredIsTurnedAway, Settled, Unread,
     AbsentIsUntouched
<1>4. (AnsweredOnce /\ ReadMeansHandled)'
  BY DEF InboxInv, inboxVars, AnsweredOnce, ReadMeansHandled
<1> QED BY <1>2, <1>3, <1>4 DEF InboxInv

LEMMA NextInboxInv == InboxInv /\ [InboxNext]_inboxVars => InboxInv'
<1> SUFFICES ASSUME InboxInv, [InboxNext]_inboxVars PROVE InboxInv'
  OBVIOUS
<1>1. ASSUME NEW m \in InboxMessages,
             Receive(m) \/ DeliverWebhook(m) \/ LoseWebhook(m) \/ StoreLate(m)
      PROVE  InboxInv'
  BY <1>1, ReceiveStep, DeliverWebhookStep, LoseWebhookStep, StoreLateStep
<1>2. ASSUME NEW c \in Chats, ViewChat(c) \/ ToggleAgent(c)
      PROVE  InboxInv'
  BY <1>2, ViewChatStep, ToggleAgentStep
<1>3. CASE PollInbox \/ Restart
  BY <1>3, PollInboxStep, RestartStep
<1>4. ASSUME NEW w \in Workers, Claim(w)
      PROVE  InboxInv'
  BY <1>4, ClaimFreeStep, ClaimTakenStep
<1>5. ASSUME NEW w \in Workers, TakeTurn(w) \/ TakingTurnFails(w)
      PROVE  InboxInv'
  BY <1>5, TurnAnswersStep, TurnSilentStep, TurnFailsStep DEF TakeTurn
<1>6. ASSUME NEW w \in Workers, StoreReply(w) \/ ReplyAccepted(w) \/ ReplyFails(w)
      PROVE  InboxInv'
  BY <1>6, StoreReplyStep, ReplyAcceptedStep, ReplyFailsStep
<1>7. ASSUME NEW w \in Workers, Mark(w)
      PROVE  InboxInv'
  BY <1>7, MarkReadStep, MarkFailsStep DEF Mark
<1>8. CASE UNCHANGED inboxVars
  BY <1>8, StutterStep
<1> QED BY <1>1, <1>2, <1>3, <1>4, <1>5, <1>6, <1>7, <1>8 DEF InboxNext

\* In every reachable state the invariant holds.
LEMMA InboxInvariance == InboxSpec => []InboxInv
  BY InitInboxInv, NextInboxInv, PTL DEF InboxSpec

\* The types of the variables.
THEOREM InboxTypes == InboxSpec => []TypeOK
<1>1. InboxInv => TypeOK
  BY DEF InboxInv
<1> QED BY InboxInvariance, <1>1, PTL

\* Webhook and polling never process a message at the same time (_claim).
THEOREM MessagesHaveOneWorker == InboxSpec => []OneWorkerPerMessage
<1>1. InboxInv => OneWorkerPerMessage
  BY DEF InboxInv
<1> QED BY InboxInvariance, <1>1, PTL

\* A message is answered once, and again only if the agent could not know
\* that it was answered: the core's answer to a reply or a mark was lost, or
\* the agent restarted while the message was unread or its webhook on its way.
THEOREM MessagesAnsweredOnce == InboxSpec => []AnsweredOnce
<1>1. InboxInv => AnsweredOnce
  BY DEF InboxInv
<1> QED BY InboxInvariance, <1>1, PTL

\* A message leaves the inbox only after a reply to it is stored, unless an
\* operator has seen it or the agent had nothing to say (mark_inbox_read).
THEOREM ReadMessagesHandled == InboxSpec => []ReadMeansHandled
<1>1. InboxInv => ReadMeansHandled
  BY DEF InboxInv
<1> QED BY InboxInvariance, <1>1, PTL

-----------------------------------------------------------------------------
(***************************************************************************)
(* The bots.                                                               *)
(***************************************************************************)

Row == [exists : BOOLEAN, enabled : BOOLEAN, token : Tokens \cup {NoToken}]
Adapter == [token : Tokens, task : {"polling", "pausing", "cancelled", "done"}]
Saving == [pc : {"read", "saved"}, had : Row, enabled : BOOLEAN, token : Tokens \cup {NoToken}]
Applying == [pc : {"apply"}, config : Row]
Stopping == [pc : {"stopping"}, adapter : Nat]
FormIds == Channels \X Forms
Live(a) == a.task \notin {"cancelled", "done"}

BotTypeOK ==
  /\ up \in BOOLEAN
  /\ config \in [Channels -> Row]
  /\ adapters \in [Channels -> Seq(Adapter)]
  /\ registered \in [Channels -> Nat]
  /\ form \in [FormIds -> {ClosedForm} \cup Saving \cup Applying \cup Stopping]

\* A task that nothing has cancelled runs if and only if its adapter is registered or
\* a form waits for it to end; no two of these look after the same adapter.
EveryTaskIsOwned ==
  \A c \in Channels :
    /\ registered[c] <= Len(adapters[c])
    /\ \A i \in 1 .. Len(adapters[c]) :
         Live(adapters[c][i]) <=>
           \/ i = registered[c]
           \/ \E f \in FormIds : f[1] = c /\ form[f].pc = "stopping" /\ form[f].adapter = i
    /\ \A f \in FormIds : f[1] = c /\ form[f].pc = "stopping" =>
         /\ form[f].adapter \in 1 .. Len(adapters[c])
         /\ form[f].adapter # registered[c]
         /\ \A g \in FormIds \ {f} : g[1] = c /\ form[g].pc = "stopping" =>
              form[g].adapter # form[f].adapter

\* A core that is down works on no form.
DownIsQuiet == ~ up => \A f \in FormIds : form[f] = ClosedForm

\* The bot registered is the one that the configuration wants.
Matches(c) ==
  config[c].token \notin BadTokens =>
    IF Wanted(config[c])
    THEN registered[c] # 0 /\ adapters[c][registered[c]].token = config[c].token
    ELSE registered[c] = 0

\* While forms do not overlap there is one at a time, and its request knows how
\* far the bot is behind the configuration.
OneFormAtATime ==
  \A c \in Channels \ raced : up =>
    /\ \A f, g \in FormIds : f[1] = c /\ g[1] = c /\ form[f] # ClosedForm /\ form[g] # ClosedForm => f = g
    /\ c \notin unapplied /\ (\A f \in FormIds : f[1] = c => form[f].pc \in {"none", "read"}) => Matches(c)
    /\ \A f \in FormIds : f[1] = c =>
         /\ form[f].pc = "apply" => form[f].config = config[c]
         /\ form[f].pc = "stopping" => registered[c] = 0 /\ ~ Wanted(config[c])

BotInv == BotTypeOK /\ EveryTaskIsOwned /\ DownIsQuiet /\ OneFormAtATime

\* No bot runs at first.
LEMMA BotInitInv == BotInit => BotInv
<1> SUFFICES ASSUME BotInit PROVE BotInv
  OBVIOUS
<1>1. \A f \in FormIds : form[f] = ClosedForm /\ form[f].pc = "none"
  BY DEF BotInit, FormIds, ClosedForm
<1>2. BotTypeOK
  <2>1. Absent \in Row /\ <<>> \in Seq(Adapter)
    BY DEF Absent, Row
  <2> QED BY <2>1 DEF BotInit, BotTypeOK, FormIds
<1>3. EveryTaskIsOwned
  BY <1>1 DEF BotInit, EveryTaskIsOwned
<1>4. DownIsQuiet /\ OneFormAtATime
  BY <1>1 DEF BotInit, DownIsQuiet, OneFormAtATime
<1> QED BY <1>2, <1>3, <1>4 DEF BotInv

\* A form that begins while another is under way makes the channel one that raced.
LEMMA BeginSaveInv ==
  ASSUME BotInv, NEW f \in FormIds, NEW on \in BOOLEAN, NEW token \in Tokens \cup {NoToken},
         BeginSave(f, on, token)
  PROVE  BotInv'
<1> DEFINE r == [pc |-> "read", had |-> config[f[1]], enabled |-> on, token |-> token]
<1>1. f[1] \in Channels /\ r \in Saving
  BY DEF FormIds, Saving, BotInv, BotTypeOK
<1>2. /\ form' = [form EXCEPT ![f] = r] /\ form[f] = ClosedForm /\ up
      /\ UNCHANGED <<up, config, adapters, registered, unapplied>> /\ raced \subseteq raced'
  BY DEF BeginSave
<1>3. /\ form'[f] = r /\ form'[f].pc = "read"
      /\ \A g \in FormIds \ {f} : form'[g] = form[g]
  BY <1>2 DEF BotInv, BotTypeOK
<1>4. form[f].pc = "none"
  BY <1>2 DEF ClosedForm
<1>5. BotTypeOK'
  BY <1>1, <1>2 DEF BotInv, BotTypeOK
<1>6. EveryTaskIsOwned'
  <2>1. \A g \in FormIds : /\ form'[g].pc = "stopping" <=> form[g].pc = "stopping"
                           /\ form'[g].pc = "stopping" => form'[g] = form[g]
    BY <1>3, <1>4
  <2> QED BY <1>2, <2>1 DEF BotInv, EveryTaskIsOwned
<1>7. DownIsQuiet'
  BY <1>2 DEF DownIsQuiet
<1>8. OneFormAtATime'
  <2> SUFFICES ASSUME NEW c \in Channels \ raced'
               PROVE  /\ \A h, g \in FormIds :
                           h[1] = c /\ g[1] = c /\ form'[h] # ClosedForm /\ form'[g] # ClosedForm => h = g
                      /\ c \notin unapplied /\ (\A h \in FormIds : h[1] = c => form'[h].pc \in {"none", "read"}) => Matches(c)'
                      /\ \A h \in FormIds : h[1] = c =>
                           /\ form'[h].pc = "apply" => form'[h].config = config[c]
                           /\ form'[h].pc = "stopping" => registered[c] = 0 /\ ~ Wanted(config[c])
    BY <1>2 DEF OneFormAtATime
  <2>1. c \in Channels \ raced
    BY <1>2
  <2>2. f[1] = c => \A g \in FormIds : g[1] = c => form[g] = ClosedForm
    BY DEF BeginSave, Busy, FormIds
  <2>3. \A h, g \in FormIds : h[1] = c /\ g[1] = c /\ form'[h] # ClosedForm /\ form'[g] # ClosedForm => h = g
    BY <1>2, <1>3, <2>1, <2>2 DEF BotInv, OneFormAtATime
  <2>4. c \notin unapplied /\ (\A h \in FormIds : h[1] = c => form'[h].pc \in {"none", "read"}) => Matches(c)'
    <3>1. Matches(c)' <=> Matches(c)
      BY <1>2 DEF Matches
    <3> QED BY <1>2, <1>3, <1>4, <2>1, <3>1 DEF BotInv, OneFormAtATime
  <2>5. \A h \in FormIds : h[1] = c =>
           /\ form'[h].pc = "apply" => form'[h].config = config[c]
           /\ form'[h].pc = "stopping" => registered[c] = 0 /\ ~ Wanted(config[c])
    BY <1>2, <1>3, <2>1 DEF BotInv, OneFormAtATime
  <2> QED BY <2>3, <2>4, <2>5
<1> QED BY <1>5, <1>6, <1>7, <1>8 DEF BotInv

\* The fields of a form that has one.
LEMMA FormKinds ==
  ASSUME BotInv, NEW f \in FormIds
  PROVE  /\ f[1] \in Channels
         /\ form[f].pc = "none" <=> form[f] = ClosedForm
         /\ form[f].pc \in {"read", "saved"} => form[f] \in Saving
         /\ form[f].pc = "apply" => form[f] \in Applying
         /\ form[f].pc = "stopping" => form[f] \in Stopping
BY DEF FormIds, ClosedForm, Saving, Applying, Stopping, BotInv, BotTypeOK

\* The commit of a form: the bot is behind the configuration until it is applied.
LEMMA UpsertConfigInv == ASSUME BotInv, NEW f \in FormIds, UpsertConfig(f) PROVE BotInv'
<1> DEFINE r == [form[f] EXCEPT !.pc = "saved"]
<1>1. f[1] \in Channels /\ form[f] \in Saving /\ form[f].pc = "read" /\ form[f] # ClosedForm
  BY FormKinds DEF UpsertConfig, ClosedForm
<1>2. r \in Saving /\ r.pc = "saved"
  BY <1>1 DEF Saving
<1>3. /\ form' = [form EXCEPT ![f] = r]
      /\ form'[f] = r
      /\ \A g \in FormIds \ {f} : form'[g] = form[g]
  BY DEF UpsertConfig, BotInv, BotTypeOK
<1>4. /\ config' \in [Channels -> Row]
      /\ \A c \in Channels \ {f[1]} : config'[c] = config[c]
  BY <1>1 DEF UpsertConfig, BotInv, BotTypeOK, Row, Saving
<1>5. UNCHANGED <<up, adapters, registered, raced, unapplied>>
  BY DEF UpsertConfig
<1>6. BotTypeOK'
  BY <1>2, <1>3, <1>4, <1>5 DEF BotInv, BotTypeOK
<1>7. EveryTaskIsOwned'
  <2>1. \A g \in FormIds : /\ form'[g].pc = "stopping" <=> form[g].pc = "stopping"
                           /\ form'[g].pc = "stopping" => form'[g] = form[g]
    BY <1>1, <1>2, <1>3
  <2> QED BY <1>5, <2>1 DEF BotInv, EveryTaskIsOwned
<1>8. DownIsQuiet'
  BY <1>1, <1>5 DEF BotInv, DownIsQuiet
<1>9. OneFormAtATime'
  <2> SUFFICES ASSUME NEW c \in Channels \ raced, up
               PROVE  /\ \A h, g \in FormIds :
                           h[1] = c /\ g[1] = c /\ form'[h] # ClosedForm /\ form'[g] # ClosedForm => h = g
                      /\ c \notin unapplied /\ (\A h \in FormIds : h[1] = c => form'[h].pc \in {"none", "read"}) => Matches(c)'
                      /\ \A h \in FormIds : h[1] = c =>
                           /\ form'[h].pc = "apply" => form'[h].config = config'[c]
                           /\ form'[h].pc = "stopping" => registered[c] = 0 /\ ~ Wanted(config'[c])
    BY <1>5 DEF OneFormAtATime
  <2>1. \A h, g \in FormIds : h[1] = c /\ g[1] = c /\ form'[h] # ClosedForm /\ form'[g] # ClosedForm => h = g
    BY <1>1, <1>3 DEF BotInv, OneFormAtATime
  <2>2. CASE c = f[1]
    <3>1. \A h \in FormIds : h[1] = c /\ h # f => form'[h].pc = "none"
      BY <1>1, <1>3, <2>2 DEF BotInv, OneFormAtATime, ClosedForm
    <3> QED BY <1>2, <1>3, <2>1, <2>2, <3>1
  <2>3. CASE c # f[1]
    <3>1. /\ \A h \in FormIds : h[1] = c => form'[h] = form[h]
          /\ config'[c] = config[c] /\ (Matches(c) => Matches(c)')
      BY <1>3, <1>4, <1>5, <2>3 DEF Matches
    <3> QED BY <2>1, <3>1 DEF BotInv, OneFormAtATime
  <2> QED BY <2>2, <2>3
<1> QED BY <1>6, <1>7, <1>8, <1>9 DEF BotInv

\* A form that fails leaves the bots as they are; what it has saved stays unapplied.
LEMMA FormFailsInv == ASSUME BotInv, NEW f \in FormIds, FormFails(f) PROVE BotInv'
<1>1. /\ f[1] \in Channels /\ form[f].pc \in {"read", "saved"} /\ form[f] # ClosedForm
      /\ ClosedForm.pc = "none"
  BY FormKinds DEF FormFails, ClosedForm
<1>2. /\ form' = [form EXCEPT ![f] = ClosedForm]
      /\ form'[f] = ClosedForm
      /\ \A g \in FormIds \ {f} : form'[g] = form[g]
      /\ UNCHANGED <<up, config, adapters, registered, raced>>
      /\ unapplied \subseteq unapplied' /\ (form[f].pc = "saved" => f[1] \in unapplied')
  BY DEF FormFails, BotInv, BotTypeOK
<1>3. BotTypeOK'
  BY <1>2 DEF BotInv, BotTypeOK
<1>4. EveryTaskIsOwned'
  <2>1. \A g \in FormIds : /\ form'[g].pc = "stopping" <=> form[g].pc = "stopping"
                           /\ form'[g].pc = "stopping" => form'[g] = form[g]
    BY <1>1, <1>2
  <2> QED BY <1>2, <2>1 DEF BotInv, EveryTaskIsOwned
<1>5. DownIsQuiet'
  BY <1>2 DEF BotInv, DownIsQuiet
<1>6. OneFormAtATime'
  <2>1. \A c \in Channels : Matches(c)' <=> Matches(c)
    BY <1>2 DEF Matches
  <2> QED BY <1>1, <1>2, <2>1 DEF BotInv, OneFormAtATime
<1> QED BY <1>3, <1>4, <1>5, <1>6 DEF BotInv

\* Without another form the row that is read again is the one that is there.
LEMMA RefreshConfigInv == ASSUME BotInv, NEW f \in FormIds, RefreshConfig(f) PROVE BotInv'
<1> DEFINE r == [pc |-> "apply", config |-> config[f[1]]]
<1>1. f[1] \in Channels /\ form[f].pc = "saved" /\ form[f] # ClosedForm
  BY FormKinds DEF RefreshConfig, ClosedForm
<1>2. r \in Applying /\ r.pc = "apply" /\ r.config = config[f[1]]
  BY <1>1 DEF Applying, BotInv, BotTypeOK
<1>3. /\ form' = [form EXCEPT ![f] = r]
      /\ form'[f] = r
      /\ \A g \in FormIds \ {f} : form'[g] = form[g]
      /\ UNCHANGED <<up, config, adapters, registered, raced, unapplied>>
  BY DEF RefreshConfig, BotInv, BotTypeOK
<1>4. BotTypeOK'
  BY <1>2, <1>3 DEF BotInv, BotTypeOK
<1>5. EveryTaskIsOwned'
  <2>1. \A g \in FormIds : /\ form'[g].pc = "stopping" <=> form[g].pc = "stopping"
                           /\ form'[g].pc = "stopping" => form'[g] = form[g]
    BY <1>1, <1>2, <1>3
  <2> QED BY <1>3, <2>1 DEF BotInv, EveryTaskIsOwned
<1>6. DownIsQuiet'
  BY <1>1, <1>3 DEF BotInv, DownIsQuiet
<1>7. OneFormAtATime'
  <2>1. \A c \in Channels : Matches(c)' <=> Matches(c)
    BY <1>3 DEF Matches
  <2>2. f[1] \notin raced /\ up => \A g \in FormIds \ {f} : g[1] = f[1] => form[g] = ClosedForm
    BY <1>1 DEF BotInv, OneFormAtATime
  <2> QED BY <1>1, <1>2, <1>3, <2>1, <2>2 DEF BotInv, OneFormAtATime
<1> QED BY <1>4, <1>5, <1>6, <1>7 DEF BotInv

\* BotManager.start: the task of the adapter registered is cancelled and the new
\* one takes its place; a token that is refused leaves everything as it is.
LEMMA ApplyStartInv ==
  ASSUME BotInv, BotAssumption, NEW f \in FormIds, ApplyStart(f)
  PROVE  BotInv'
<1> DEFINE c == f[1]
           token == form[f].config.token
<1>1. /\ c \in Channels /\ form[f].pc = "apply" /\ form[f] # ClosedForm /\ form[f].config \in Row
      /\ ClosedForm.pc = "none" /\ Wanted(form[f].config)
  BY FormKinds DEF ApplyStart, ClosedForm, Applying
<1>2. /\ form' = [form EXCEPT ![f] = ClosedForm]
      /\ form'[f] = ClosedForm
      /\ \A g \in FormIds \ {f} : form'[g] = form[g]
      /\ UNCHANGED <<up, config, raced>> /\ unapplied' = unapplied \ {c}
  BY DEF ApplyStart, BotInv, BotTypeOK
<1>3. token \in Tokens
  BY <1>1 DEF Row, Wanted
<1>4. \A g \in FormIds : /\ form'[g].pc = "stopping" <=> form[g].pc = "stopping"
                         /\ form'[g].pc = "stopping" => form'[g] = form[g]
  BY <1>1, <1>2
<1>5. DownIsQuiet'
  BY <1>2 DEF BotInv, DownIsQuiet
<1>6. c \notin raced /\ up => \A g \in FormIds \ {f} : g[1] = c => form[g] = ClosedForm
  BY <1>1 DEF BotInv, OneFormAtATime
<1>7. c \notin raced /\ up => form[f].config = config[c]
  BY <1>1 DEF BotInv, OneFormAtATime
<1>8. CASE token \in BadTokens
  <2>1. UNCHANGED <<adapters, registered>>
    BY <1>8 DEF ApplyStart, StartAdapter
  <2>2. BotTypeOK'
    BY <1>2, <2>1 DEF BotInv, BotTypeOK
  <2>3. EveryTaskIsOwned'
    BY <1>4, <2>1 DEF BotInv, EveryTaskIsOwned
  <2>4. OneFormAtATime'
    <3>1. \A d \in Channels : Matches(d)' <=> Matches(d)
      BY <1>2, <2>1 DEF Matches
    <3>2. c \notin raced /\ up => Matches(c)
      BY <1>7, <1>8 DEF Matches
    <3> QED BY <1>1, <1>2, <1>6, <2>1, <3>1, <3>2 DEF BotInv, OneFormAtATime
  <2> QED BY <1>5, <2>2, <2>3, <2>4 DEF BotInv
<1>9. CASE token \notin BadTokens
  <2> DEFINE n == Len(adapters[c]) + 1
             new == [token |-> token, task |-> "polling"]
             old == [i \in DOMAIN adapters[c] |->
                       IF i = registered[c] THEN Cancelled(adapters[c][i]) ELSE adapters[c][i]]
  <2>1. /\ adapters' = [adapters EXCEPT ![c] = Append(old, new)]
        /\ registered' = [registered EXCEPT ![c] = n]
    BY <1>9 DEF ApplyStart, StartAdapter
  <2>2. adapters[c] \in Seq(Adapter) /\ new \in Adapter
    BY <1>1, <1>3 DEF BotInv, BotTypeOK, Adapter
  <2>3. \A i \in DOMAIN adapters[c] : adapters[c][i] \in Adapter
    BY <2>2
  <2>4. /\ old \in Seq(Adapter) /\ Len(old) = Len(adapters[c])
        /\ \A i \in 1 .. Len(adapters[c]) :
             /\ i = registered[c] => ~ Live(old[i])
             /\ i # registered[c] => old[i] = adapters[c][i]
    <3>1. \A i \in DOMAIN adapters[c] : old[i] \in Adapter
      BY <2>3 DEF Adapter, Cancelled
    <3>2. DOMAIN old = 1 .. Len(adapters[c])
      BY <2>2
    <3>3. Len(adapters[c]) \in Nat /\ DOMAIN adapters[c] = 1 .. Len(adapters[c])
      BY <2>2
    <3>4. old \in Seq(Adapter) /\ Len(old) = Len(adapters[c])
      <4>1. old = [i \in 1 .. Len(adapters[c]) |-> old[i]]
        BY <3>3
      <4> HIDE DEF old
      <4>2. old \in [1 .. Len(adapters[c]) -> Adapter]
        BY <3>1, <3>3, <4>1
      <4> QED BY <3>2, <3>3, <4>2
    <3>5. \A i \in 1 .. Len(adapters[c]) : i = registered[c] => ~ Live(old[i])
      BY <2>2, <2>3 DEF Adapter, Cancelled, Live
    <3> QED BY <2>2, <3>4, <3>5
  <2> HIDE DEF new, old
  <2>5. /\ adapters'[c] \in Seq(Adapter) /\ Len(adapters'[c]) = n /\ n \in Nat /\ n > 0
        /\ adapters'[c][n] = new
        /\ \A i \in 1 .. Len(adapters[c]) : adapters'[c][i] = old[i]
        /\ \A d \in Channels \ {c} : adapters'[d] = adapters[d]
    BY <1>1, <2>1, <2>2, <2>4 DEF BotInv, BotTypeOK
  <2>6. registered'[c] = n /\ \A d \in Channels \ {c} : registered'[d] = registered[d]
    BY <1>1, <2>1 DEF BotInv, BotTypeOK
  <2>7. new.task = "polling" /\ new.token = token
    BY DEF new
  <2>8. BotTypeOK'
    <3>1. adapters' \in [Channels -> Seq(Adapter)]
      BY <1>1, <2>1, <2>5 DEF BotInv, BotTypeOK
    <3>2. registered' \in [Channels -> Nat]
      BY <2>1, <2>5 DEF BotInv, BotTypeOK
    <3> QED BY <1>2, <3>1, <3>2 DEF BotInv, BotTypeOK
  <2>9. EveryTaskIsOwned'
    <3>1. ASSUME NEW i \in 1 .. n
          PROVE  Live(adapters'[c][i]) <=>
                   \/ i = n
                   \/ \E g \in FormIds : g[1] = c /\ form[g].pc = "stopping" /\ form[g].adapter = i
      <4>1. CASE i = n
        BY <2>5, <2>7, <4>1 DEF Live
      <4>2. CASE i # n
        <5>1. i \in 1 .. Len(adapters[c])
          BY <2>2, <4>2
        <5>2. CASE i = registered[c]
          BY <1>1, <2>4, <2>5, <4>2, <5>1, <5>2 DEF BotInv, EveryTaskIsOwned
        <5>3. CASE i # registered[c]
          <6>1. adapters'[c][i] = adapters[c][i]
            BY <2>4, <2>5, <5>1, <5>3
          <6>2. Live(adapters[c][i]) <=>
                  \/ i = registered[c]
                  \/ \E g \in FormIds : g[1] = c /\ form[g].pc = "stopping" /\ form[g].adapter = i
            BY <1>1, <5>1 DEF BotInv, EveryTaskIsOwned
          <6> QED BY <4>2, <5>3, <6>1, <6>2
        <5> QED BY <5>2, <5>3
      <4> QED BY <4>1, <4>2
    <3>2. ASSUME NEW g \in FormIds, g[1] = c, form[g].pc = "stopping"
          PROVE  /\ form[g].adapter \in 1 .. n /\ form[g].adapter # n
                 /\ \A h \in FormIds \ {g} : h[1] = c /\ form[h].pc = "stopping" =>
                      form[h].adapter # form[g].adapter
      BY <1>1, <2>2, <3>2 DEF BotInv, EveryTaskIsOwned
    <3>3. ASSUME NEW d \in Channels
          PROVE  /\ registered'[d] <= Len(adapters'[d])
                 /\ \A i \in 1 .. Len(adapters'[d]) :
                      Live(adapters'[d][i]) <=>
                        \/ i = registered'[d]
                        \/ \E g \in FormIds : g[1] = d /\ form[g].pc = "stopping" /\ form[g].adapter = i
                 /\ \A g \in FormIds : g[1] = d /\ form[g].pc = "stopping" =>
                      /\ form[g].adapter \in 1 .. Len(adapters'[d])
                      /\ form[g].adapter # registered'[d]
                      /\ \A h \in FormIds \ {g} : h[1] = d /\ form[h].pc = "stopping" =>
                           form[h].adapter # form[g].adapter
      <4>1. CASE d = c
        BY <2>5, <2>6, <3>1, <3>2, <4>1
      <4>2. CASE d # c
        BY <2>5, <2>6, <4>2 DEF BotInv, EveryTaskIsOwned
      <4> QED BY <4>1, <4>2
    <3> QED BY <1>4, <3>3 DEF EveryTaskIsOwned
  <2>10. OneFormAtATime'
    <3>1. \A d \in Channels \ {c} : Matches(d)' <=> Matches(d)
      BY <1>2, <2>5, <2>6 DEF Matches
    <3>2. c \notin raced /\ up => Matches(c)'
      BY <1>1, <1>2, <1>7, <2>5, <2>6, <2>7 DEF Matches
    <3> QED BY <1>1, <1>2, <1>6, <2>6, <3>1, <3>2 DEF BotInv, OneFormAtATime
  <2> QED BY <1>5, <2>8, <2>9, <2>10 DEF BotInv
<1> QED BY <1>8, <1>9

\* BotManager.stop: the form that takes an adapter out of the register owns its task.
LEMMA ApplyStopInv == ASSUME BotInv, NEW f \in FormIds, ApplyStop(f) PROVE BotInv'
<1> DEFINE c == f[1]
           r == IF registered[c] = 0 THEN ClosedForm ELSE [pc |-> "stopping", adapter |-> registered[c]]
<1>1. /\ c \in Channels /\ form[f].pc = "apply" /\ form[f] # ClosedForm /\ ~ Wanted(form[f].config)
      /\ ClosedForm.pc = "none" /\ registered[c] \in Nat
  BY FormKinds DEF ApplyStop, ClosedForm, BotInv, BotTypeOK
<1>2. /\ r \in {ClosedForm} \cup Stopping
      /\ registered[c] = 0 => r = ClosedForm
      /\ registered[c] # 0 => r.pc = "stopping" /\ r.adapter = registered[c]
  BY <1>1 DEF Stopping
<1>3. /\ form' = [form EXCEPT ![f] = r]
      /\ form'[f] = r
      /\ \A g \in FormIds \ {f} : form'[g] = form[g]
      /\ UNCHANGED <<up, config, adapters, raced>> /\ unapplied' = unapplied \ {c}
  BY DEF ApplyStop, BotInv, BotTypeOK
<1>4. /\ registered' \in [Channels -> Nat] /\ registered'[c] = 0
      /\ \A d \in Channels \ {c} : registered'[d] = registered[d]
  BY <1>1 DEF ApplyStop, BotInv, BotTypeOK
<1> HIDE DEF r
<1>5. BotTypeOK'
  BY <1>2, <1>3, <1>4 DEF BotInv, BotTypeOK
<1>6. EveryTaskIsOwned'
  <2> SUFFICES ASSUME NEW d \in Channels
               PROVE  /\ registered'[d] <= Len(adapters[d])
                      /\ \A i \in 1 .. Len(adapters[d]) :
                           Live(adapters[d][i]) <=>
                             \/ i = registered'[d]
                             \/ \E g \in FormIds : g[1] = d /\ form'[g].pc = "stopping" /\ form'[g].adapter = i
                      /\ \A g \in FormIds : g[1] = d /\ form'[g].pc = "stopping" =>
                           /\ form'[g].adapter \in 1 .. Len(adapters[d])
                           /\ form'[g].adapter # registered'[d]
                           /\ \A h \in FormIds \ {g} : h[1] = d /\ form'[h].pc = "stopping" =>
                                form'[h].adapter # form'[g].adapter
    BY <1>3 DEF EveryTaskIsOwned
  <2>1. /\ registered[d] <= Len(adapters[d]) /\ registered[d] \in Nat /\ Len(adapters[d]) \in Nat
        /\ \A i \in 1 .. Len(adapters[d]) :
             Live(adapters[d][i]) <=>
               \/ i = registered[d]
               \/ \E g \in FormIds : g[1] = d /\ form[g].pc = "stopping" /\ form[g].adapter = i
        /\ \A g \in FormIds : g[1] = d /\ form[g].pc = "stopping" =>
             /\ form[g].adapter \in 1 .. Len(adapters[d])
             /\ form[g].adapter # registered[d]
             /\ \A h \in FormIds \ {g} : h[1] = d /\ form[h].pc = "stopping" =>
                  form[h].adapter # form[g].adapter
    BY DEF BotInv, EveryTaskIsOwned, BotTypeOK
  <2>2. CASE d # c
    <3>1. \A g \in FormIds : g[1] = d => form'[g] = form[g]
      BY <1>3, <2>2
    <3>2. registered'[d] = registered[d]
      BY <1>4, <2>2
    <3> QED BY <2>1, <3>1, <3>2
  <2>3. CASE d = c /\ registered[c] = 0
    <3>1. \A g \in FormIds : /\ form'[g].pc = "stopping" <=> form[g].pc = "stopping"
                             /\ form'[g].pc = "stopping" => form'[g] = form[g]
      BY <1>1, <1>2, <1>3, <2>3
    <3> QED BY <1>4, <2>1, <2>3, <3>1
  <2>4. CASE d = c /\ registered[c] # 0
    <3>1. /\ form'[f].pc = "stopping" /\ form'[f].adapter = registered[c] /\ form[f].pc # "stopping"
          /\ registered[c] \in 1 .. Len(adapters[c])
      BY <1>1, <1>2, <1>3, <2>1, <2>4
    <3>2. ASSUME NEW i \in 1 .. Len(adapters[c])
          PROVE  Live(adapters[c][i]) <=>
                   \E g \in FormIds : g[1] = c /\ form'[g].pc = "stopping" /\ form'[g].adapter = i
      <4>1. CASE i = registered[c]
        BY <2>1, <2>4, <3>1, <4>1
      <4>2. CASE i # registered[c]
        BY <1>3, <2>1, <2>4, <3>1, <4>2
      <4> QED BY <4>1, <4>2
    <3>3. ASSUME NEW g \in FormIds, g[1] = c, form'[g].pc = "stopping"
          PROVE  /\ form'[g].adapter \in 1 .. Len(adapters[c])
                 /\ form'[g].adapter # 0
                 /\ \A h \in FormIds \ {g} : h[1] = c /\ form'[h].pc = "stopping" =>
                      form'[h].adapter # form'[g].adapter
      <4>1. CASE g = f
        BY <1>3, <2>1, <2>4, <3>1, <4>1
      <4>2. CASE g # f
        BY <1>3, <2>1, <2>4, <3>1, <3>3, <4>2
      <4> QED BY <4>1, <4>2
    <3> QED BY <1>4, <2>1, <2>4, <3>2, <3>3
  <2> QED BY <2>2, <2>3, <2>4
<1>7. DownIsQuiet'
  BY <1>1, <1>3 DEF BotInv, DownIsQuiet
<1>8. OneFormAtATime'
  <2>1. \A d \in Channels \ {c} : Matches(d)' <=> Matches(d)
    BY <1>3, <1>4 DEF Matches
  <2>2. c \notin raced /\ up => \A g \in FormIds \ {f} : g[1] = c => form[g] = ClosedForm
    BY <1>1 DEF BotInv, OneFormAtATime
  <2>3. c \notin raced /\ up => ~ Wanted(config[c])
    BY <1>1 DEF BotInv, OneFormAtATime
  <2>4. c \notin raced /\ up => Matches(c)'
    BY <1>3, <1>4, <2>3 DEF Matches
  <2>5. r.pc \in {"none", "stopping"}
    BY <1>1, <1>2
  <2> QED BY <1>1, <1>2, <1>3, <1>4, <2>1, <2>2, <2>3, <2>4, <2>5 DEF BotInv, OneFormAtATime
<1> QED BY <1>5, <1>6, <1>7, <1>8 DEF BotInv

\* The task of one adapter changes, and nothing else of the adapters.
LEMMA TaskChanges ==
  ASSUME BotInv, NEW c \in Channels, NEW i \in 1 .. Len(adapters[c]), NEW task \in {"polling", "pausing", "cancelled", "done"},
         adapters' = [adapters EXCEPT ![c][i].task = task]
  PROVE  /\ adapters' \in [Channels -> Seq(Adapter)]
         /\ \A d \in Channels : /\ Len(adapters'[d]) = Len(adapters[d])
                                /\ \A j \in 1 .. Len(adapters[d]) : adapters'[d][j].token = adapters[d][j].token
         /\ \A d \in Channels : \A j \in 1 .. Len(adapters[d]) : d # c \/ j # i => adapters'[d][j] = adapters[d][j]
         /\ adapters'[c][i].task = task
<1> DEFINE new == [adapters[c][i] EXCEPT !.task = task]
           row == [adapters[c] EXCEPT ![i] = new]
<1>1. adapters[c] \in Seq(Adapter) /\ adapters[c][i] \in Adapter
  BY DEF BotInv, BotTypeOK
<1>2. new \in Adapter /\ new.task = task /\ new.token = adapters[c][i].token
  BY <1>1 DEF Adapter
<1>3. adapters' = [adapters EXCEPT ![c] = row]
  OBVIOUS
<1> HIDE DEF new
<1>4. /\ row \in Seq(Adapter) /\ Len(row) = Len(adapters[c]) /\ row[i] = new
      /\ \A j \in 1 .. Len(adapters[c]) : j # i => row[j] = adapters[c][j]
  BY <1>1, <1>2
<1> HIDE DEF row
<1>5. adapters' \in [Channels -> Seq(Adapter)] /\ adapters'[c] = row
      /\ \A d \in Channels \ {c} : adapters'[d] = adapters[d]
  BY <1>3, <1>4 DEF BotInv, BotTypeOK
<1> QED BY <1>2, <1>4, <1>5

\* A change of tasks alone does not touch what is configured.
LEMMA TokensKept ==
  ASSUME BotInv, UNCHANGED <<config, registered>>,
         \A d \in Channels : \A j \in 1 .. Len(adapters[d]) : adapters'[d][j].token = adapters[d][j].token
  PROVE  \A d \in Channels : Matches(d)' <=> Matches(d)
<1> SUFFICES ASSUME NEW d \in Channels PROVE Matches(d)' <=> Matches(d)
  OBVIOUS
<1>1. registered[d] \in Nat /\ registered[d] <= Len(adapters[d]) /\ Len(adapters[d]) \in Nat
  BY DEF BotInv, BotTypeOK, EveryTaskIsOwned
<1>2. registered[d] # 0 => adapters'[d][registered[d]].token = adapters[d][registered[d]].token
  BY <1>1
<1> QED BY <1>2 DEF Matches

\* The task that a form waits for ends, and no other.
LEMMA ShutDownInv == ASSUME BotInv, NEW f \in FormIds, ShutDown(f) PROVE BotInv'
<1> DEFINE c == f[1]
           a == form[f].adapter
<1>1. /\ c \in Channels /\ form[f].pc = "stopping" /\ form[f] # ClosedForm /\ ClosedForm.pc = "none"
      /\ a \in 1 .. Len(adapters[c]) /\ a # registered[c]
  BY FormKinds DEF ShutDown, ClosedForm, BotInv, EveryTaskIsOwned
<1>2. /\ form' = [form EXCEPT ![f] = ClosedForm]
      /\ form'[f] = ClosedForm
      /\ \A g \in FormIds \ {f} : form'[g] = form[g]
      /\ UNCHANGED <<up, config, registered, raced, unapplied>>
  BY DEF ShutDown, BotInv, BotTypeOK
<1>3. /\ adapters' \in [Channels -> Seq(Adapter)]
      /\ \A d \in Channels : /\ Len(adapters'[d]) = Len(adapters[d])
                             /\ \A j \in 1 .. Len(adapters[d]) : adapters'[d][j].token = adapters[d][j].token
      /\ \A d \in Channels : \A j \in 1 .. Len(adapters[d]) : d # c \/ j # a => adapters'[d][j] = adapters[d][j]
      /\ adapters'[c][a].task = "done"
  <2>1. adapters' = [adapters EXCEPT ![c][a].task = "done"]
    BY DEF ShutDown
  <2> QED BY <1>1, <2>1, TaskChanges
<1>4. BotTypeOK'
  BY <1>2, <1>3 DEF BotInv, BotTypeOK
<1>5. EveryTaskIsOwned'
  <2> SUFFICES ASSUME NEW d \in Channels
               PROVE  /\ registered[d] <= Len(adapters[d])
                      /\ \A i \in 1 .. Len(adapters[d]) :
                           Live(adapters'[d][i]) <=>
                             \/ i = registered[d]
                             \/ \E g \in FormIds : g[1] = d /\ form'[g].pc = "stopping" /\ form'[g].adapter = i
                      /\ \A g \in FormIds : g[1] = d /\ form'[g].pc = "stopping" =>
                           /\ form'[g].adapter \in 1 .. Len(adapters[d])
                           /\ form'[g].adapter # registered[d]
                           /\ \A h \in FormIds \ {g} : h[1] = d /\ form'[h].pc = "stopping" =>
                                form'[h].adapter # form'[g].adapter
    BY <1>2, <1>3 DEF EveryTaskIsOwned
  <2>1. /\ registered[d] <= Len(adapters[d])
        /\ \A i \in 1 .. Len(adapters[d]) :
             Live(adapters[d][i]) <=>
               \/ i = registered[d]
               \/ \E g \in FormIds : g[1] = d /\ form[g].pc = "stopping" /\ form[g].adapter = i
        /\ \A g \in FormIds : g[1] = d /\ form[g].pc = "stopping" =>
             /\ form[g].adapter \in 1 .. Len(adapters[d])
             /\ form[g].adapter # registered[d]
             /\ \A h \in FormIds \ {g} : h[1] = d /\ form[h].pc = "stopping" =>
                  form[h].adapter # form[g].adapter
    BY DEF BotInv, EveryTaskIsOwned
  <2>2. \A g \in FormIds : /\ form'[g].pc = "stopping" <=> g # f /\ form[g].pc = "stopping"
                           /\ form'[g].pc = "stopping" => form'[g] = form[g]
    BY <1>1, <1>2
  <2>3. ASSUME NEW i \in 1 .. Len(adapters[d])
        PROVE  Live(adapters'[d][i]) <=>
                 \/ i = registered[d]
                 \/ \E g \in FormIds : g[1] = d /\ form'[g].pc = "stopping" /\ form'[g].adapter = i
    <3>1. CASE d = c /\ i = a
      BY <1>1, <1>3, <2>1, <2>2, <3>1 DEF Live
    <3>2. CASE d # c \/ i # a
      <4>1. adapters'[d][i] = adapters[d][i]
        BY <1>3, <3>2
      <4>2. \A g \in FormIds : g[1] = d /\ form[g].pc = "stopping" /\ form[g].adapter = i => g # f
        BY <3>2
      <4> QED BY <2>1, <2>2, <4>1, <4>2
    <3> QED BY <3>1, <3>2
  <2> QED BY <2>1, <2>2, <2>3
<1>6. DownIsQuiet'
  BY <1>1, <1>2 DEF BotInv, DownIsQuiet
<1>7. OneFormAtATime'
  <2>1. \A d \in Channels : Matches(d)' <=> Matches(d)
    BY <1>2, <1>3, TokensKept
  <2>2. c \notin raced /\ up => /\ \A g \in FormIds \ {f} : g[1] = c => form[g] = ClosedForm
                                /\ registered[c] = 0 /\ ~ Wanted(config[c])
    BY <1>1 DEF BotInv, OneFormAtATime
  <2>3. c \notin raced /\ up => Matches(c)
    BY <2>2 DEF Matches
  <2> QED BY <1>1, <1>2, <2>1, <2>2, <2>3 DEF BotInv, OneFormAtATime
<1> QED BY <1>4, <1>5, <1>6, <1>7 DEF BotInv

\* Pauses of a task, and the end of one cancelled, change neither its owner nor its token.
LEMMA PollingInv ==
  ASSUME BotInv, NEW c \in Channels, NEW i, PollingBreaks(c, i) \/ PollingResumes(c, i) \/ CancelledEnds(c, i)
  PROVE  BotInv'
<1>1. i \in 1 .. Len(adapters[c]) /\ adapters[c][i].task # "done"
  BY DEF PollingBreaks, PollingResumes, CancelledEnds, Running, BotInv, BotTypeOK
<1>2. PICK task \in {"polling", "pausing", "done"} :
        /\ adapters' = [adapters EXCEPT ![c][i].task = task]
        /\ task = "done" <=> adapters[c][i].task = "cancelled"
  BY DEF PollingBreaks, PollingResumes, CancelledEnds, Current
<1>3. /\ adapters' \in [Channels -> Seq(Adapter)]
      /\ \A d \in Channels : /\ Len(adapters'[d]) = Len(adapters[d])
                             /\ \A j \in 1 .. Len(adapters[d]) : adapters'[d][j].token = adapters[d][j].token
      /\ \A d \in Channels : \A j \in 1 .. Len(adapters[d]) : d # c \/ j # i => adapters'[d][j] = adapters[d][j]
      /\ adapters'[c][i].task = task
  BY <1>1, <1>2, TaskChanges
<1>4. UNCHANGED <<up, config, registered, form, raced, unapplied>>
  BY DEF PollingBreaks, PollingResumes, CancelledEnds
<1>5. \A d \in Channels : \A j \in 1 .. Len(adapters[d]) :
        Live(adapters'[d][j]) <=> Live(adapters[d][j])
  BY <1>1, <1>2, <1>3 DEF Live
<1>6. EveryTaskIsOwned'
  <2> SUFFICES ASSUME NEW d \in Channels
               PROVE  /\ registered[d] <= Len(adapters[d])
                      /\ \A j \in 1 .. Len(adapters[d]) :
                           Live(adapters'[d][j]) <=>
                             \/ j = registered[d]
                             \/ \E g \in FormIds : g[1] = d /\ form[g].pc = "stopping" /\ form[g].adapter = j
                      /\ \A g \in FormIds : g[1] = d /\ form[g].pc = "stopping" =>
                           /\ form[g].adapter \in 1 .. Len(adapters[d])
                           /\ form[g].adapter # registered[d]
                           /\ \A h \in FormIds \ {g} : h[1] = d /\ form[h].pc = "stopping" =>
                                form[h].adapter # form[g].adapter
    BY <1>3, <1>4 DEF EveryTaskIsOwned
  <2> QED BY <1>5 DEF BotInv, EveryTaskIsOwned
<1>7. \A d \in Channels : Matches(d)' <=> Matches(d)
  BY <1>3, <1>4, TokensKept
<1> QED BY <1>3, <1>4, <1>6, <1>7 DEF BotInv, BotTypeOK, DownIsQuiet, OneFormAtATime

\* start_bots starts what the configuration wants.
LEMMA StartBotsInv == ASSUME BotInv, BotAssumption, StartBots PROVE BotInv'
<1> DEFINE starts(c) == Wanted(config[c]) /\ config[c].token \notin BadTokens
           bot(c) == [token |-> config[c].token, task |-> "polling"]
<1>1. \A f \in FormIds : form[f] = ClosedForm /\ form[f].pc = "none"
  BY DEF StartBots, BotInv, DownIsQuiet, ClosedForm
<1>2. /\ up' /\ raced' = {} /\ UNCHANGED <<config, form>>
      /\ adapters' = [c \in Channels |-> IF starts(c) THEN <<bot(c)>> ELSE <<>>]
      /\ registered' = [c \in Channels |-> IF starts(c) THEN 1 ELSE 0]
  BY DEF StartBots
<1>3. ASSUME NEW c \in Channels, starts(c)
      PROVE  /\ <<bot(c)>> \in Seq(Adapter) /\ Len(<<bot(c)>>) = 1 /\ <<bot(c)>>[1] = bot(c)
             /\ bot(c).task = "polling" /\ bot(c).token = config[c].token
  BY <1>3 DEF BotInv, BotTypeOK, Row, Adapter, Wanted
<1> HIDE DEF starts, bot
<1>4. BotTypeOK'
  <2>1. up' \in BOOLEAN
    BY DEF StartBots
  <2> QED BY <1>2, <1>3, <2>1 DEF BotInv, BotTypeOK
<1>5. EveryTaskIsOwned'
  <2> SUFFICES ASSUME NEW c \in Channels
               PROVE  /\ registered'[c] <= Len(adapters'[c])
                      /\ \A i \in 1 .. Len(adapters'[c]) :
                           Live(adapters'[c][i]) <=> i = registered'[c]
    BY <1>1, <1>2 DEF EveryTaskIsOwned
  <2>1. CASE starts(c)
    BY <1>2, <1>3, <2>1 DEF Live
  <2>2. CASE ~ starts(c)
    BY <1>2, <2>2
  <2> QED BY <2>1, <2>2
<1>6. DownIsQuiet'
  BY <1>2 DEF DownIsQuiet
<1>7. OneFormAtATime'
  <2>1. ASSUME NEW c \in Channels PROVE Matches(c)'
    <3>1. CASE starts(c)
      BY <1>2, <1>3, <3>1 DEF Matches, starts
    <3>2. CASE ~ starts(c)
      BY <1>2, <3>2 DEF Matches, starts
    <3> QED BY <3>1, <3>2
  <2> QED BY <1>1, <1>2, <2>1 DEF OneFormAtATime
<1> QED BY <1>4, <1>5, <1>6, <1>7 DEF BotInv

\* stop_bots, or the process is killed.
LEMMA StopBotsInv == ASSUME BotInv, StopBots PROVE BotInv'
<1>1. \A f \in FormIds : form'[f] = ClosedForm /\ form'[f].pc = "none"
  BY DEF StopBots, ClosedForm, FormIds
<1>2. BotTypeOK'
  <2>1. <<>> \in Seq(Adapter)
    OBVIOUS
  <2> QED BY <2>1 DEF StopBots, BotInv, BotTypeOK, FormIds
<1>3. EveryTaskIsOwned'
  BY <1>1 DEF StopBots, EveryTaskIsOwned
<1>4. DownIsQuiet' /\ OneFormAtATime'
  BY <1>1 DEF StopBots, DownIsQuiet, OneFormAtATime
<1> QED BY <1>2, <1>3, <1>4 DEF BotInv

\* Every step of the bots.
LEMMA BotNextInv == ASSUME BotInv, BotAssumption, BotNext PROVE BotInv'
  BY BeginSaveInv, UpsertConfigInv, FormFailsInv, RefreshConfigInv, ApplyStartInv, ApplyStopInv,
     ShutDownInv, PollingInv, StartBotsInv, StopBotsInv
     DEF BotNext, AdminSaveBots, Lifespan, Polling, FormIds

\* A step that touches no bot.
LEMMA BotsKept == ASSUME BotInv, UNCHANGED bots PROVE BotInv'
BY DEF bots, BotInv, BotTypeOK, EveryTaskIsOwned, DownIsQuiet, OneFormAtATime, Matches

\* The invariant of the bots gives RunningMatchesConfig.
LEMMA BotsSafe == BotInv => RunningMatchesConfig
<1> SUFFICES ASSUME BotInv, NEW c \in Channels, up, Busy(c) = {}
             PROVE  /\ Current(c) = {registered[c]} \ {0}
                    /\ c \notin raced \cup unapplied /\ config[c].token \notin BadTokens =>
                         {adapters[c][i].token : i \in Current(c)} =
                           (IF Wanted(config[c]) THEN {config[c].token} ELSE {})
  BY DEF RunningMatchesConfig
<1>1. \A f \in FormIds : f[1] = c => form[f] = ClosedForm /\ form[f].pc = "none"
  BY DEF Busy, FormIds, ClosedForm
<1>2. /\ adapters[c] \in Seq(Adapter) /\ DOMAIN adapters[c] = 1 .. Len(adapters[c])
      /\ registered[c] \in Nat /\ registered[c] <= Len(adapters[c])
      /\ \A i \in 1 .. Len(adapters[c]) : Live(adapters[c][i]) <=> i = registered[c]
  <2>1. adapters[c] \in Seq(Adapter) /\ registered[c] \in Nat
    BY DEF BotInv, BotTypeOK
  <2>2. DOMAIN adapters[c] = 1 .. Len(adapters[c])
    BY <2>1
  <2>3. /\ registered[c] <= Len(adapters[c])
        /\ \A i \in 1 .. Len(adapters[c]) :
             Live(adapters[c][i]) <=>
               \/ i = registered[c]
               \/ \E f \in FormIds : f[1] = c /\ form[f].pc = "stopping" /\ form[f].adapter = i
    BY DEF BotInv, EveryTaskIsOwned
  <2>4. \A f \in FormIds : f[1] = c => form[f].pc # "stopping"
    BY <1>1
  <2> QED BY <2>1, <2>2, <2>3, <2>4
<1>3. Current(c) = {registered[c]} \ {0}
  BY <1>2 DEF Live, Current, Running
<1>4. c \notin raced \cup unapplied => Matches(c)
  BY <1>1 DEF BotInv, OneFormAtATime
<1> QED BY <1>3, <1>4 DEF Matches

-----------------------------------------------------------------------------
(***************************************************************************)
(* The chats.                                                              *)
(***************************************************************************)

Storing == [pc : {"found", "inserted"}, who : People, chat : Nat]
Delivering == [pc : {"deliver"}, message : Nat]
Message == [chat : Nat, who : People, direction : {"in", "out"}, is_read : BOOLEAN]

TalkTypeOK ==
  /\ chats \in Seq(People)
  /\ messages \in Seq(Message)
  /\ handler \in [Handlers -> {NoHandler} \cup Storing \cup Delivering]

\* A request with a chat has one of the person it is from, and so does a message.
OwnChats ==
  /\ \A h \in Handlers : handler[h].pc = "found" /\ handler[h].chat # 0 => handler[h].chat \in ChatsOf(handler[h].who)
  /\ \A m \in DOMAIN messages : messages[m].chat \in ChatsOf(messages[m].who)

\* Those that write to a shop as its customers and have lost their order.
Unordered(p) == ChannelOf[p] = Site /\ p \in overlapped

\* The requests that will create a chat for somebody, whom nothing stops any
\* more: for a messenger's user those that hold the constraint.
Bound(p) == IF ChannelOf[p] = Site THEN Creating(p) \cup Inserted(p) ELSE Inserted(p)

\* There is one chat, or one request bound to create it.
OneChatOrRequest ==
  \A p \in People : ~ Unordered(p) =>
    /\ \A i, j \in ChatsOf(p) : i = j
    /\ \A g, h \in Bound(p) : g = h
    /\ ChatsOf(p) = {} \/ Bound(p) = {}

TalkInv == TalkTypeOK /\ OwnChats /\ OneChatOrRequest

\* There are no chats at first.
LEMMA TalkInitInv == ChatInit => TalkInv
<1> SUFFICES ASSUME ChatInit PROVE TalkInv
  OBVIOUS
<1>1. \A h \in Handlers : handler[h] = NoHandler /\ handler[h].pc = "none"
  BY DEF ChatInit, NoHandler
<1>2. TalkTypeOK
  BY DEF ChatInit, TalkTypeOK
<1>3. OwnChats
  BY <1>1 DEF ChatInit, OwnChats
<1>4. OneChatOrRequest
  BY <1>1 DEF ChatInit, OneChatOrRequest, ChatsOf, Bound, Creating, Inserted
<1> QED BY <1>2, <1>3, <1>4 DEF TalkInv

\* How requests are told apart.
LEMMA HandlerKinds ==
  ASSUME TalkInv, NEW h \in Handlers
  PROVE  /\ handler[h].pc \in {"found", "inserted"} => handler[h] \in Storing
         /\ handler[h].pc = "deliver" => handler[h] \in Delivering
         /\ NoHandler.pc = "none"
BY DEF NoHandler, Storing, Delivering, TalkInv, TalkTypeOK

\* What Resume does.
LEMMA ResumeDoes ==
  ASSUME TalkInv, NEW h \in Handlers, NEW r \in {NoHandler} \cup Storing \cup Delivering, Resume(h, r)
  PROVE  /\ handler' \in [Handlers -> {NoHandler} \cup Storing \cup Delivering]
         /\ handler'[h] = r
         /\ \A g \in Handlers \ {h} : handler'[g] = handler[g]
BY DEF Resume, TalkInv, TalkTypeOK

\* A message of a customer without a chat is the only one about to create it, or
\* the customer is one of those that overlapped.
LEMMA FindChatInv == ASSUME TalkInv, NEW h \in Handlers, NEW p \in People, FindChat(h, p) PROVE TalkInv'
<1>1. PICK chat \in (IF ChatsOf(p) = {} THEN {0} ELSE ChatsOf(p)) :
        Resume(h, [pc |-> "found", who |-> p, chat |-> chat])
  BY DEF FindChat
<1> DEFINE r == [pc |-> "found", who |-> p, chat |-> chat]
<1>2. ChatsOf(p) \subseteq Nat \ {0}
  BY DEF ChatsOf, TalkInv, TalkTypeOK
<1>3. r \in Storing
  BY <1>1, <1>2 DEF Storing
<1>4. /\ handler' \in [Handlers -> {NoHandler} \cup Storing \cup Delivering]
      /\ handler'[h] = r
      /\ \A g \in Handlers \ {h} : handler'[g] = handler[g]
  BY <1>1, <1>3, ResumeDoes
<1>5. /\ UNCHANGED <<chats, messages>> /\ overlapped \subseteq overlapped'
      /\ \A q \in People : ChatsOf(q)' = ChatsOf(q)
      /\ handler[h].pc = "none"
  BY DEF FindChat, ChatsOf, Idle
<1>6. TalkTypeOK'
  BY <1>4, <1>5 DEF TalkInv, TalkTypeOK
<1>7. OwnChats'
  <2>1. r.chat # 0 => r.chat \in ChatsOf(p)
    BY <1>1
  <2>2. \A g \in Handlers : handler'[g].pc = "found" /\ handler'[g].chat # 0 =>
          handler'[g].chat \in ChatsOf(handler'[g].who)
    BY <1>4, <2>1 DEF TalkInv, OwnChats
  <2> QED BY <1>5, <2>2 DEF TalkInv, OwnChats, ChatsOf
<1>8. OneChatOrRequest'
  <2> SUFFICES ASSUME NEW q \in People, ~ Unordered(q)'
               PROVE  /\ \A i, j \in ChatsOf(q) : i = j
                      /\ \A f, g \in Bound(q)' : f = g
                      /\ ChatsOf(q) = {} \/ Bound(q)' = {}
    BY <1>5 DEF OneChatOrRequest
  <2>1. ~ Unordered(q)
    BY <1>5 DEF Unordered
  <2>2. CASE q = p /\ ChannelOf[p] = Site /\ ChatsOf(p) = {}
    <3>1. Creating(p) \cup Inserted(p) = {}
      BY <2>2 DEF FindChat, Unordered
    <3>2. Bound(p)' \subseteq {h}
      BY <1>4, <2>2, <3>1 DEF Bound, Creating, Inserted
    <3> QED BY <2>2, <3>2
  <2>3. CASE ~ (q = p /\ ChannelOf[p] = Site /\ ChatsOf(p) = {})
    <3>1. h \notin Bound(q)'
      BY <1>1, <1>2, <1>4, <2>3 DEF Bound, Creating, Inserted
    <3>2. Bound(q)' \subseteq Bound(q)
      BY <1>4, <3>1 DEF Bound, Creating, Inserted
    <3> QED BY <2>1, <3>2 DEF TalkInv, OneChatOrRequest
  <2> QED BY <2>2, <2>3
<1> QED BY <1>6, <1>7, <1>8 DEF TalkInv

\* The constraint lets one request of a messenger's user insert a chat, and none
\* when there is one.
LEMMA InsertChatInv == ASSUME TalkInv, NEW h \in Handlers, InsertChat(h) PROVE TalkInv'
<1>0. PICK p : p = handler[h].who
  OBVIOUS
<1>1. /\ handler[h] \in Storing /\ handler[h].pc = "found" /\ handler[h].chat = 0 /\ p \in People
      /\ UNCHANGED <<chats, messages, overlapped>>
  BY <1>0, HandlerKinds DEF InsertChat, Storing
<1>2. \A q \in People : ChatsOf(q)' = ChatsOf(q) /\ ChatsOf(q) \subseteq Nat \ {0}
  BY <1>1 DEF ChatsOf, TalkInv, TalkTypeOK
<1>3. CASE ChannelOf[p] # Site /\ ChatsOf(p) # {}
  <2>1. PICK chat \in ChatsOf(p) : Resume(h, [handler[h] EXCEPT !.chat = chat])
    BY <1>0, <1>3 DEF InsertChat
  <2> DEFINE r == [handler[h] EXCEPT !.chat = chat]
  <2>2. r \in Storing /\ r.pc = "found" /\ r.who = p /\ r.chat = chat /\ chat # 0
    BY <1>0, <1>1, <1>2, <2>1 DEF Storing
  <2>3. /\ handler' \in [Handlers -> {NoHandler} \cup Storing \cup Delivering]
        /\ handler'[h] = r
        /\ \A g \in Handlers \ {h} : handler'[g] = handler[g]
    BY <2>1, <2>2, ResumeDoes
  <2> HIDE DEF r
  <2>4. TalkTypeOK'
    BY <1>1, <2>3 DEF TalkInv, TalkTypeOK
  <2>5. OwnChats'
    BY <1>1, <2>1, <2>2, <2>3 DEF TalkInv, OwnChats, ChatsOf
  <2>6. \A q \in People : Bound(q)' \subseteq Bound(q)
    BY <2>2, <2>3 DEF Bound, Creating, Inserted
  <2>7. OneChatOrRequest'
    BY <1>1, <1>2, <2>6 DEF TalkInv, OneChatOrRequest, Unordered
  <2> QED BY <2>4, <2>5, <2>7 DEF TalkInv
<1>4. CASE ~ (ChannelOf[p] # Site /\ ChatsOf(p) # {})
  <2> DEFINE r == [handler[h] EXCEPT !.pc = "inserted"]
  <2>1. Resume(h, r)
    BY <1>0, <1>4 DEF InsertChat
  <2>2. r \in Storing /\ r.pc = "inserted" /\ r.who = p /\ r.chat = 0
    BY <1>0, <1>1 DEF Storing
  <2>3. /\ handler' \in [Handlers -> {NoHandler} \cup Storing \cup Delivering]
        /\ handler'[h] = r
        /\ \A g \in Handlers \ {h} : handler'[g] = handler[g]
    BY <2>1, <2>2, ResumeDoes
  <2> HIDE DEF r
  <2>4. TalkTypeOK'
    BY <1>1, <2>3 DEF TalkInv, TalkTypeOK
  <2>5. OwnChats'
    BY <1>1, <2>2, <2>3 DEF TalkInv, OwnChats, ChatsOf
  <2>6. ASSUME NEW q \in People, ~ Unordered(q)
        PROVE  /\ \A f, g \in Bound(q)' : f = g
               /\ ChatsOf(q) = {} \/ Bound(q)' = {}
    <3>1. CASE q = p /\ ChannelOf[p] # Site
      <4>1. Inserted(p) = {}
        BY <1>0, <3>1 DEF InsertChat
      <4>2. Bound(p)' \subseteq {h}
        BY <2>3, <3>1, <4>1 DEF Bound, Inserted
      <4> QED BY <1>4, <3>1, <4>2
    <3>2. CASE q # p \/ ChannelOf[p] = Site
      <4>1. Bound(q)' \subseteq Bound(q)
        BY <1>0, <1>1, <2>2, <2>3, <3>2 DEF Bound, Creating, Inserted
      <4> QED BY <2>6, <4>1 DEF TalkInv, OneChatOrRequest
    <3> QED BY <3>1, <3>2
  <2>7. OneChatOrRequest'
    BY <1>1, <1>2, <2>6 DEF TalkInv, OneChatOrRequest, Unordered
  <2> QED BY <2>4, <2>5, <2>7 DEF TalkInv
<1> QED BY <1>3, <1>4

\* A request that ends creates no chat any more.
LEMMA FreeHandler ==
  ASSUME TalkInv, NEW h \in Handlers, Resume(h, NoHandler)
  PROVE  /\ handler' \in [Handlers -> {NoHandler} \cup Storing \cup Delivering]
         /\ handler'[h].pc = "none"
         /\ \A g \in Handlers \ {h} : handler'[g] = handler[g]
         /\ \A q \in People : Bound(q)' = Bound(q) \ {h}
<1>1. /\ handler' \in [Handlers -> {NoHandler} \cup Storing \cup Delivering]
      /\ handler'[h].pc = "none"
      /\ \A g \in Handlers \ {h} : handler'[g] = handler[g]
  BY ResumeDoes, HandlerKinds
<1> QED BY <1>1 DEF Bound, Creating, Inserted

\* The message is stored in a chat of its author, the one there is or the one
\* that its request alone was to create.
LEMMA StoreMessageInv == ASSUME TalkInv, NEW h \in Handlers, StoreMessage(h) PROVE TalkInv'
<1>0. PICK p : p = handler[h].who
  OBVIOUS
<1> DEFINE new == handler[h].pc = "inserted"
           chat == IF new THEN Len(chats) + 1 ELSE handler[h].chat
           m == [chat |-> chat, who |-> p, direction |-> "in", is_read |-> FALSE]
<1>1. /\ handler[h] \in Storing /\ p \in People
      /\ new \/ (handler[h].pc = "found" /\ handler[h].chat # 0)
      /\ chats \in Seq(People) /\ messages \in Seq(Message) /\ Len(chats) \in Nat
  <2>1. handler[h] \in Storing /\ (new \/ (handler[h].pc = "found" /\ handler[h].chat # 0))
    BY HandlerKinds DEF StoreMessage
  <2>2. p \in People
    BY <1>0, <2>1 DEF Storing
  <2>3. chats \in Seq(People) /\ messages \in Seq(Message)
    BY DEF TalkInv, TalkTypeOK
  <2> QED BY <2>1, <2>2, <2>3
<1>2. /\ chats' = IF new THEN Append(chats, p) ELSE chats
      /\ messages' = Append(messages, m) /\ Resume(h, NoHandler) /\ UNCHANGED overlapped
  BY <1>0 DEF StoreMessage
<1>3. m \in Message /\ m.who = p /\ m.chat = chat
  BY <1>1 DEF Message, Storing
<1>4. /\ handler' \in [Handlers -> {NoHandler} \cup Storing \cup Delivering]
      /\ handler'[h].pc = "none"
      /\ \A g \in Handlers \ {h} : handler'[g] = handler[g]
      /\ \A q \in People : Bound(q)' = Bound(q) \ {h}
  BY <1>2, FreeHandler
<1>5. ASSUME NEW q \in People
      PROVE  ChatsOf(q)' = IF new /\ q = p THEN ChatsOf(q) \cup {Len(chats) + 1} ELSE ChatsOf(q)
  BY <1>1, <1>2 DEF ChatsOf
<1> HIDE DEF m
<1>6. TalkTypeOK'
  BY <1>1, <1>2, <1>3, <1>4 DEF TalkTypeOK
<1>7. OwnChats'
  <2>1. \A q \in People : ChatsOf(q) \subseteq ChatsOf(q)'
    BY <1>5
  <2>2. chat \in ChatsOf(p)'
    <3>1. CASE new
      BY <1>1, <1>5, <3>1
    <3>2. CASE ~ new
      BY <1>0, <1>1, <1>5, <3>2 DEF TalkInv, OwnChats
    <3> QED BY <3>1, <3>2
  <2>3. \A k \in DOMAIN messages : messages[k].who \in People
    <3>1. \A k \in DOMAIN messages : messages[k] \in Message
      BY <1>1
    <3> QED BY <3>1 DEF Message
  <2>4. /\ \A k \in DOMAIN messages : messages'[k] = messages[k]
        /\ \A k \in DOMAIN messages' : k \in DOMAIN messages \/ messages'[k] = m
    BY <1>1, <1>2
  <2>5. \A k \in DOMAIN messages' : messages'[k].chat \in {i \in DOMAIN chats' : chats'[i] = messages'[k].who}
    <3>1. ASSUME NEW k \in DOMAIN messages, k \in DOMAIN messages'
          PROVE  messages'[k].chat \in {i \in DOMAIN chats' : chats'[i] = messages'[k].who}
      <4>1. PICK q \in People : q = messages[k].who
        BY <2>3
      <4>2. messages[k].chat \in ChatsOf(q)
        BY <4>1 DEF TalkInv, OwnChats
      <4>3. messages[k].chat \in ChatsOf(q)'
        BY <2>1, <4>2
      <4> QED BY <2>4, <4>1, <4>3 DEF ChatsOf
    <3>2. ASSUME NEW k, messages'[k] = m
          PROVE  messages'[k].chat \in {i \in DOMAIN chats' : chats'[i] = messages'[k].who}
      BY <1>3, <2>2, <3>2 DEF ChatsOf
    <3> QED BY <2>4, <3>1, <3>2
  <2>6. \A g \in Handlers : handler'[g].pc = "found" /\ handler'[g].chat # 0 =>
          handler'[g].chat \in {i \in DOMAIN chats' : chats'[i] = handler'[g].who}
    <3> SUFFICES ASSUME NEW g \in Handlers, g # h, handler[g].pc = "found", handler[g].chat # 0
                 PROVE  handler[g].chat \in {i \in DOMAIN chats' : chats'[i] = handler[g].who}
      BY <1>4
    <3>1. PICK q \in People : q = handler[g].who
      BY HandlerKinds DEF Storing
    <3>2. handler[g].chat \in ChatsOf(q)'
      BY <2>1, <3>1 DEF TalkInv, OwnChats
    <3> QED BY <3>1, <3>2 DEF ChatsOf
  <2> QED BY <2>5, <2>6 DEF OwnChats, ChatsOf
<1>8. OneChatOrRequest'
  <2> SUFFICES ASSUME NEW q \in People, ~ Unordered(q)
               PROVE  /\ \A i, j \in ChatsOf(q)' : i = j
                      /\ \A f, g \in Bound(q)' : f = g
                      /\ ChatsOf(q)' = {} \/ Bound(q)' = {}
    BY <1>2 DEF OneChatOrRequest, Unordered
  <2>1. CASE new /\ q = p
    <3>1. h \in Bound(q)
      BY <1>0, <2>1 DEF Bound, Inserted
    <3>2. ChatsOf(q) = {} /\ Bound(q) = {h}
      BY <3>1 DEF TalkInv, OneChatOrRequest
    <3> QED BY <1>4, <1>5, <2>1, <3>2
  <2>2. CASE ~ (new /\ q = p)
    BY <1>4, <1>5, <2>2 DEF TalkInv, OneChatOrRequest
  <2> QED BY <2>1, <2>2
<1> QED BY <1>6, <1>7, <1>8 DEF TalkInv

\* A request that ends without a message, and a reply that was sent.
LEMMA LoseMessageInv == ASSUME TalkInv, NEW h \in Handlers, LoseMessage(h) \/ DeliverOutgoing(h) PROVE TalkInv'
<1>1. Resume(h, NoHandler) /\ UNCHANGED <<chats, messages, overlapped>>
  BY DEF LoseMessage, DeliverOutgoing
<1>2. /\ handler' \in [Handlers -> {NoHandler} \cup Storing \cup Delivering]
      /\ handler'[h].pc = "none"
      /\ \A g \in Handlers \ {h} : handler'[g] = handler[g]
      /\ \A q \in People : Bound(q)' = Bound(q) \ {h}
  BY <1>1, FreeHandler
<1>3. TalkTypeOK' /\ OwnChats'
  BY <1>1, <1>2 DEF TalkInv, TalkTypeOK, OwnChats, ChatsOf
<1>4. \A q \in People : ChatsOf(q)' = ChatsOf(q)
  BY <1>1 DEF ChatsOf
<1>5. OneChatOrRequest'
  BY <1>1, <1>2, <1>4 DEF TalkInv, OneChatOrRequest, Unordered
<1> QED BY <1>3, <1>5 DEF TalkInv

\* The operator's reply is stored in the chat it answers.
LEMMA SendMessageInv ==
  ASSUME TalkInv, NEW h \in Handlers, NEW chat \in DOMAIN chats, SendMessage(h, chat)
  PROVE  TalkInv'
<1> DEFINE m == [chat |-> chat, who |-> chats[chat], direction |-> "out", is_read |-> FALSE]
           r == IF ChannelOf[chats[chat]] = Site THEN NoHandler
                ELSE [pc |-> "deliver", message |-> Len(messages) + 1]
<1>1. /\ chats \in Seq(People) /\ messages \in Seq(Message) /\ Len(messages) \in Nat
      /\ chat \in Nat /\ chats[chat] \in People /\ handler[h].pc = "none"
      /\ messages' = Append(messages, m) /\ Resume(h, r) /\ UNCHANGED <<chats, overlapped>>
  BY DEF SendMessage, Idle, TalkInv, TalkTypeOK
<1>2. m \in Message /\ m.who = chats[chat] /\ m.chat = chat
  BY <1>1 DEF Message
<1>3. r \in {NoHandler} \cup Delivering /\ r.pc \in {"none", "deliver"}
  BY <1>1 DEF Delivering, NoHandler
<1> HIDE DEF m, r
<1>4. /\ handler' \in [Handlers -> {NoHandler} \cup Storing \cup Delivering]
      /\ handler'[h] = r
      /\ \A g \in Handlers \ {h} : handler'[g] = handler[g]
  BY <1>1, <1>3, ResumeDoes
<1>5. TalkTypeOK'
  BY <1>1, <1>2, <1>4 DEF TalkInv, TalkTypeOK
<1>6. OwnChats'
  <2>1. /\ \A k \in DOMAIN messages : messages'[k] = messages[k]
        /\ \A k \in DOMAIN messages' : k \in DOMAIN messages \/ messages'[k] = m
    BY <1>1
  <2>2. chat \in ChatsOf(chats[chat])
    BY DEF ChatsOf
  <2> QED BY <1>1, <1>2, <1>3, <1>4, <2>1, <2>2 DEF TalkInv, OwnChats, ChatsOf
<1>7. \A q \in People : Bound(q)' = Bound(q) /\ ChatsOf(q)' = ChatsOf(q)
  BY <1>1, <1>3, <1>4 DEF Bound, Creating, Inserted, ChatsOf
<1>8. OneChatOrRequest'
  BY <1>1, <1>7 DEF TalkInv, OneChatOrRequest, Unordered
<1> QED BY <1>5, <1>6, <1>8 DEF TalkInv

\* Reading a chat only marks its messages.
LEMMA ReadChatInv == ASSUME TalkInv, NEW chat, NEW direction, ReadChat(chat, direction) PROVE TalkInv'
<1>1. UNCHANGED <<chats, handler, overlapped>>
  BY DEF ReadChat
<1>2. messages \in Seq(Message) /\ DOMAIN messages' = DOMAIN messages
  BY DEF ReadChat, TalkInv, TalkTypeOK
<1>3. ASSUME NEW k \in DOMAIN messages
      PROVE  messages'[k] \in Message /\ messages'[k].chat = messages[k].chat /\ messages'[k].who = messages[k].who
  <2>1. messages[k] \in Message
    BY <1>2, <1>3
  <2> QED BY <1>3, <2>1 DEF ReadChat, Message
<1>4. messages' \in Seq(Message)
  <2>1. DOMAIN messages = 1 .. Len(messages) /\ Len(messages) \in Nat
    BY <1>2
  <2>2. messages' = [k \in DOMAIN messages |-> messages'[k]]
    BY DEF ReadChat
  <2>3. messages' \in [1 .. Len(messages) -> Message]
    BY <1>3, <2>1, <2>2
  <2> QED BY <2>1, <2>3
<1>5. TalkTypeOK' /\ OwnChats'
  BY <1>1, <1>2, <1>3, <1>4 DEF TalkInv, TalkTypeOK, OwnChats, ChatsOf
<1>6. \A q \in People : Bound(q)' = Bound(q) /\ ChatsOf(q)' = ChatsOf(q)
  BY <1>1 DEF Bound, Creating, Inserted, ChatsOf
<1>7. OneChatOrRequest'
  BY <1>1, <1>6 DEF TalkInv, OneChatOrRequest, Unordered
<1> QED BY <1>5, <1>7 DEF TalkInv

\* The steps of the bots: at most the requests under way are lost.
LEMMA BotsStepInv == ASSUME TalkInv, Bots \/ UNCHANGED chatVars PROVE TalkInv'
<1>1. UNCHANGED <<chats, messages, overlapped>>
  BY DEF Bots, chatVars, talk
<1>2. /\ handler' \in [Handlers -> {NoHandler} \cup Storing \cup Delivering]
      /\ \A h \in Handlers : handler'[h] = handler[h] \/ handler'[h].pc = "none"
  BY DEF Bots, chatVars, talk, NoHandler, TalkInv, TalkTypeOK
<1>3. TalkTypeOK' /\ OwnChats'
  BY <1>1, <1>2 DEF TalkInv, TalkTypeOK, OwnChats, ChatsOf
<1>4. \A q \in People : Bound(q)' \subseteq Bound(q) /\ ChatsOf(q)' = ChatsOf(q)
  BY <1>1, <1>2 DEF Bound, Creating, Inserted, ChatsOf
<1>5. OneChatOrRequest'
  BY <1>1, <1>4 DEF TalkInv, OneChatOrRequest, Unordered
<1> QED BY <1>3, <1>5 DEF TalkInv

\* Every step keeps the invariant of the chats.
LEMMA TalkNextInv == ASSUME TalkInv, [ChatNext]_chatVars PROVE TalkInv'
  BY FindChatInv, InsertChatInv, StoreMessageInv, LoseMessageInv, SendMessageInv, ReadChatInv,
     BotsStepInv
     DEF ChatNext, Incoming, Inbox, ListCustomerMessages, GetMessages

\* The invariant of the chats gives ConversationsStayWhole.
LEMMA TalkSafe == TalkInv => ConversationsStayWhole
<1> SUFFICES ASSUME TalkInv PROVE ConversationsStayWhole
  OBVIOUS
<1>1. ASSUME NEW p \in People, ~ Unordered(p) PROVE ~ Cardinality(ChatsOf(p)) > 1
  <2>1. Cardinality(ChatsOf(p)) <= 1
    BY <1>1, OnlyOnce DEF TalkInv, OneChatOrRequest
  <2>2. IsFiniteSet(ChatsOf(p))
    <3>1. ChatsOf(p) \subseteq 1 .. Len(chats) /\ Len(chats) \in Nat
      BY DEF ChatsOf, TalkInv, TalkTypeOK
    <3>2. IsFiniteSet(1 .. Len(chats))
      BY <3>1, FS_Interval
    <3> QED BY <3>1, <3>2, FS_Subset
  <2> QED BY <2>1, <2>2, FS_CardinalityType
<1> QED BY <1>1 DEF ConversationsStayWhole, Unordered, TalkInv, OwnChats

-----------------------------------------------------------------------------
\* What holds in every reachable state.
MessengersInv == BotInv /\ TalkInv

\* The invariant holds in every reachable state.
LEMMA MessengersHold == ChatSpec => []MessengersInv
<1> USE BotAssumption, TalkAssumption
<1>1. ChatInit => MessengersInv
  BY BotInitInv, TalkInitInv DEF ChatInit, MessengersInv
<1>2. MessengersInv /\ [ChatNext]_chatVars => MessengersInv'
  <2> SUFFICES ASSUME MessengersInv, [ChatNext]_chatVars PROVE MessengersInv'
    OBVIOUS
  <2>1. TalkInv'
    BY TalkNextInv DEF MessengersInv
  <2>2. BotInv'
    <3>1. CASE Bots
      BY <3>1, BotNextInv DEF Bots, MessengersInv
    <3>2. CASE UNCHANGED bots
      BY <3>2, BotsKept DEF MessengersInv
    <3>3. Incoming \/ Inbox => UNCHANGED bots
      BY DEF Incoming, Inbox, FindChat, InsertChat, StoreMessage, LoseMessage, SendMessage,
         DeliverOutgoing,
         ListCustomerMessages, GetMessages, ReadChat
    <3> QED BY <3>1, <3>2, <3>3 DEF ChatNext, chatVars
  <2> QED BY <2>1, <2>2 DEF MessengersInv
<1> QED BY <1>1, <1>2, PTL DEF ChatSpec

\* However forms, starts, failures and pauses interleave, once no form of a
\* channel is under way its bot is the one registered, alone, and the one that
\* the configuration wants, but for the cases the property names.
THEOREM BotsMatchConfig == ChatSpec => []RunningMatchesConfig
<1>1. MessengersInv => RunningMatchesConfig
  BY BotsSafe DEF MessengersInv
<1> QED BY <1>1, MessengersHold, PTL

\* Whatever messages arrive at once, through whichever adapter, all that a
\* person has written is in one chat, but for customers that overlapped.
THEOREM ChatsStayWhole == ChatSpec => []ConversationsStayWhole
<1>1. MessengersInv => ConversationsStayWhole
  BY TalkSafe DEF MessengersInv
<1> QED BY <1>1, MessengersHold, PTL

=============================================================================
