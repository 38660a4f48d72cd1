----------------------------- MODULE AgentAdmin -----------------------------
(***************************************************************************)
(* What the administrators keep for the agent: prompts with their          *)
(* versions, the register of tools, the keys by which the agent signs its  *)
(* requests (app/services/agent_service.py, app/web/agent_admin.py), and   *)
(* the seed that fills them when the core starts                           *)
(* (app/services/seed_service.py).                                         *)
(*                                                                         *)
(* Texts, names and descriptions are left out, and so are expires_at,      *)
(* which nothing sets, and last_used_at, which nothing reads.              *)
(***************************************************************************)
EXTENDS Naturals, Sequences, FiniteSets

CONSTANTS
  DefaultPrompts,  \* the keys of DEFAULT_PROMPTS
  OtherPrompts,    \* keys that an administrator may invent
  DefaultTools,    \* the keys of DEFAULT_TOOLS
  Keys,            \* API keys that may be created
  SeedKey,         \* the one of AGENT_API_KEY
  Admins,          \* forms of administrators under way at a time
  MaxVersions      \* bound of the model: versions of a prompt

ASSUME AdminAssumption == SeedKey \in Keys /\ MaxVersions \in Nat

VARIABLES
  core,     \* "stopped", "seeding" or "up"
  prompts,  \* prompts there are: the number of the active version and the rows
  tools,    \* tools there are, and whether they are enabled
  keys,     \* keys there are, and whether they are enabled
  forms,    \* a form that adds a version: its prompt and the number it has read
  tangled   \* history: prompts whose versions were edited at the same time, or
            \* one of which was added while an older one was active

desk == <<core, prompts, tools, keys, forms, tangled>>

Prompts == DefaultPrompts \cup OtherPrompts
NoForm == [prompt |-> "none"]
Up == core = "up"

AdminInit ==
  /\ core = "stopped"
  /\ prompts = <<>> /\ tools = <<>> /\ keys = <<>>
  /\ forms = [a \in Admins |-> NoForm]
  /\ tangled = {}

With(f, k, v) == [x \in DOMAIN f \cup {k} |-> IF x = k THEN v ELSE f[x]]
RowsOf(p, version) == {i \in DOMAIN prompts[p].versions : prompts[p].versions[i] = version}

\* list_prompts of the API reads the active version of every prompt, and
\* fails for all of them if one has two rows of that number.
ListPrompts == \A p \in DOMAIN prompts : Cardinality(RowsOf(p, prompts[p].active)) <= 1

\* verify_key.
VerifyKey(k) == k \in DOMAIN keys /\ keys[k]

-----------------------------------------------------------------------------
\* lifespan: the seed runs before the core answers.
StartCore ==
  /\ core = "stopped"
  /\ core' = "seeding"
  /\ UNCHANGED <<prompts, tools, keys, forms, tangled>>

New == [active |-> 1, versions |-> <<1>>]

\* Each prompt that is missing is committed by itself.
SeedPrompt ==
  /\ core = "seeding"
  /\ \E p \in DefaultPrompts \ DOMAIN prompts : prompts' = With(prompts, p, New)
  /\ UNCHANGED <<core, tools, keys, forms, tangled>>

\* Then the tools; the tools that are there are left as they are.
SeedTools ==
  /\ core = "seeding" /\ DefaultPrompts \subseteq DOMAIN prompts
  /\ ~ DefaultTools \subseteq DOMAIN tools
  /\ tools' = [t \in DefaultTools |-> IF t \in DOMAIN tools THEN tools[t] ELSE TRUE]
  /\ UNCHANGED <<core, prompts, keys, forms, tangled>>

\* seed_agent_api_key: the key of AGENT_API_KEY, unless it is there, enabled or
\* not; one that was deleted comes back.
SeedApiKey ==
  /\ core = "seeding" /\ DefaultPrompts \subseteq DOMAIN prompts /\ DefaultTools \subseteq DOMAIN tools
  /\ keys' = IF SeedKey \in DOMAIN keys THEN keys ELSE With(keys, SeedKey, TRUE)
  /\ core' = "up"
  /\ UNCHANGED <<prompts, tools, forms, tangled>>

\* The core stops, in the middle of a seed or of a form.
StopCore ==
  /\ core # "stopped"
  /\ core' = "stopped"
  /\ forms' = [a \in Admins |-> NoForm]
  /\ UNCHANGED <<prompts, tools, keys, tangled>>

-----------------------------------------------------------------------------
\* agent_create_prompt; a key that is taken is refused by its unique index.
CreatePrompt(p) ==
  /\ Up /\ p \notin DOMAIN prompts
  /\ prompts' = With(prompts, p, New)
  /\ UNCHANGED <<core, tools, keys, forms, tangled>>

\* The form reads the prompt and its active version.
BeginVersion(a, p) ==
  /\ Up /\ forms[a] = NoForm /\ p \in DOMAIN prompts
  /\ Len(prompts[p].versions) + Cardinality({b \in Admins : forms[b].prompt = p}) < MaxVersions
  /\ forms' = [forms EXCEPT ![a] = [prompt |-> p, read |-> prompts[p].active]]
  /\ tangled' = IF \/ prompts[p].active # Len(prompts[p].versions)
                   \/ \E b \in Admins : forms[b].prompt = p
                THEN tangled \cup {p} ELSE tangled
  /\ UNCHANGED <<core, prompts, tools, keys>>

\* Mutant of AddPromptVersion: the version gets the number that was read.
AddPromptVersionAgain(a) ==
  /\ forms[a] # NoForm
  /\ LET p == forms[a].prompt
         row == forms[a].read
     IN prompts' = [prompts EXCEPT ![p] = [active |-> row, versions |-> Append(@.versions, row)]]
  /\ forms' = [forms EXCEPT ![a] = NoForm]
  /\ UNCHANGED <<core, tools, keys, tangled>>

\* add_prompt_version: the number follows the active version, not the last one,
\* and the new version is active.
AddPromptVersion(a) ==
  /\ forms[a] # NoForm
  /\ LET p == forms[a].prompt
         next == forms[a].read + 1
     IN prompts' = [prompts EXCEPT ![p] = [active |-> next, versions |-> Append(@.versions, next)]]
  /\ forms' = [forms EXCEPT ![a] = NoForm]
  /\ UNCHANGED <<core, tools, keys, tangled>>

\* activate_prompt_version: fails for a version that is not there, and for one
\* of which there are two rows.
ActivatePromptVersion(p, version) ==
  /\ Up /\ p \in DOMAIN prompts
  /\ Cardinality(RowsOf(p, version)) = 1
  /\ prompts' = [prompts EXCEPT ![p].active = version]
  /\ UNCHANGED <<core, tools, keys, forms, tangled>>

\* agent_update_tool.
UpdateTool(t, enabled) ==
  /\ Up /\ t \in DOMAIN tools
  /\ tools' = [tools EXCEPT ![t] = enabled]
  /\ UNCHANGED <<core, prompts, keys, forms, tangled>>

\* agent_create_key; the value of a key is new.
CreateKey(k) ==
  /\ Up /\ k \notin DOMAIN keys /\ k # SeedKey
  /\ keys' = With(keys, k, TRUE)
  /\ UNCHANGED <<core, prompts, tools, forms, tangled>>

\* agent_toggle_key.
ToggleKey(k) ==
  /\ Up /\ k \in DOMAIN keys
  /\ keys' = [keys EXCEPT ![k] = ~ @]
  /\ UNCHANGED <<core, prompts, tools, forms, tangled>>

\* agent_delete_key.
DeleteKey(k) ==
  /\ Up /\ k \in DOMAIN keys
  /\ keys' = [j \in DOMAIN keys \ {k} |-> keys[j]]
  /\ UNCHANGED <<core, prompts, tools, forms, tangled>>

SeedAll == StartCore \/ SeedPrompt \/ SeedTools \/ SeedApiKey \/ StopCore

PromptPages ==
  \/ \E p \in OtherPrompts : CreatePrompt(p)
  \/ \E a \in Admins : AddPromptVersion(a) \/ \E p \in Prompts : BeginVersion(a, p)
  \/ \E p \in Prompts, version \in 1 .. MaxVersions : ActivatePromptVersion(p, version)

ToolPages == \E t \in DefaultTools, enabled \in BOOLEAN : UpdateTool(t, enabled)
KeyPages(k) == CreateKey(k) \/ ToggleKey(k) \/ DeleteKey(k)

-----------------------------------------------------------------------------
\* A prompt has an active version, and one text for it: "активна ровно одна"
\* (docs/ai-agent.md:191), so that list_prompts can answer.  This takes
\* that nobody edits an older version or edits one together with another: the
\* number of a version follows the active one.  Whatever start was cut off in
\* the middle of its seed, the core answers only when nothing is missing.
PromptsReadable ==
  /\ \A p \in DOMAIN prompts : RowsOf(p, prompts[p].active) # {}
  /\ \A p \in DOMAIN prompts \ tangled :
       \A i, j \in DOMAIN prompts[p].versions : prompts[p].versions[i] = prompts[p].versions[j] => i = j
  /\ DOMAIN prompts \cap tangled = {} => ListPrompts
  /\ Up => DefaultPrompts \subseteq DOMAIN prompts /\ DefaultTools \subseteq DOMAIN tools

=============================================================================
