----------------------------- MODULE BotManager -----------------------------
(***************************************************************************)
(* The bots of the messengers: their configuration, the register of the    *)
(* adapters that run, and the form that saves the one and applies it to    *)
(* the other while the core runs (app/bots/service.py, telegram.py,        *)
(* max.py, admin_save_bots of app/web/admin.py).                           *)
(*                                                                         *)
(* An adapter is known by the order of its creation in a life of the core. *)
(* A form goes through the channels one by one; here each channel has its  *)
(* own forms.  Names of bots are left out.                                 *)
(***************************************************************************)
EXTENDS Naturals, Sequences, FiniteSets

CONSTANTS
  Channels,   \* BOT_CHANNELS
  Tokens,
  BadTokens,  \* those the libraries of the messengers refuse
  NoToken,
  Forms,      \* forms under way at a time
  MaxAdapters \* bound of the model: adapters of a channel that a life of the core creates

ASSUME BotAssumption == BadTokens \subseteq Tokens /\ NoToken \notin Tokens /\ MaxAdapters \in Nat \ {0}

VARIABLES
  up,        \* whether the core runs
  config,    \* the row of each channel
  adapters,  \* of each channel, those this life of the core has created: their
             \* token and what they do
  registered, \* _adapters and _tasks of bot_manager: an adapter, or 0
  form,
  raced,     \* history: channels two of whose forms overlapped since the core started
  unapplied  \* history: channels whose configuration a form saved and failed to apply

bots == <<up, config, adapters, registered, form, raced, unapplied>>

\* The row of a channel; before its first form there is none.
Absent == [exists |-> FALSE, enabled |-> FALSE, token |-> NoToken]
ClosedForm == [pc |-> "none"]

BotInit ==
  /\ up = FALSE
  /\ config = [c \in Channels |-> Absent]
  /\ adapters = [c \in Channels |-> <<>>]
  /\ registered = [c \in Channels |-> 0]
  /\ form = [f \in Channels \X Forms |-> ClosedForm]
  /\ raced = {}
  /\ unapplied = {}

Busy(c) == {f \in Channels \X Forms : f[1] = c /\ form[f] # ClosedForm}
\* Adapters that may still bring messages, and those of them nobody has cancelled.
Running(c) == {i \in DOMAIN adapters[c] : adapters[c][i].task # "done"}
Current(c) == {i \in Running(c) : adapters[c][i].task # "cancelled"}
Wanted(v) == v.enabled /\ v.token # NoToken

\* Mutant: the adapter started takes the register and leaves the old task running.
StartAdapterBeside(c, token) ==
  IF token \in BadTokens
  THEN UNCHANGED <<adapters, registered>>
  ELSE /\ Len(adapters[c]) < MaxAdapters
       /\ adapters' = [adapters EXCEPT ![c] = Append(@, [token |-> token, task |-> "polling"])]
       /\ registered' = [registered EXCEPT ![c] = Len(adapters[c]) + 1]

\* What task.cancel() leaves of an adapter: a pause ends at once; whether the
\* library's polling ends, and when, is the library's matter (CancelledEnds).
Cancelled(a) == [a EXCEPT !.task = IF @ = "pausing" THEN "done" ELSE "cancelled"]

\* create_adapter and BotManager.start: the new adapter takes the place of the
\* one registered, whose task is cancelled and not waited for, its adapter not
\* shut down.  A token the library refuses leaves everything as it is.
StartAdapter(c, token) ==
  IF token \in BadTokens
  THEN UNCHANGED <<adapters, registered>>
  ELSE /\ Len(adapters[c]) < MaxAdapters
       /\ adapters' = [adapters EXCEPT ![c] =
            Append([i \in DOMAIN @ |-> IF i = registered[c] THEN Cancelled(@[i]) ELSE @[i]],
                   [token |-> token, task |-> "polling"])]
       /\ registered' = [registered EXCEPT ![c] = Len(adapters[c]) + 1]

-----------------------------------------------------------------------------
\* get_config reads the row.
BeginSave(f, enabled, token) ==
  /\ up /\ form[f] = ClosedForm
  /\ raced' = IF Busy(f[1]) # {} THEN raced \cup {f[1]} ELSE raced
  /\ form' = [form EXCEPT ![f] = [pc |-> "read", had |-> config[f[1]], enabled |-> enabled, token |-> token]]
  /\ UNCHANGED <<up, config, adapters, registered, unapplied>>

\* upsert_config commits what the form changes in the row it has read; an
\* empty token leaves the one there is.
UpsertConfig(f) ==
  /\ form[f].pc = "read"
  /\ form[f].had.exists = config[f[1]].exists
  /\ LET had == form[f].had
         row == config[f[1]]
     IN config' = [config EXCEPT ![f[1]] =
          [exists |-> TRUE,
           enabled |-> IF form[f].enabled = had.enabled THEN row.enabled ELSE form[f].enabled,
           token |-> IF form[f].token \in {NoToken, had.token} THEN row.token ELSE form[f].token]]
  /\ form' = [form EXCEPT ![f].pc = "saved"]
  /\ UNCHANGED <<up, adapters, registered, raced, unapplied>>

\* The request fails: another form has created the row and the constraint
\* refuses a second one, or the database cannot be reached.  If that comes
\* after the commit, what is saved is not applied.
FormFails(f) ==
  /\ form[f].pc \in {"read", "saved"}
  /\ unapplied' = IF form[f].pc = "saved" THEN unapplied \cup {f[1]} ELSE unapplied
  /\ form' = [form EXCEPT ![f] = ClosedForm]
  /\ UNCHANGED <<up, config, adapters, registered, raced>>

\* It reads the row again, and the request goes on later.
RefreshConfig(f) ==
  /\ form[f].pc = "saved"
  /\ form' = [form EXCEPT ![f] = [pc |-> "apply", config |-> config[f[1]]]]
  /\ UNCHANGED <<up, config, adapters, registered, raced, unapplied>>

\* apply_bot_config starts the bot.
ApplyStart(f) ==
  /\ form[f].pc = "apply" /\ Wanted(form[f].config)
  /\ StartAdapter(f[1], form[f].config.token)
  /\ form' = [form EXCEPT ![f] = ClosedForm]
  /\ unapplied' = unapplied \ {f[1]}
  /\ UNCHANGED <<up, config, raced>>

\* Or stops it: BotManager.stop takes the adapter and its task out of the
\* register, then waits for them to end.
ApplyStop(f) ==
  /\ form[f].pc = "apply" /\ ~ Wanted(form[f].config)
  /\ registered' = [registered EXCEPT ![f[1]] = 0]
  /\ form' = [form EXCEPT ![f] = IF registered[f[1]] = 0 THEN ClosedForm
                                 ELSE [pc |-> "stopping", adapter |-> registered[f[1]]]]
  /\ unapplied' = unapplied \ {f[1]}
  /\ UNCHANGED <<up, config, adapters, raced>>

ShutDown(f) ==
  /\ form[f].pc = "stopping"
  /\ adapters' = [adapters EXCEPT ![f[1]][form[f].adapter].task = "done"]
  /\ form' = [form EXCEPT ![f] = ClosedForm]
  /\ UNCHANGED <<up, config, registered, raced, unapplied>>

-----------------------------------------------------------------------------
\* run: when the messenger cannot be reached the adapter pauses and polls again.
PollingBreaks(c, i) ==
  /\ i \in Running(c) /\ adapters[c][i].task = "polling"
  /\ adapters' = [adapters EXCEPT ![c][i].task = "pausing"]
  /\ UNCHANGED <<up, config, registered, form, raced, unapplied>>

PollingResumes(c, i) ==
  /\ i \in Running(c) /\ adapters[c][i].task = "pausing"
  /\ adapters' = [adapters EXCEPT ![c][i].task = "polling"]
  /\ UNCHANGED <<up, config, registered, form, raced, unapplied>>

\* The task cancelled ends, at some time or never.
CancelledEnds(c, i) ==
  /\ i \in Running(c) \ Current(c)
  /\ adapters' = [adapters EXCEPT ![c][i].task = "done"]
  /\ UNCHANGED <<up, config, registered, form, raced, unapplied>>

\* start_bots.
StartBots ==
  /\ ~ up /\ up' = TRUE
  /\ LET starts(c) == Wanted(config[c]) /\ config[c].token \notin BadTokens IN
     /\ adapters' = [c \in Channels |->
          IF starts(c) THEN <<[token |-> config[c].token, task |-> "polling"]>> ELSE <<>>]
     /\ registered' = [c \in Channels |-> IF starts(c) THEN 1 ELSE 0]
  /\ raced' = {} /\ unapplied' = {}
  /\ UNCHANGED <<config, form>>

\* stop_bots, or the process is killed.
StopBots ==
  /\ up /\ up' = FALSE
  /\ adapters' = [c \in Channels |-> <<>>]
  /\ registered' = [c \in Channels |-> 0]
  /\ form' = [f \in Channels \X Forms |-> ClosedForm]
  /\ UNCHANGED <<config, raced, unapplied>>

AdminSaveBots ==
  \E f \in Channels \X Forms :
     \/ \E enabled \in BOOLEAN, token \in Tokens \cup {NoToken} : BeginSave(f, enabled, token)
     \/ UpsertConfig(f) \/ FormFails(f) \/ RefreshConfig(f) \/ ApplyStart(f) \/ ApplyStop(f) \/ ShutDown(f)

Lifespan == StartBots \/ StopBots
Polling == \E c \in Channels, i \in 1 .. MaxAdapters : PollingBreaks(c, i) \/ PollingResumes(c, i) \/ CancelledEnds(c, i)

BotNext == AdminSaveBots \/ Lifespan \/ Polling

-----------------------------------------------------------------------------
\* Once no form is under way, the bot registered is the only one that nothing has
\* cancelled: no form stops a bot that another has started, none is left behind.
\* It runs if and only if the configuration says so, with the token it says,
\* unless forms overlapped, one failed after its commit, or the token is refused:
\* then the former bot runs on.  (A replaced bot may poll for a while beside it.)
RunningMatchesConfig ==
  \A c \in Channels : up /\ Busy(c) = {} =>
    /\ Current(c) = {registered[c]} \ {0}
    /\ c \notin raced \cup unapplied /\ config[c].token \notin BadTokens =>
         {adapters[c][i].token : i \in Current(c)} =
           (IF Wanted(config[c]) THEN {config[c].token} ELSE {})

=============================================================================
