----------------------------- MODULE MCAgentTurn -----------------------------
(***************************************************************************)
(* The desk of the administrators and the turns of the agent for TLC.      *)
(***************************************************************************)
EXTENDS AgentTurn, TLC

Alike == Permutations(Admins) \cup Permutations(Messages)

\* A bound of the model: the core starts and stops, and what the agent does
\* not read is edited, before the first message.
NoTurnOf(m) == turn[m] = NoTurn /\ done[m] = 0 /\ told[m] = "none"
NoTurns == faults = 0 /\ \A m \in Messages : NoTurnOf(m)
NoEdits ==
  /\ Up /\ prompts = [p \in DefaultPrompts |-> New] /\ tools = [t \in DefaultTools |-> TRUE]
  /\ DOMAIN keys \subseteq {SeedKey} /\ tangled = {} /\ \A a \in Admins : forms[a] = NoForm

SpecTurns ==
  /\ Init
  /\ [][(NoTurns /\ (DeskNext \/ KeyTaken)) \/ (NoEdits /\ TurnNext)]_vars

\* A bound of the model: no state is looked beyond in which one message of the
\* model of language has made two write requests and both messages have begun.
MCOneByOne == (\E m \in Messages : asked[m] > 1) => \E m \in Messages : NoTurnOf(m)

=============================================================================
