-------------------------- MODULE MCConversations --------------------------
(***************************************************************************)
(* One messenger and the shop, with one person writing in each.            *)
(***************************************************************************)
EXTENDS Conversations, TLC

CONSTANTS telegram, site, user, customer

MCChannelOf == [p \in {user, customer} |-> IF p = user THEN telegram ELSE site]

MCSymmetry == Permutations(Forms) \cup Permutations(Handlers)

\* Bound of the instance: no state is looked beyond in which a form is under
\* way after the first message, so forms and messages take turns.
MCApart == (\A f \in DOMAIN form : form[f] = ClosedForm) \/ (messages = <<>> /\ \A h \in Handlers : Idle(h))

=============================================================================
