--------------------------- MODULE MCAgentInbox ---------------------------
(***************************************************************************)
(* AgentInbox for TLC: the messages of one chat.                           *)
(***************************************************************************)
EXTENDS AgentInbox

MCChatOf == [m \in InboxMessages |-> CHOOSE c \in Chats : TRUE]

=============================================================================
