\* Polling does not look at agent_enabled.
CONSTANTS
  MaxMessage = 2
  Chats = {chat}
  ChatOf <- MCChatOf
  Poll = Poll
  MaxInboxFaults = 2

SPECIFICATION InboxSpec

INVARIANT ManualStaysManual
