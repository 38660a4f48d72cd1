\* Two messages of a chat, webhook against polling, two failures.
CONSTANTS
  MaxMessage = 2
  Chats = {chat}
  ChatOf <- MCChatOf
  Poll = Poll
  MaxInboxFaults = 2

SPECIFICATION InboxFairSpec

INVARIANTS
  AnsweredOnce
  ReadMeansHandled

PROPERTY EveryMessageHandled
