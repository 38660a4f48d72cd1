SPECIFICATION ChatSpec
CONSTANTS
  telegram = telegram
  site = site
  user = user
  customer = customer
  Channels = {telegram}
  Tokens = {t1, t2}
  BadTokens = {t2}
  NoToken = NoToken
  Forms = {f1, f2}
  MaxAdapters = 2
  Site = site
  People = {user, customer}
  ChannelOf <- MCChannelOf
  Handlers = {h1, h2}
  MaxMessages = 3
SYMMETRY MCSymmetry
CONSTRAINT MCApart
INVARIANTS
  RunningMatchesConfig
  ConversationsStayWhole
CHECK_DEADLOCK FALSE
