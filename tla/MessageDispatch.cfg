\* Five handlers, a middleware, two deliveries or one that is special.
CONSTANTS
  None = None
  text1 = text1
  text2 = text2
  edit1 = edit1
  asked1 = asked1
  gone1 = gone1
  Handler <- MCHandler
  KindOf <- MCKindOf
  FilterOf <- MCFilterOf
  Middleware = {m1}
  Update <- MCUpdate
  Plain <- MCPlain
  Worker = {w1}
  Dispatcher = Dispatcher
  Bot = {8}
  ChatTypeOf <- MCChatTypeOf
  Text <- MCText
  Command = "start"
  Pattern = "hello"
  AChat = 1
  AUser = 7
  AThread = 1
  MaxCalls = 2
  MaxUpdates = 2
SPECIFICATION Spec
INVARIANTS
  TypeOK
  NoHandlerMissed
  VettedUnlessRaced
  MessagesTellTruth
\* Everything is registered and every update handled.
CHECK_DEADLOCK FALSE
