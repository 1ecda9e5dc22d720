\* Every message fills a page.
SPECIFICATION FairSpec
CONSTANTS
  Senders = {s1, s2}
  Receivers = {r1, r2}
  NoThread = NoThread
  Full = 3
  Sizes = {3}
  SockBuf = 3
  MaxMsgs = 3
INVARIANTS
  OopsOnlyAtEnd
PROPERTIES
  ImplementsChannel
  MessagesArrive
  SendReturns
\* A receiver that reads the end of the stream oopses with rlock held.
CHECK_DEADLOCK FALSE
