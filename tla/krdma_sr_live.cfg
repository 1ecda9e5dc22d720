SPECIFICATION FairSpec
CONSTANTS
  Senders = {s1}
  Receivers = {r1, r2}
  NoThread = NoThread
  SendDepth = 1
  RecvDepth = 2
  MaxRetry = 1
  MaxMsgs = 3
PROPERTIES
  ReceiveReturns
  SendReturns
  MessagesArrive
