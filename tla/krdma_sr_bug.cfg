SPECIFICATION Spec
CONSTANTS
  Senders = {s1, s2}
  Receivers = {r1}
  NoThread = NoThread
  SendDepth = 1
  RecvDepth = 2
  MaxRetry = 0
  MaxMsgs = 2
INVARIANT NeverBug
