SPECIFICATION XFairSpec
CONSTANTS
  Senders = {client}
  Receivers = {server}
  NoThread = NoThread
  Full = 3
  Sizes = {2}
  SockBuf = 3
  MaxMsgs = 1
PROPERTY ExchangeEnds
\* Both ends return, or are stopped by an oops.
CHECK_DEADLOCK FALSE
