\* Two senders and two receivers contend for the two mutexes; three messages go
\* through two receive slots, so that a slot is reposted and reused.
SPECIFICATION Spec
CONSTANTS
  Senders = {s1, s2}
  Receivers = {r1, r2}
  NoThread = NoThread
  SendDepth = 1
  RecvDepth = 2
  MaxRetry = 1
  MaxMsgs = 3
SYMMETRY Symmetry
INVARIANTS
  TypeOK
  RecvSlotOwned
  InOrder
  RecvCredit
  AckedArrived
  BugOnlyAfterError
PROPERTIES
  SendBufStable
  ImplementsChannel
