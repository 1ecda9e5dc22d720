\* Two attempts and one event that answers nothing.
SPECIFICATION FairSpec
CONSTANTS
  Tries = 2
  MaxStray = 1
INVARIANTS
  TypeOK
  ConnectedMeansEstablished
  ReadyToReceive
  NothingLeft
  FaultOnlyAfterInitFails
  ReadyListIntact
PROPERTIES
  RequestPicked
  WaitsEnd
\* The client ends, and the server ends in an oops.
CHECK_DEADLOCK FALSE
