SPECIFICATION Spec
CONSTANTS
  Tries = 1
  MaxStray = 0
INVARIANT AcceptMeansConnected
\* The client ends, and the server ends in an oops.
CHECK_DEADLOCK FALSE
