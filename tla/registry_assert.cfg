SPECIFICATION Spec
CONSTANTS
  Comms = {a, b}
  Pids = {t1, t2, t3}
  Pages = {g1}
  Proc = {p1, p2}
  hash_32 <- NoCollision
  NTHREADS = 3
  NULL = NULL
\* An oops ends the run.
CHECK_DEADLOCK FALSE
PROPERTY AssertionsHold
