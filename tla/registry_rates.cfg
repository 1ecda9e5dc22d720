\* Two threads of one program access one page.
SPECIFICATION Spec
CONSTANTS
  Comms = {a}
  Pids = {t1, t2}
  Pages = {g1}
  Proc = {p1}
  hash_32 <- NoCollision
  NTHREADS = 2
  NULL = NULL
\* An oops ends the run.
CHECK_DEADLOCK FALSE
INVARIANT SharingRecorded
