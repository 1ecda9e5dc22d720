\* Four pids of two programs in slots of their own, one page.
SPECIFICATION Spec
CONSTANTS
  Comms = {a, b}
  Pids = {t1, t2, t3, t4}
  Pages = {g1}
  Proc = {p1, p2}
  hash_32 <- NoCollision
  NTHREADS = 3
  NULL = NULL
SYMMETRY Symmetry
\* An oops ends the run.
CHECK_DEADLOCK FALSE
INVARIANTS
  TypeOK
  CountMatches
  EntryOwner
  ReuseIsClean
  SharersDistinct
PROPERTY TidsDenseUntilExit
