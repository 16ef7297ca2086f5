\* Four threads, each going down and up on two semaphores in any order.
SPECIFICATION Spec
CONSTANTS
  t1 = t1
  t2 = t2
  t3 = t3
  t4 = t4
  open = open
  closed = closed
  Threads = {t1, t2, t3, t4}
  Zems = {open, closed}
  InitialValue <- OneOpen
  MaxAccesses = 2
SYMMETRY SymmetricThreads
INVARIANTS
  TypeOK
  NoLostPermit
PROPERTY
  ImplementsSemaphore
CHECK_DEADLOCK FALSE
