\* One lock, which the threads use any number of times.
SPECIFICATION FairSpec
CONSTANTS
  r1 = r1
  r2 = r2
  r3 = r3
  w1 = w1
  w2 = w2
  A = A
  B = B
  Readers = {r1, r2, r3}
  Writers = {w1, w2}
  Locks = {A}
  LockOf <- OneLock
INVARIANTS
  TypeOK
  CountInv
  NoLostWakeup
PROPERTIES
  ImplementsRWLock
  AllThreadsReturn
