\* One reader and one writer, each on a lock of its own.
SPECIFICATION FairSpec
CONSTANTS
  r1 = r1
  r2 = r2
  r3 = r3
  w1 = w1
  w2 = w2
  A = A
  B = B
  Readers = {r1, r3}
  Writers = {w1}
  Locks = {A, B}
  LockOf <- TwoLocks
PROPERTY
  AllThreadsReturn
