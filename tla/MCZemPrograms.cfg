\* zemaphore_exercise.c and test-zem.c as they are.
SPECIFICATION FairProgram
CONSTANTS
  Threads = {0, 1, 2}
  Zems = {"zero", "first", "second", "child", "parent"}
  InitialValue <- InitialZems
  MaxAccesses = 2
  NUM_ITER = 10
INVARIANTS
  PrintsInTurn
PROPERTY
  AllThreadsFinish
\* The programs end when every thread has returned.
CHECK_DEADLOCK FALSE
