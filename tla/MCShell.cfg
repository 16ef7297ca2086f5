\* Three process numbers, room for two of them in the table.
SPECIFICATION FairShellSpec
CONSTANTS
  Pids = {1, 2, 3}
  BG_CHUNK = 2
  Lines <- SomeLines
INVARIANTS
  TableInv
PROPERTIES
  ExitKillsAll
  FinishedReaped
\* The shell may stop.
CHECK_DEADLOCK FALSE
