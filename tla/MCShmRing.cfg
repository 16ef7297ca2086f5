\* Four slots and seven items, so that three slots are used a second time.
SPECIFICATION FairSpec
CONSTANTS
  SLOTS = 4
  ITEMS = 7
  Free = Free
  Zeros = Zeros
INVARIANTS
  ItemsInOrder
  RingInv
PROPERTIES
  BothEnd
\* The processes end.
CHECK_DEADLOCK FALSE
