\* One or two masters and one or two workers: what holds in spite of the overruns.
SPECIFICATION FairSpec
CONSTANTS
  m1 = m1
  m2 = m2
  w1 = w1
  w2 = w2
  Junk = Junk
  Masters = {m1, m2}
  Workers = {w1, w2}
  total_items = 4
  max_buf_size = 2
INVARIANTS
  TypeOK
  OverrunBounded
  ItemsInOrder
  NoStall
PROPERTIES
  AllItemsConsumed
  OneWorkerTerminates
\* Workers may sleep for ever once the last item is consumed.
CHECK_DEADLOCK FALSE
