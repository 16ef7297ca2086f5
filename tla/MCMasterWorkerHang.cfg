\* Two workers: one sleeps for ever after the last item.
SPECIFICATION FairSpec
CONSTANTS
  m1 = m1
  m2 = m2
  w1 = w1
  w2 = w2
  Junk = Junk
  Masters = {m1}
  Workers = {w1, w2}
  total_items = 2
  max_buf_size = 1
PROPERTY
  Termination
CHECK_DEADLOCK FALSE
