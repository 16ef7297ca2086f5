\* Two clients, two keys and the key of deleted slots, two slots.
SPECIFICATION FairSpec
CONSTANTS
  alice = alice
  bob = bob
  Clients = {alice, bob}
  Keys <- SomeKeys
  Requests <- SomeLines
  x = x
  y = y
  Values = {x, y}
  MAX_KEYS = 2
  Chunks = {1, 2, 3}
  NoValue = NoValue
  Junk = Junk
  None = None
INVARIANTS
  StoreInv
PROPERTIES
  ImplementsKVStore
  RequestAnswered
\* The server may stop.
CHECK_DEADLOCK FALSE
