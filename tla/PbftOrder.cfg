SPECIFICATION Spec

CONSTANTS
  a = a
  b = b
  m1 = m1
  m2 = m2
  NoName = NoName
  NoMh = NoMh
  Name = {a, b}
  Mh = {m1}
  N = 3
  Calls <- OnePeerTwice
  Concurrent = FALSE
  Faulty = {}
  CheckpointInterval = 100
  MaxSlot = 7
  MaxSends = 2
  SlowRetry = TRUE

INVARIANTS
  SameOrder

CHECK_DEADLOCK FALSE
