SPECIFICATION FairSpec

CONSTANTS
  a = a
  b = b
  m1 = m1
  m2 = m2
  NoName = NoName
  NoMh = NoMh
  Name = {a}
  Mh = {m1}
  N = 3
  Calls <- OneTag
  Concurrent = FALSE
  Faulty = {}
  CheckpointInterval = 4
  MaxSlot = 4
  MaxSends = 4
  SlowRetry = TRUE

PROPERTIES
  TagReturns

CHECK_DEADLOCK FALSE
