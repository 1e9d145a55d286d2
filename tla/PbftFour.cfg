SPECIFICATION Spec

CONSTANTS
  a = a
  b = b
  m1 = m1
  m2 = m2
  NoName = NoName
  NoMh = NoMh
  Name = {a}
  Mh = {m1}
  N = 4
  Calls <- OneTag
  Concurrent = FALSE
  Faulty = {4}
  CheckpointInterval = 100
  MaxSlot = 7
  MaxSends = 1
  SlowRetry = FALSE

INVARIANTS
  CommitBackedByQuorum
  TagIsDurable
  NoDuplicateBlock
CONSTRAINT NoIdleSteps

CHECK_DEADLOCK FALSE
