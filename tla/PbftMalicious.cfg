SPECIFICATION Spec

CONSTANTS
  a = a
  b = b
  m1 = m1
  m2 = m2
  NoName = NoName
  NoMh = NoMh
  Name = {a}
  Mh = {m1}
  N = 4
  Calls <- TwoPeers
  Concurrent = FALSE
  Faulty = {4}
  CheckpointInterval = 100
  MaxSlot = 8
  MaxSends = 2
  SlowRetry = FALSE

INVARIANTS
  CommittedIsApplied
CONSTRAINT Scenario

CHECK_DEADLOCK FALSE
