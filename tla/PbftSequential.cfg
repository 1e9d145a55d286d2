SPECIFICATION Spec

CONSTANTS
  a = a
  b = b
  m1 = m1
  m2 = m2
  NoName = NoName
  NoMh = NoMh
  Name = {a, b}
  Mh = {m1, m2}
  N = 3
  Calls <- Sequential
  Concurrent = FALSE
  Faulty = {}
  CheckpointInterval = 100
  MaxSlot = 7
  MaxSends = 2
  SlowRetry = TRUE

INVARIANTS
  TypeOK
  IInv
  MutexNeverLeaked
  Agreement
  SlotOrder
  NameIsUnique
PROPERTIES
  StateOnlyAdvances
  ImplementsDecisionLog

CHECK_DEADLOCK FALSE
