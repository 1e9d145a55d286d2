SPECIFICATION Spec

CONSTANTS
  o = o
  a = a
  b = b
  c = c
  Origin = o
  Node = {o, a, b}
  Links <- Pair
  LateLinks <- Late
  Failing <- FailsAtA
  AckTimeout = TRUE
  AntiEntropy = TRUE
  Stopping = {a}
  Lossy = {"graft"}
  MaxSeq = 2
  MaxGrafts = 1
  MaxLost = 1
  SlowTimers = TRUE
  PromptSnapshots = TRUE

INVARIANTS
  TypeOK
  Backed
  GraftAnswerable
PROPERTIES
  AckMeansAccepted
  ImplementsRumorOrder

CHECK_DEADLOCK FALSE
