SPECIFICATION FairSpec

CONSTANTS
  o = o
  a = a
  b = b
  c = c
  Origin = o
  Node = {o, a}
  Links = {}
  LateLinks <- Pair
  Failing = {}
  AckTimeout = FALSE
  AntiEntropy = TRUE
  Stopping = {}
  Lossy = {}
  MaxSeq = 3
  MaxGrafts = 1
  MaxLost = 0
  SlowTimers = TRUE
  PromptSnapshots = TRUE

PROPERTIES
  CatchUp

CHECK_DEADLOCK FALSE
