SPECIFICATION FairSpec

CONSTANTS
  o = o
  a = a
  b = b
  c = c
  Origin = o
  Node = {o, a, b}
  Links <- Triangle
  LateLinks = {}
  Failing = {}
  AckTimeout = TRUE
  AntiEntropy = FALSE
  Stopping = {}
  Lossy = {"rumor"}
  MaxSeq = 2
  MaxGrafts = 1
  MaxLost = 1
  SlowTimers = TRUE
  PromptSnapshots = TRUE

INVARIANTS
  NobodyForgotten
PROPERTIES
  Delivered

CHECK_DEADLOCK FALSE
