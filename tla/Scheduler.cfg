SPECIFICATION SchedFairSpec
CONSTANTS
  MaxConn = 1
  Run = {r1, r2, r3}
  SchedulerId = {i1, i2, i3, i4, i5}
  NoId = NoId
  MaxFaults = 2
  SlowLoops = FALSE
  Loops = TRUE
INVARIANT OneLoop
PROPERTIES LoopRecurs
CHECK_DEADLOCK FALSE
