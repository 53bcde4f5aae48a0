SPECIFICATION FairSpec
CONSTANTS
  MaxConn = 2
  Run = {r1}
  SchedulerId = {i1, i2, i3, i4}
  NoId = NoId
  MaxFaults = 1
  SlowLoops = FALSE
  Loops = FALSE
  Req = {q1, q2}
  Field = {f1, f2}
  Sig = {s1, s2}
  Mixes = {{"delete", "setDefault"}, {"link", "delete"}, {"save", "fault"},
           {"sign", "delete"}, {"delete", "cycle"}, {"delete", "fault"}}
  MaxReq = 2
INVARIANT DeletedStaysRemoved
PROPERTIES ShellConverges
