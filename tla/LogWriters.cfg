SPECIFICATION FairSpec
CONSTANTS
  k1 = k1
  k2 = k2
  a = a
  b = b
  w1 = w1
  w2 = w2
  Key = {k1, k2}
  Value = {a, b}
  Absent = Absent
  Untouched = Untouched
  Writer = {w1, w2}
  Request <- MCRequest
  Instance = {i1}
  Slot = {s1, s2}
  POLL_BATCH = 2
  MaxId = 3
INVARIANTS LogReplays OnlyLateIsSkipped
PROPERTIES PollersCatchUp
