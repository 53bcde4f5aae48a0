SPECIFICATION Spec
CHECK_DEADLOCK FALSE
CONSTANTS
  Nil = Nil
  MaxFaults = 1
INVARIANTS
  FreshIsTrue
  ResultsMatchQuery
  ClientAgrees
  ShownIsStored
  CachesAreOwn
  EngineHears
