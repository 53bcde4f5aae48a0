SPECIFICATION FairSpec
CONSTANTS
  Worker = {w1, w2}
  Instance = {i1}
  MAX_ATTEMPTS = 2
  CLAIM_BATCH = 2
  MAX_ROUNDS = 4
  MaxOps = 2
  MaxFaults = 1
  SlowWorkers = FALSE
INVARIANT ExclusiveClaim
PROPERTIES OpsSettle ConvergesUnlessFailed
