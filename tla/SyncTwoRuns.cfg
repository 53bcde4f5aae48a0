CONSTANTS
  t1 = t1
  t2 = t2
  t3 = t3
  r1 = r1
  r2 = r2
  Thread = {t1, t2}
  Run = {r1, r2}
  LostRun = LostRun
  Providers = {"google", "imap"}
  PAGE_SIZE = 1
  DELTA_PAGE_SIZE = 1
  BACKFILL_PAGES_PER_CYCLE = 2
  MAX_DELTA_THREAD_FETCH = 1
  SYNC_WINDOW_THREADS = 1
  InitialMail <- MCInitialMail
  InitialHist = 2
  MaxHist = 3
  MaxValidity = 1
  MaxFaults = 1
  SlowRuns = FALSE
  HistoryExpires = TRUE
  ListSkips = TRUE
  Unlabelled = {t1}
SPECIFICATION FairSpec
INVARIANTS OneCycleAtATime RecordsMirrorCache NothingMissed
PROPERTIES ImplementsCycleLock BannerTellsTruth
