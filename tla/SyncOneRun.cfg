CONSTANTS
  t1 = t1
  t2 = t2
  t3 = t3
  r1 = r1
  r2 = r2
  Thread = {t1, t2, t3}
  Run = {r1}
  LostRun = LostRun
  Providers = {"google", "imap", "other"}
  PAGE_SIZE = 1
  DELTA_PAGE_SIZE = 2
  BACKFILL_PAGES_PER_CYCLE = 1
  MAX_DELTA_THREAD_FETCH = 3
  SYNC_WINDOW_THREADS = 2
  InitialMail <- MCInitialMail
  InitialHist = 2
  MaxHist = 4
  MaxValidity = 2
  MaxFaults = 2
  SlowRuns = FALSE
  HistoryExpires = FALSE
  ListSkips = TRUE
  Unlabelled = {}
SPECIFICATION FairSpec
PROPERTIES InboxArrives
