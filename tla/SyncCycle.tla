----------------------------- MODULE SyncCycle -----------------------------
(***************************************************************************)
(* The mailbox synchroniser of server/workflows/sync-connection.ts, for    *)
(* one mail connection: runSyncCycle and the durable steps it calls.       *)
(* Several runs (scheduler loop, "refresh" button, reconciliation after a  *)
(* failed operation) may be started for the same connection; they meet in  *)
(* the sync_state row, whose syncLockedAt / lastRunId columns are the      *)
(* cycle lock, and in the two stores a cycle writes.                       *)
(*                                                                         *)
(* Every durable step is one action.  A step that writes may be executed   *)
(* again after its effect was committed (the workflow runtime runs steps   *)
(* at least once), a run may fail in any step, may die, and may outlive    *)
(* its lock when SlowRuns holds.  The provider's mailbox is an external    *)
(* environment that changes between any two steps.                         *)
(*                                                                         *)
(* The mailbox numbers its changes 1, 2, ...  A thread's content is its    *)
(* version, the number of its last change; dateOf[v] is the number of the  *)
(* last change up to v that brought mail, the key the provider lists by.   *)
(* 0 means "not there" for versions and null for page tokens.              *)
(*                                                                         *)
(* Two history variables record what the code leaves open, for properties  *)
(* to say what holds all the same: passed, the threads that a page went    *)
(* past while the cache was behind on them, until they are fetched; and    *)
(* crossed, that a cycle has begun on a state which was no longer the      *)
(* connection's, or beside a cycle that was still at work.                 *)
(***************************************************************************)
EXTENDS Integers, FiniteSets

CONSTANTS
  Thread,                  \* provider thread ids
  Run,                     \* identities of concurrent cycles
  LostRun,                 \* a runId whose claim never reached its run
  Providers,               \* kinds of provider: "google", "imap", "other"
  PAGE_SIZE, DELTA_PAGE_SIZE,
  BACKFILL_PAGES_PER_CYCLE,
  MAX_DELTA_THREAD_FETCH,
  SYNC_WINDOW_THREADS,
  InitialMail, InitialHist,  \* the mailbox when the connection is made
  MaxHist,                 \* bound: changes of the mailbox
  MaxValidity,             \* bound: UIDVALIDITY generations (imap)
  MaxFaults,               \* bound: failed steps, deaths, lost results
  SlowRuns,                \* may a live run keep its lock past STALE_LOCK_MS?
  HistoryExpires,          \* may history.list forget old numbers?
  ListSkips,               \* may driver.list leave out threads it cannot enrich?
  Unlabelled               \* threads that carry no label but INBOX

Hist == 0..MaxHist

\* sync_state.historyId: a Gmail history number, or uidValidity:uid for IMAP.
Cursor == [val : 0..MaxValidity, id : Hist]
NoCursor == [val |-> 0, id |-> 0]

ASSUME ConstantsAssumption ==
  /\ LostRun \notin Run
  /\ Providers \subseteq {"google", "imap", "other"}
  /\ IsFiniteSet(Thread)
  /\ PAGE_SIZE \in Nat \ {0} /\ DELTA_PAGE_SIZE \in Nat \ {0}
  /\ BACKFILL_PAGES_PER_CYCLE \in Nat \ {0}
  /\ MAX_DELTA_THREAD_FETCH \in Nat /\ SYNC_WINDOW_THREADS \in Nat
  /\ MaxHist \in Nat /\ MaxFaults \in Nat
  /\ MaxValidity \in Nat \ {0}
  /\ InitialHist \in Hist
  /\ InitialMail \in [Thread -> 0..InitialHist]
  /\ SlowRuns \in BOOLEAN
  /\ HistoryExpires \in BOOLEAN /\ ListSkips \in BOOLEAN
  /\ Unlabelled \subseteq Thread

VARIABLES
  provider,    \* connection.providerId; "other" is microsoft
  hist,        \* mailbox: number of its last change
  ver,         \* mailbox: version of each thread
  dateOf,      \* mailbox: date of each version
  inbox,       \* mailbox: the threads in the inbox
  floor,       \* mailbox: oldest number history.list still serves
  validity,    \* mailbox: UIDVALIDITY generation
  lock,        \* sync_state.syncLockedAt: "free", "fresh" or "stale"
  lastRunId,   \* sync_state.lastRunId
  lastError,   \* sync_state.lastError is set
  token,       \* sync_state.backfillPageToken
  complete,    \* sync_state.lastFullSyncAt is set
  cursor,      \* sync_state.historyId
  cache,       \* email_thread, email_message: version stored, 0 if no row
  rec,         \* sync_record of the ThreadPreview: version, 0 if none
  status,      \* sync_record of the ConnectionSyncStatus
  pc,          \* the step each run executes next
  loc,         \* local variables of each run's cycle
  faults,      \* faults so far
  passed,      \* history: threads that pages went past
  crossed      \* history: cycles have crossed

mailboxVars == <<provider, hist, ver, dateOf, inbox, floor, validity>>
lockVars == <<lock, lastRunId, lastError, crossed>>
progressVars == <<token, complete, cursor>>
storeVars == <<cache, rec, passed>>
vars == <<mailboxVars, lockVars, progressVars, storeVars, status, pc, loc, faults>>

Modes == {"backfill", "small", "bulk", "expired", "refresh", "imap"}

Steps == {"idle", "claim", "page", "delta", "get", "upsert", "evict", "reset",
          "persistCursor", "persistBackfill", "prune", "pruneDelete", "release",
          "status", "publish"}

\* The cycle body: after the claim and up to the lock's release.
Critical == Steps \ {"idle", "claim", "status", "publish"}

\* The try block, whose errors release the lock with an error.
Try == Critical \ {"prune", "pruneDelete", "release"}

NoThreads == [t \in Thread |-> 0]
NoStatus == [published |-> FALSE, complete |-> FALSE, error |-> FALSE]

\* The locals of runSyncCycle.  mode, seeded, token and latest start as what
\* loadSyncStateStep returned: read before the claim, used until the end.
NoLocals ==
  [mode    |-> "backfill",
   seeded  |-> FALSE,       \* state.historyId was set
   pages   |-> 0,           \* backfill pages fetched in this cycle
   token   |-> 0,           \* pageToken of the backfill loop
   next    |-> 0,           \* nextPageToken of the last page
   top     |-> NoCursor,    \* topHistoryId of the last page
   changed |-> {},          \* changedThreadIds
   threads |-> NoThreads,   \* the threads last fetched, by version
   gone    |-> {},          \* goneThreadIds; the rows pruneWindowStep has read
   latest  |-> NoCursor,    \* latestHistoryId
   error   |-> FALSE,       \* releaseSyncLockStep was given an error
   news    |-> NoStatus]    \* the status about to be published

Init ==
  /\ provider \in Providers
  /\ hist = InitialHist
  /\ ver = InitialMail
  /\ dateOf = [v \in Hist |-> v]
  /\ inbox = {t \in Thread : InitialMail[t] # 0}
  /\ floor = 0
  /\ validity = 1
  /\ lock = "free" /\ lastRunId = LostRun /\ lastError = FALSE
  /\ token = 0 /\ complete = FALSE /\ cursor = NoCursor
  /\ cache = NoThreads /\ rec = NoThreads
  /\ passed = {} /\ crossed = FALSE
  /\ status = NoStatus
  /\ pc = [r \in Run |-> "idle"]
  /\ loc = [r \in Run |-> NoLocals]
  /\ faults = 0

-----------------------------------------------------------------------------
(* The provider's mailbox (external) *)

Date(t) == dateOf[ver[t]]

Change(t, date) ==
  /\ hist < MaxHist
  /\ hist' = hist + 1
  /\ ver' = [ver EXCEPT ![t] = hist + 1]
  /\ dateOf' = [dateOf EXCEPT ![hist + 1] = date]
  /\ UNCHANGED <<provider, floor, validity, lockVars, progressVars, storeVars, status,
                 pc, loc, faults>>

\* Mail arrives in a thread, new or known.
Deliver(t) == Change(t, hist + 1) /\ inbox' = inbox \union {t}

\* A flag or label changes elsewhere.
Touch(t) == ver[t] # 0 /\ Change(t, Date(t)) /\ UNCHANGED inbox

\* Archived, moved or deleted elsewhere.
Archive(t) == t \in inbox /\ Change(t, Date(t)) /\ inbox' = inbox \ {t}

\* Moved back into the inbox; an IMAP move gives the messages new UIDs,
\* which is Deliver.
Restore(t) ==
  /\ provider # "imap"
  /\ ver[t] # 0 /\ t \notin inbox
  /\ Change(t, Date(t))
  /\ inbox' = inbox \union {t}

\* history.list forgets the changes before f.
Forget ==
  /\ HistoryExpires
  /\ \E f \in (floor + 1)..hist : floor' = f
  /\ UNCHANGED <<provider, hist, ver, dateOf, inbox, validity, lockVars, progressVars,
                 storeVars, status, pc, loc, faults>>

\* The IMAP server renumbers the mailbox.
NewValidity ==
  /\ provider = "imap" /\ validity < MaxValidity
  /\ validity' = validity + 1
  /\ UNCHANGED <<provider, hist, ver, dateOf, inbox, floor, lockVars, progressVars,
                 storeVars, status, pc, loc, faults>>

MailboxChanges ==
  \/ \E t \in Thread : Deliver(t) \/ Touch(t) \/ Archive(t) \/ Restore(t)
  \/ Forget
  \/ NewValidity

\* driver.list: newest first, strictly older than the page token.
Older(tok) == {t \in inbox : tok = 0 \/ Date(t) < tok}
Page(tok, size) ==
  {t \in Older(tok) :
     Cardinality({u \in Older(tok) : Date(u) > Date(t)}) < size}

IsNextToken(n, tok, page) ==
  IF page = Older(tok)
  THEN n = 0
  ELSE \E t \in page : n = Date(t) /\ \A u \in page : Date(t) <= Date(u)

\* The history id of the first thread listed.
IsTop(c, page) ==
  IF page = {}
  THEN c = NoCursor
  ELSE \E t \in page : /\ c = [val |-> 1, id |-> ver[t]]
                       /\ \A u \in page : Date(u) <= Date(t)

Fetched(S) == [t \in Thread |-> IF t \in S THEN ver[t] ELSE 0]

\* The cache is not behind on t, as far as the provider's deltas tell: an IMAP
\* delta tells of new mail only.
Current(t) ==
  IF provider = "google" THEN cache[t] >= ver[t]
  ELSE dateOf[cache[t]] >= Date(t)
-----------------------------------------------------------------------------
(* Control of a run *)

\* Run r goes on to step, with locals l.
Move(r, step, l) ==
  pc' = [pc EXCEPT ![r] = step] /\ loc' = [loc EXCEPT ![r] = l]
Goto(r, step) == Move(r, step, loc[r])
Idle(r) == Move(r, "idle", NoLocals)
ToRelease(r, error) == Move(r, "release", [NoLocals EXCEPT !.error = error])

\* A step that has committed is executed once more.
Again == UNCHANGED <<pc, loc>>

\* Entry of the branch runSyncCycle takes on the state it loaded.
Branch(l) ==
  IF l.mode = "backfill" THEN "page"
  ELSE IF provider = "imap" \/ (provider = "google" /\ l.latest # NoCursor)
       THEN "delta"
  ELSE "page"

LoadState(r) ==
  /\ pc[r] = "idle"
  /\ Move(r, "claim",
       [NoLocals EXCEPT !.mode = IF complete THEN "refresh" ELSE "backfill",
                        !.seeded = cursor # NoCursor,
                        !.token = IF complete THEN 0 ELSE token,
                        !.latest = cursor])
  /\ UNCHANGED <<mailboxVars, lockVars, progressVars, storeVars, status, faults>>

\* The state a run works from is the state of its connection.
Loaded(l) ==
  /\ l.mode = IF complete THEN "refresh" ELSE "backfill"
  /\ l.seeded = (cursor # NoCursor)
  /\ l.token = IF complete THEN 0 ELSE token
  /\ l.latest = cursor

\* The cycle that run r begins crosses another one: that one has written since
\* r loaded its state, or is still at work behind a lock that has gone stale.
Crosses(r) ==
  \/ ~Loaded(loc[r])
  \/ \E s \in Run \ {r} : pc[s] \in Critical \ {"release"}

\* Variant: read the lock when the state was loaded, claim without condition.
ClaimAlways(r) ==
  /\ pc[r] = "claim"
  /\ lock' = "fresh" /\ lastRunId' = r
  /\ crossed' = (crossed \/ Crosses(r))
  /\ Goto(r, Branch(loc[r]))
  /\ UNCHANGED <<mailboxVars, lastError, progressVars, storeVars, status, faults>>

\* claimSyncLockStep: the conditional UPDATE matches a free or stale lock.
Claim(r) ==
  /\ pc[r] = "claim"
  /\ IF lock \in {"free", "stale"}
     THEN /\ lock' = "fresh" /\ lastRunId' = r /\ Goto(r, Branch(loc[r]))
          /\ crossed' = (crossed \/ Crosses(r))
     ELSE Idle(r) /\ UNCHANGED <<lock, lastRunId, crossed>>
  /\ UNCHANGED <<mailboxVars, lastError, progressVars, storeVars, status, faults>>

\* The claim commits but its result is lost; the step's next execution draws
\* a new random runId and meets the lock of the first one.
ClaimLost(r) ==
  /\ pc[r] = "claim" /\ lock \in {"free", "stale"}
  /\ faults < MaxFaults /\ faults' = faults + 1
  /\ lock' = "fresh" /\ lastRunId' = LostRun
  /\ Again
  /\ UNCHANGED <<mailboxVars, lastError, crossed, progressVars, storeVars, status>>

\* STALE_LOCK_MS pass.
LockAges ==
  /\ lock = "fresh"
  /\ SlowRuns \/ \A r \in Run : lastRunId = r => pc[r] \notin Critical
  /\ lock' = "stale"
  /\ UNCHANGED <<mailboxVars, lastRunId, lastError, crossed, progressVars, storeVars,
                 status, pc, loc, faults>>

\* The page's top thread gives Gmail its first delta cursor, and a new one
\* when the old one expired.
Seeds(l, top) ==
  /\ provider = "google"
  /\ \/ l.mode = "backfill" /\ l.latest = NoCursor
     \/ l.mode \in {"expired", "refresh"} /\ top # NoCursor

\* The page fetchPageStep asks for.
PageOf(r) ==
  Page(loc[r].token, IF loc[r].mode = "backfill" THEN PAGE_SIZE ELSE DELTA_PAGE_SIZE)

\* What a page that gives the threads of got goes past, where the cache is
\* behind: the threads the page should hold; those beyond it, when it stands in
\* for a delta; those before it, when it may give Gmail its first cursor.
GoesPast(r, got) ==
  LET l == loc[r]
      seeks == provider = "google" /\ l.latest = NoCursor
  IN {t \in inbox \ got :
        /\ ~Current(t)
        /\ \/ t \in PageOf(r) \/ l.mode # "backfill"
           \/ seeks /\ t \notin Older(l.token)}

\* The step goes on with the threads of got, and the token after the page.
TakePage(r, got) ==
  /\ pc[r] = "page"
  /\ LET l == loc[r]
     IN \E n \in Hist, top \in Cursor :
          /\ IsNextToken(n, l.token, PageOf(r)) /\ IsTop(top, got)
          /\ Move(r, "upsert",
               [l EXCEPT !.threads = Fetched(got), !.next = n, !.top = top,
                         !.latest = IF Seeds(l, top) THEN top ELSE @])
  /\ passed' = passed \union GoesPast(r, got)
  /\ UNCHANGED <<mailboxVars, lockVars, progressVars, cache, rec, status>>

\* fetchPageStep
FetchPage(r) == TakePage(r, PageOf(r)) /\ UNCHANGED faults

\* Gmail's list gets every thread it lists, and drops those whose get fails.
SkipThreads(r) ==
  /\ ListSkips /\ provider = "google"
  /\ faults < MaxFaults /\ faults' = faults + 1
  /\ \E got \in SUBSET PageOf(r) : got # PageOf(r) /\ TakePage(r, got)

\* Gmail's listHistory: the threads changed since a history number; a number
\* that is too old (404) is not served.
HistoryServed(from) == from >= floor
ChangedSince(from) == {t \in Thread : ver[t] > from}

\* fetchHistoryDeltaStep, and the choice runSyncCycle makes on its result.
GmailDelta(r) ==
  /\ pc[r] = "delta" /\ provider = "google"
  /\ LET l == loc[r]
         served == HistoryServed(l.latest.id)
         changed == ChangedSince(l.latest.id)
         now == [val |-> 1, id |-> hist]
     IN \/ ~served /\ Move(r, "page", [l EXCEPT !.mode = "expired"])
        \/ /\ served /\ changed = {}
           /\ Move(r, "persistCursor", [l EXCEPT !.mode = "small", !.latest = now])
        \/ /\ served /\ changed # {}
           /\ Cardinality(changed) <= MAX_DELTA_THREAD_FETCH
           /\ Move(r, "get", [l EXCEPT !.mode = "small", !.latest = now,
                                       !.changed = changed])
        \/ /\ served /\ Cardinality(changed) > MAX_DELTA_THREAD_FETCH
           /\ Move(r, "page", [l EXCEPT !.mode = "bulk", !.latest = now])
  /\ UNCHANGED <<mailboxVars, lockVars, progressVars, storeVars, status, faults>>

\* listHistory of imap.ts: the inbox's threads with mail above a UID.
NewerThan(uid) == {t \in inbox : Date(t) > uid}

\* fetchImapDeltaStep: new UIDs since the cursor, or a full resync.
ImapDelta(r) ==
  /\ pc[r] = "delta" /\ provider = "imap"
  /\ LET l == loc[r]
         valid == l.latest.val \in {0, validity}
         new == NewerThan(l.latest.id)
         At(uid) == [l EXCEPT !.mode = "imap",
                              !.latest = [val |-> validity, id |-> uid]]
     IN \/ ~valid /\ Move(r, "reset", At(hist))
        \/ valid /\ new = {} /\ Move(r, "persistCursor", At(l.latest.id))
        \/ valid /\ \E t \in new : /\ \A u \in new : Date(u) <= Date(t)
                                 /\ Move(r, "page", At(Date(t)))
  /\ UNCHANGED <<mailboxVars, lockVars, progressVars, storeVars, status, faults>>

\* resetBackfillStep
ResetBackfill(r) ==
  /\ pc[r] = "reset"
  /\ token' = 0 /\ complete' = FALSE
  /\ Again \/ Goto(r, "persistCursor")
  /\ UNCHANGED <<mailboxVars, lockVars, cursor, storeVars, status, faults>>

\* fetchThreadsByIdStep: threads out of the inbox are reported gone, unless
\* they have no label at all.
GetThreads(r) ==
  /\ pc[r] = "get"
  /\ LET l == loc[r]
         kept == l.changed \intersect (inbox \union Unlabelled)
     IN Move(r, "upsert",
          [l EXCEPT !.threads = Fetched(kept), !.gone = l.changed \ kept,
                    !.changed = {}])
  /\ UNCHANGED <<mailboxVars, lockVars, progressVars, storeVars, status, faults>>

Merge(store, threads) ==
  [t \in Thread |-> IF threads[t] # 0 THEN threads[t] ELSE store[t]]

\* The threads a run has fetched.
FetchedBy(l) == {t \in Thread : l.threads[t] # 0}

\* What runSyncCycle does after upsertThreadsStep.
AfterUpsert(r) ==
  LET l == [loc[r] EXCEPT !.threads = NoThreads]
      last == l.next = 0 \/ l.pages + 1 = BACKFILL_PAGES_PER_CYCLE
  IN \/ /\ l.mode = "backfill"
        /\ Move(r, IF last THEN "persistBackfill" ELSE "page",
                [l EXCEPT !.token = l.next, !.pages = @ + 1])
     \/ l.mode = "small" /\ Move(r, "evict", l)
     \/ l.mode \in {"bulk", "imap"} /\ Move(r, "persistCursor", l)
     \/ /\ l.mode \in {"expired", "refresh"}
        /\ Move(r, IF provider = "google" /\ l.top # NoCursor
                   THEN "persistCursor" ELSE "prune", l)

\* upsertThreadsStep: both stores in one transaction, whatever they hold.
UpsertThreads(r) ==
  /\ pc[r] = "upsert"
  /\ cache' = Merge(cache, loc[r].threads)
  /\ rec' = Merge(rec, loc[r].threads)
  /\ passed' = passed \ FetchedBy(loc[r])
  /\ Again \/ AfterUpsert(r)
  /\ UNCHANGED <<mailboxVars, lockVars, progressVars, status, faults>>

\* Variant: the rows go, the record's deletion is not published.
DeleteRowsOnly(r) ==
  /\ pc[r] = "evict"
  /\ cache' = [t \in Thread |-> IF t \in loc[r].gone THEN 0 ELSE cache[t]]
  /\ Move(r, "persistCursor", [loc[r] EXCEPT !.gone = {}])
  /\ UNCHANGED <<mailboxVars, lockVars, progressVars, rec, passed, status, faults>>

\* deleteThreadsStep
DeleteThreads(r) ==
  /\ pc[r] = "evict"
  /\ cache' = [t \in Thread |-> IF t \in loc[r].gone THEN 0 ELSE cache[t]]
  /\ rec' = [t \in Thread |-> IF t \in loc[r].gone THEN 0 ELSE rec[t]]
  /\ Again \/ Move(r, "persistCursor", [loc[r] EXCEPT !.gone = {}])
  /\ UNCHANGED <<mailboxVars, lockVars, progressVars, passed, status, faults>>

\* Variant: store the mailbox's position at the time of the write.
PersistHistoryIdNow(r) ==
  /\ pc[r] = "persistCursor"
  /\ cursor' = [val |-> validity, id |-> hist]
  /\ Goto(r, "prune")
  /\ UNCHANGED <<mailboxVars, lockVars, token, complete, storeVars, status, faults>>

\* persistHistoryIdStep: not guarded by the lock.
PersistHistoryId(r) ==
  /\ pc[r] = "persistCursor"
  /\ cursor' = IF loc[r].latest = NoCursor THEN cursor ELSE loc[r].latest
  /\ Again \/ Goto(r, "prune")
  /\ UNCHANGED <<mailboxVars, lockVars, token, complete, storeVars, status, faults>>

\* Variant: the backfill is taken for done when the cycle's pages are used up.
PersistBackfillDone(r) ==
  /\ pc[r] = "persistBackfill"
  /\ token' = loc[r].token /\ complete' = TRUE
  /\ cursor' = IF provider = "google" THEN loc[r].latest ELSE cursor
  /\ Goto(r, "prune")
  /\ UNCHANGED <<mailboxVars, lockVars, storeVars, status, faults>>

\* persistBackfillProgressStep: not guarded by the lock.
PersistBackfillProgress(r) ==
  /\ pc[r] = "persistBackfill"
  /\ LET l == loc[r]
     IN /\ token' = l.token
        /\ complete' = (complete \/ l.next = 0)
        /\ cursor' = IF /\ provider = "google" /\ ~l.seeded /\ l.latest # NoCursor
                     THEN l.latest ELSE cursor
  /\ Again \/ Goto(r, "prune")
  /\ UNCHANGED <<mailboxVars, lockVars, storeVars, status, faults>>

\* pruneWindowStep: the most recent SYNC_WINDOW_THREADS records stay.
InWindow(t) ==
  Cardinality({u \in Thread : rec[u] # 0 /\ dateOf[rec[u]] > dateOf[rec[t]]})
    < SYNC_WINDOW_THREADS

\* pruneWindowStep, its query.
ReadWindow(r) ==
  /\ pc[r] = "prune"
  /\ LET beyond == {t \in Thread : rec[t] # 0 /\ ~InWindow(t)}
     IN IF beyond = {} THEN ToRelease(r, FALSE)
        ELSE Move(r, "pruneDelete", [loc[r] EXCEPT !.gone = beyond])
  /\ UNCHANGED <<mailboxVars, lockVars, progressVars, storeVars, status, faults>>

\* pruneWindowStep, its deletes: of whatever those records are by now.
PruneWindow(r) ==
  /\ pc[r] = "pruneDelete"
  /\ rec' = [t \in Thread |-> IF t \in loc[r].gone THEN 0 ELSE rec[t]]
  /\ Move(r, "prune", [loc[r] EXCEPT !.gone = {}]) \/ ToRelease(r, FALSE)
  /\ UNCHANGED <<mailboxVars, lockVars, progressVars, cache, passed, status, faults>>

\* The prune fails; its error is swallowed.
PruneFails(r) ==
  /\ pc[r] \in {"prune", "pruneDelete"}
  /\ faults < MaxFaults /\ faults' = faults + 1
  /\ ToRelease(r, FALSE)
  /\ UNCHANGED <<mailboxVars, lockVars, progressVars, storeVars, status>>

\* Variant: release whatever run holds the lock.
ReleaseAnyLock(r) ==
  /\ pc[r] = "release"
  /\ lock' = "free" /\ lastError' = loc[r].error
  /\ Again \/ Goto(r, "status")
  /\ UNCHANGED <<mailboxVars, lastRunId, crossed, progressVars, storeVars, status, faults>>

\* releaseSyncLockStep, its UPDATE: only the row this run still owns.
ReleaseLock(r) ==
  /\ pc[r] = "release"
  /\ IF lastRunId = r
     THEN lock' = "free" /\ lastError' = loc[r].error
     ELSE UNCHANGED <<lock, lastError>>
  /\ Again \/ Goto(r, "status")
  /\ UNCHANGED <<mailboxVars, lastRunId, crossed, progressVars, storeVars, status, faults>>

\* Variant: only an incomplete backfill or a change of the error is news.
ReadStatusErrors(r) ==
  /\ pc[r] = "status"
  /\ LET now == [published |-> TRUE, complete |-> complete, error |-> loc[r].error]
     IN IF ~complete \/ status.error # now.error
        THEN Move(r, "publish", [loc[r] EXCEPT !.news = now])
        ELSE Idle(r)
  /\ UNCHANGED <<mailboxVars, lockVars, progressVars, storeVars, status, faults>>

\* releaseSyncLockStep, its reads: publish only what is news.
ReadStatus(r) ==
  /\ pc[r] = "status"
  /\ LET now == [published |-> TRUE, complete |-> complete, error |-> loc[r].error]
     IN IF ~complete \/ ~status.complete \/ status.error # now.error
        THEN Move(r, "publish", [loc[r] EXCEPT !.news = now])
        ELSE Idle(r)
  /\ UNCHANGED <<mailboxVars, lockVars, progressVars, storeVars, status, faults>>

\* releaseSyncLockStep, its publication.
PublishStatus(r) ==
  /\ pc[r] = "publish"
  /\ status' = loc[r].news
  /\ Idle(r)
  /\ UNCHANGED <<mailboxVars, lockVars, progressVars, storeVars, faults>>

\* Reading or publishing the status fails; the error is swallowed.
StatusFails(r) ==
  /\ pc[r] \in {"status", "publish"}
  /\ faults < MaxFaults /\ faults' = faults + 1
  /\ Idle(r)
  /\ UNCHANGED <<mailboxVars, lockVars, progressVars, storeVars, status>>

\* A step of the try block fails for good: release with the error.
Fail(r) ==
  /\ pc[r] \in Try
  /\ faults < MaxFaults /\ faults' = faults + 1
  /\ ToRelease(r, TRUE)
  /\ UNCHANGED <<mailboxVars, lockVars, progressVars, storeVars, status>>

\* The run is gone for good, wherever it was.
Die(r) ==
  /\ pc[r] # "idle"
  /\ faults < MaxFaults /\ faults' = faults + 1
  /\ Idle(r)
  /\ UNCHANGED <<mailboxVars, lockVars, progressVars, storeVars, status>>

Cycle(r) ==
  \/ LoadState(r) \/ Claim(r)
  \/ FetchPage(r) \/ GmailDelta(r) \/ ImapDelta(r) \/ ResetBackfill(r)
  \/ GetThreads(r) \/ UpsertThreads(r) \/ DeleteThreads(r)
  \/ PersistHistoryId(r) \/ PersistBackfillProgress(r)
  \/ ReadWindow(r) \/ PruneWindow(r) \/ ReleaseLock(r) \/ ReadStatus(r) \/ PublishStatus(r)

Faulty(r) ==
  ClaimLost(r) \/ SkipThreads(r) \/ PruneFails(r) \/ StatusFails(r) \/ Fail(r) \/ Die(r)

Next == MailboxChanges \/ LockAges \/ \E r \in Run : Cycle(r) \/ Faulty(r)

Spec == Init /\ [][Next]_vars

\* The scheduler starts cycles forever and the workflow runtime resumes every
\* run it has not lost, so each run keeps advancing; wall-clock time passes.
Progress(r) == Cycle(r) /\ pc'[r] # pc[r]
Fairness == WF_vars(LockAges) /\ \A r \in Run : WF_vars(Progress(r))
FairSpec == Spec /\ Fairness
-----------------------------------------------------------------------------
(* Properties *)

StatusRecord == [published : BOOLEAN, complete : BOOLEAN, error : BOOLEAN]
LocalsOK ==
  [mode : Modes, seeded : BOOLEAN, pages : Nat, token : Hist, next : Hist, top : Cursor,
   changed : SUBSET Thread, threads : [Thread -> Hist],
   gone : SUBSET Thread, latest : Cursor, error : BOOLEAN,
   news : StatusRecord]

MailboxOK ==
  /\ provider \in Providers
  /\ hist \in Hist /\ floor \in Hist /\ validity \in 1..MaxValidity
  /\ ver \in [Thread -> Hist] /\ dateOf \in [Hist -> Hist]
  /\ inbox \subseteq Thread
LockOK ==
  /\ lock \in {"free", "fresh", "stale"}
  /\ lastRunId \in Run \union {LostRun}
  /\ lastError \in BOOLEAN
  /\ crossed \in BOOLEAN
ProgressOK == token \in Hist /\ complete \in BOOLEAN /\ cursor \in Cursor
StoresOK ==
  /\ cache \in [Thread -> Hist] /\ rec \in [Thread -> Hist]
  /\ status \in StatusRecord
  /\ passed \subseteq Thread
RunsOK ==
  pc \in [Run -> Steps] /\ loc \in [Run -> LocalsOK] /\ faults \in 0..MaxFaults

\* Type invariant: every column, store and local of a cycle stays in its type.
TypeOK == MailboxOK /\ LockOK /\ ProgressOK /\ StoresOK /\ RunsOK

\* A run that holds the lock by name really has it: nobody else's release,
\* late, repeated or after a stale-lock takeover, frees the lock under it.
LockHeldByOwner ==
  \A r \in Run : pc[r] \in Critical \ {"release"} /\ lastRunId = r => lock # "free"

\* Unless a run outlives its lock, at most one cycle body is executing: the
\* claim's conditional UPDATE admits one contender.  (A repeated release may
\* still be pending when the next run enters, and is harmless.)
OneCycleAtATime ==
  ~SlowRuns => \A r, s \in Run :
    {pc[r], pc[s]} \subseteq Critical \ {"release"} => r = s

\* The row is the lock that CycleLock promises, as long as no run outlives its
\* claim: claims that meet, repeated and late releases, stale-lock takeovers and
\* deaths included.
Lock == INSTANCE CycleLock WITH
  taken <- lock = "fresh", working <- {r \in Run : pc[r] \in Critical \ {"release"}}
ImplementsCycleLock == Lock!Spec

\* The two stores never disagree on a thread they both hold, whatever run
\* writes, fails or repeats a step ("the feeder cache and the sync store can
\* never diverge"), on what the upsert overwrites (has_starred is not part of
\* it); a record without a cached thread does not exist.
RecordsMirrorCache ==
  \A t \in Thread : rec[t] # 0 => rec[t] = cache[t]

\* A change the persisted position claims to have consumed.
Consumed(t) ==
  CASE provider = "google" -> ver[t] <= cursor.id /\ cursor.val # 0
    [] provider = "imap" -> Date(t) <= cursor.id /\ cursor.val = validity
    [] OTHER -> FALSE
\* The part of the inbox the backfill claims to have walked.
Walked(t) == complete \/ (token # 0 /\ Date(t) >= token)

\* Nothing is missed behind the persisted position: an inbox thread within
\* the walked part whose last change the cursor has consumed is in the cache
\* at that version, unless a page went past it or cycles have crossed.  A
\* cursor written too early, a page skipped on resume or a lost upsert breaks
\* it for good, because no later delta looks back.
Missed == {t \in inbox : Walked(t) /\ Consumed(t) /\ ~Current(t)}
NothingMissed == crossed \/ Missed \subseteq passed

\* The same of cycles that cross too, as the comments on the cursor have it
\* ("so the next cycle continues instead of restarting").
MissedArePassed == Missed \subseteq passed

\* A thread that left the inbox before the position of the cursor has left
\* the cache too ("The store is an inbox cache: a thread whose labels no
\* longer include INBOX (archived, moved) is evicted").
ArchivedIsEvicted ==
  \A t \in Thread \ inbox : complete /\ Consumed(t) => cache[t] = 0

\* Once the mailbox is quiet and faults stop, the cache holds the inbox, but for
\* the threads that a page went past and no later page or delta has fetched.
InboxArrives == <>[](\A t \in inbox \ passed : Current(t))

\* While the inbox has a thread to re-seed from, a position too old for
\* history.list does not last ("Refresh page 1 and re-seed the cursor from it so future cycles can
\* resume history.list instead of throwing forever").
CursorRecovers ==
  []<>(inbox = {} \/ cursor = NoCursor \/ cursor.id >= floor)

\* The banner's record ends up telling the state of the synchroniser.
BannerTellsTruth ==
  <>[](status = [published |-> TRUE, complete |-> complete, error |-> lastError])

\* The published window keeps returning to at most SYNC_WINDOW_THREADS
\* records: pages re-publish older threads, the prune at the end of each cycle
\* takes them out again.
WindowRestored ==
  []<>(Cardinality({t \in Thread : rec[t] # 0}) <= SYNC_WINDOW_THREADS)
=============================================================================
