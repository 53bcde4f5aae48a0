-------------------------- MODULE SyncCycleProofs --------------------------
(***************************************************************************)
(* Proofs about SyncCycle, for any sets of threads and runs, any page      *)
(* sizes and any number of faults: type correctness, the two lock          *)
(* invariants of the cycle, the agreement of the two stores, and that      *)
(* nothing is missed behind the persisted position but what a page went    *)
(* past, as long as no two cycles have crossed, whatever the mailbox does  *)
(* in the meantime and whichever steps fail, are repeated, or are never    *)
(* reached.                                                                *)
(***************************************************************************)
EXTENDS SyncCycle, FiniteSetTheorems, TLAPS

-----------------------------------------------------------------------------
(* Types *)

LEMMA HistFacts == 0 \in Hist /\ Hist \subseteq Nat /\ NoCursor \in Cursor
  BY ConstantsAssumption DEF Hist, Cursor, NoCursor

LEMMA NoThreadsOK == NoThreads \in [Thread -> Hist]
  BY HistFacts DEF NoThreads

LEMMA NoStatusOK == NoStatus \in StatusRecord
  BY DEF NoStatus, StatusRecord

LEMMA NoLocalsOK == NoLocals \in LocalsOK
  BY HistFacts, NoThreadsOK, NoStatusOK DEF NoLocals, LocalsOK, Modes

LEMMA InitTypeOK == Init => TypeOK
<1> SUFFICES ASSUME Init PROVE TypeOK
  OBVIOUS
<1>1. MailboxOK
  BY ConstantsAssumption, HistFacts DEF Init, MailboxOK, Hist
<1>2. LockOK
  BY DEF Init, LockOK
<1>3. ProgressOK
  BY HistFacts DEF Init, ProgressOK
<1>4. StoresOK
  BY NoThreadsOK, NoStatusOK DEF Init, StoresOK
<1>5. RunsOK
  BY NoLocalsOK, ConstantsAssumption DEF Init, RunsOK, Steps
<1> QED BY <1>1, <1>2, <1>3, <1>4, <1>5 DEF TypeOK

\* What a step leaves alone keeps its type.
LEMMA SameMailbox == MailboxOK /\ UNCHANGED mailboxVars => MailboxOK'
  BY DEF MailboxOK, mailboxVars
LEMMA SameLock == LockOK /\ UNCHANGED lockVars => LockOK'
  BY DEF LockOK, lockVars
LEMMA SameProgress == ProgressOK /\ UNCHANGED progressVars => ProgressOK'
  BY DEF ProgressOK, progressVars
LEMMA SameStores == StoresOK /\ UNCHANGED <<storeVars, status>> => StoresOK'
  BY DEF StoresOK, storeVars
LEMMA SameRuns == RunsOK /\ UNCHANGED <<pc, loc, faults>> => RunsOK'
  BY DEF RunsOK

LEMMA BoundFacts ==
  MaxHist \in Nat /\ MaxValidity \in Nat \ {0} /\ MaxFaults \in Nat
  BY ConstantsAssumption

LEMMA ChangeTypeOK ==
  ASSUME MailboxOK, NEW t \in Thread, NEW d \in Hist, Change(t, d),
         inbox' \subseteq Thread
  PROVE  MailboxOK'
<1>1. UNCHANGED <<provider, floor, validity>>
  BY DEF Change
<1>2. hist + 1 \in Hist
  BY BoundFacts DEF Change, MailboxOK, Hist
<1>3. hist' \in Hist /\ ver' \in [Thread -> Hist] /\ dateOf' \in [Hist -> Hist]
  BY <1>2 DEF Change, MailboxOK
<1> QED BY <1>1, <1>3 DEF MailboxOK

LEMMA MailboxTypeOK == TypeOK /\ MailboxChanges => TypeOK'
<1> SUFFICES ASSUME TypeOK, MailboxChanges PROVE TypeOK'
  OBVIOUS
<1>1. /\ UNCHANGED lockVars /\ UNCHANGED progressVars
      /\ UNCHANGED <<storeVars, status>> /\ UNCHANGED <<pc, loc, faults>>
  BY DEF MailboxChanges, Deliver, Touch, Archive, Restore, Change, Forget, NewValidity
<1>2. MailboxOK'
  <2>1. ASSUME NEW t \in Thread, Deliver(t) PROVE MailboxOK'
    <3>1. hist + 1 \in Hist
      BY <2>1, BoundFacts DEF Deliver, Change, TypeOK, MailboxOK, Hist
    <3> QED BY <3>1, <2>1, ChangeTypeOK DEF Deliver, TypeOK, MailboxOK
  <2>2. ASSUME NEW t \in Thread, Touch(t) \/ Archive(t) \/ Restore(t)
        PROVE  MailboxOK'
    <3>1. Date(t) \in Hist
      BY DEF Date, TypeOK, MailboxOK
    <3>2. Change(t, Date(t)) /\ inbox' \subseteq Thread
      BY <2>2 DEF Touch, Archive, Restore, TypeOK, MailboxOK
    <3> QED BY <3>1, <3>2, ChangeTypeOK DEF TypeOK
  <2>3. CASE Forget
    <3>1. UNCHANGED <<provider, hist, ver, dateOf, inbox, validity>>
      BY <2>3 DEF Forget
    <3>2. floor' \in Hist
      BY <2>3, BoundFacts DEF Forget, TypeOK, MailboxOK, Hist
    <3> QED BY <3>1, <3>2 DEF TypeOK, MailboxOK
  <2>4. CASE NewValidity
    BY <2>4, BoundFacts DEF NewValidity, TypeOK, MailboxOK
  <2> QED BY <2>1, <2>2, <2>3, <2>4 DEF MailboxChanges
<1> QED
  BY <1>1, <1>2, SameLock, SameProgress, SameStores, SameRuns DEF TypeOK

\* A run that moves on with well-typed locals keeps RunsOK.
LEMMA MoveTypeOK ==
  ASSUME RunsOK, NEW r \in Run, NEW step \in Steps, NEW l \in LocalsOK,
         Move(r, step, l), faults' \in 0..MaxFaults
  PROVE  RunsOK'
  BY DEF RunsOK, Move

LEMMA GotoTypeOK ==
  ASSUME RunsOK, NEW r \in Run, NEW step \in Steps, Goto(r, step),
         faults' \in 0..MaxFaults
  PROVE  RunsOK'
  BY MoveTypeOK DEF RunsOK, Goto

LEMMA IdleTypeOK ==
  ASSUME RunsOK, NEW r \in Run, Idle(r), faults' \in 0..MaxFaults
  PROVE  RunsOK'
  BY MoveTypeOK, NoLocalsOK DEF Idle, Steps

LEMMA ToReleaseTypeOK ==
  ASSUME RunsOK, NEW r \in Run, NEW e \in BOOLEAN, ToRelease(r, e),
         faults' \in 0..MaxFaults
  PROVE  RunsOK'
<1>1. [NoLocals EXCEPT !.error = e] \in LocalsOK
  BY NoLocalsOK DEF LocalsOK
<1> QED BY <1>1, MoveTypeOK DEF ToRelease, Steps

LEMMA FaultCounted ==
  ASSUME RunsOK, faults < MaxFaults, faults' = faults + 1
  PROVE  faults' \in 0..MaxFaults
  BY BoundFacts DEF RunsOK

LEMMA FetchedOK ==
  ASSUME MailboxOK, NEW S PROVE Fetched(S) \in [Thread -> Hist]
  BY HistFacts DEF Fetched, MailboxOK

LEMMA MergeOK ==
  ASSUME NEW s \in [Thread -> Hist], NEW f \in [Thread -> Hist]
  PROVE  Merge(s, f) \in [Thread -> Hist]
  BY DEF Merge

LEMMA LocalsOfRun ==
  ASSUME RunsOK, NEW r \in Run PROVE loc[r] \in LocalsOK
  BY DEF RunsOK

\* The steps that only read keep the types of the locals they fill in.
LEMMA TakePageTypeOK ==
  ASSUME TypeOK, NEW r \in Run, NEW got, TakePage(r, got), faults' \in 0..MaxFaults
  PROVE  RunsOK'
<1> DEFINE l == loc[r]
<1>1. PICK n \in Hist, top \in Cursor :
        Move(r, "upsert",
             [l EXCEPT !.threads = Fetched(got), !.next = n, !.top = top,
                       !.latest = IF Seeds(l, top) THEN top ELSE @])
  BY DEF TakePage
<1>2. l \in LocalsOK /\ Fetched(got) \in [Thread -> Hist]
  BY LocalsOfRun, FetchedOK DEF TypeOK
<1>3. (IF Seeds(l, top) THEN top ELSE l.latest) \in Cursor
  BY <1>2 DEF LocalsOK
<1>4. [l EXCEPT !.threads = Fetched(got), !.next = n, !.top = top,
                !.latest = IF Seeds(l, top) THEN top ELSE @] \in LocalsOK
  BY <1>2, <1>3 DEF LocalsOK
<1> QED BY <1>1, <1>4, MoveTypeOK DEF TypeOK, Steps

LEMMA FetchPageTypeOK ==
  ASSUME TypeOK, NEW r \in Run, FetchPage(r) \/ SkipThreads(r) PROVE StoresOK' /\ RunsOK'
<1>1. faults' \in 0..MaxFaults
  BY FaultCounted DEF FetchPage, SkipThreads, TypeOK, RunsOK
<1>2. PICK got : TakePage(r, got)
  BY DEF FetchPage, SkipThreads
<1>3. GoesPast(r, got) \subseteq Thread
  BY DEF GoesPast, TypeOK, MailboxOK
<1>4. StoresOK'
  BY <1>2, <1>3 DEF TakePage, TypeOK, StoresOK
<1> QED BY <1>1, <1>2, <1>4, TakePageTypeOK

LEMMA GmailDeltaTypeOK ==
  ASSUME TypeOK, NEW r \in Run, GmailDelta(r) PROVE RunsOK'
<1> DEFINE l == loc[r]
           changed == ChangedSince(l.latest.id)
           now == [val |-> 1, id |-> hist]
<1>1. l \in LocalsOK /\ now \in Cursor /\ changed \in SUBSET Thread
  BY LocalsOfRun, BoundFacts DEF TypeOK, MailboxOK, Cursor, ChangedSince
<1>2. /\ [l EXCEPT !.mode = "expired"] \in LocalsOK
      /\ [l EXCEPT !.mode = "small", !.latest = now] \in LocalsOK
      /\ [l EXCEPT !.mode = "bulk", !.latest = now] \in LocalsOK
  BY <1>1 DEF LocalsOK, Modes
<1>3. [l EXCEPT !.mode = "small", !.latest = now, !.changed = changed] \in LocalsOK
  BY <1>1 DEF LocalsOK, Modes
<1>4. \E step \in Steps, k \in LocalsOK : Move(r, step, k)
  BY <1>2, <1>3 DEF GmailDelta, Steps
<1>5. faults' \in 0..MaxFaults
  BY DEF GmailDelta, TypeOK, RunsOK
<1> QED BY <1>4, <1>5, MoveTypeOK DEF TypeOK

LEMMA ImapDeltaTypeOK ==
  ASSUME TypeOK, NEW r \in Run, ImapDelta(r) PROVE RunsOK'
<1> DEFINE l == loc[r]
           At(uid) == [l EXCEPT !.mode = "imap",
                                !.latest = [val |-> validity, id |-> uid]]
<1>1. l \in LocalsOK /\ l.latest.id \in Hist
  BY LocalsOfRun DEF TypeOK, LocalsOK, Cursor
<1>2. \A uid \in Hist : At(uid) \in LocalsOK
  <2>1. \A uid \in Hist : [val |-> validity, id |-> uid] \in Cursor
    BY BoundFacts DEF TypeOK, MailboxOK, Cursor
  <2> QED BY <1>1, <2>1 DEF LocalsOK, Modes
<1>3. \A t \in inbox : Date(t) \in Hist
  BY DEF Date, TypeOK, MailboxOK
<1>4. \E step \in Steps, k \in LocalsOK : Move(r, step, k)
  BY <1>1, <1>2, <1>3 DEF ImapDelta, NewerThan, Steps, TypeOK, MailboxOK
<1>5. faults' \in 0..MaxFaults
  BY DEF ImapDelta, TypeOK, RunsOK
<1> QED BY <1>4, <1>5, MoveTypeOK DEF TypeOK

LEMMA AfterUpsertTypeOK ==
  ASSUME TypeOK, NEW r \in Run, AfterUpsert(r), faults' \in 0..MaxFaults
  PROVE  RunsOK'
<1> DEFINE l == [loc[r] EXCEPT !.threads = NoThreads]
<1>1. l \in LocalsOK
  BY LocalsOfRun, NoThreadsOK DEF TypeOK, LocalsOK
<1>2. [l EXCEPT !.token = l.next, !.pages = @ + 1] \in LocalsOK
  <2> HIDE DEF l
  <2>1. l.pages + 1 \in Nat /\ l.next \in Hist
    BY <1>1 DEF LocalsOK
  <2> QED BY <1>1, <2>1 DEF LocalsOK
<1>3. \E step \in Steps, k \in LocalsOK : Move(r, step, k)
  BY <1>1, <1>2 DEF AfterUpsert, Steps
<1> QED BY <1>3, MoveTypeOK DEF TypeOK

\* The steps that write one of the rows.
LEMMA ClaimTypeOK ==
  ASSUME TypeOK, NEW r \in Run, Claim(r) \/ ClaimLost(r)
  PROVE  LockOK' /\ RunsOK'
<1>1. CASE Claim(r)
  <2>1. LockOK'
    BY <1>1 DEF Claim, TypeOK, LockOK
  <2>2. faults' \in 0..MaxFaults
    BY <1>1 DEF Claim, TypeOK, RunsOK
  <2>3. Branch(loc[r]) \in Steps
    BY DEF Branch, Steps
  <2>4. Goto(r, Branch(loc[r])) \/ Idle(r)
    BY <1>1 DEF Claim
  <2> QED BY <2>1, <2>2, <2>3, <2>4, GotoTypeOK, IdleTypeOK DEF TypeOK
<1>2. CASE ClaimLost(r)
  <2>1. LockOK'
    BY <1>2 DEF ClaimLost, TypeOK, LockOK
  <2>2. RunsOK'
    BY <1>2, FaultCounted DEF ClaimLost, Again, TypeOK, RunsOK
  <2> QED BY <2>1, <2>2
<1> QED BY <1>1, <1>2

LEMMA ResetBackfillTypeOK ==
  ASSUME TypeOK, NEW r \in Run, ResetBackfill(r) PROVE ProgressOK' /\ RunsOK'
<1>1. ProgressOK'
  BY HistFacts DEF ResetBackfill, TypeOK, ProgressOK
<1>2. Again \/ Goto(r, "persistCursor")
  BY DEF ResetBackfill
<1>3. faults' = faults
  BY DEF ResetBackfill
<1> QED
  BY <1>1, <1>2, <1>3, GotoTypeOK, SameRuns DEF Again, Steps, TypeOK, RunsOK

LEMMA GetThreadsTypeOK ==
  ASSUME TypeOK, NEW r \in Run, GetThreads(r) PROVE RunsOK'
<1> DEFINE l == loc[r]
           kept == l.changed \intersect (inbox \union Unlabelled)
<1>1. l \in LocalsOK /\ Fetched(kept) \in [Thread -> Hist]
  BY LocalsOfRun, FetchedOK DEF TypeOK
<1>2. [l EXCEPT !.threads = Fetched(kept), !.gone = l.changed \ kept,
                !.changed = {}] \in LocalsOK
  <2> HIDE DEF l
  <2>1. l.changed \ kept \in SUBSET Thread
    BY <1>1 DEF LocalsOK
  <2> QED BY <1>1, <2>1 DEF LocalsOK
<1> QED
  BY <1>2, MoveTypeOK DEF GetThreads, Steps, TypeOK, RunsOK

LEMMA UpsertThreadsTypeOK ==
  ASSUME TypeOK, NEW r \in Run, UpsertThreads(r) PROVE StoresOK' /\ RunsOK'
<1>1. loc[r].threads \in [Thread -> Hist]
  BY LocalsOfRun DEF TypeOK, LocalsOK
<1>2. StoresOK'
  BY <1>1, MergeOK DEF UpsertThreads, TypeOK, StoresOK
<1>3. faults' = faults /\ faults \in 0..MaxFaults
  BY DEF UpsertThreads, TypeOK, RunsOK
<1>4. CASE Again
  BY <1>2, <1>3, <1>4, SameRuns DEF Again, TypeOK
<1>5. CASE AfterUpsert(r)
  BY <1>2, <1>3, <1>5, AfterUpsertTypeOK
<1> QED BY <1>4, <1>5 DEF UpsertThreads

LEMMA DeleteThreadsTypeOK ==
  ASSUME TypeOK, NEW r \in Run, DeleteThreads(r) PROVE StoresOK' /\ RunsOK'
<1>1. StoresOK'
  BY HistFacts DEF DeleteThreads, TypeOK, StoresOK
<1>2. [loc[r] EXCEPT !.gone = {}] \in LocalsOK
  BY LocalsOfRun DEF TypeOK, LocalsOK
<1>3. faults' = faults /\ faults \in 0..MaxFaults
  BY DEF DeleteThreads, TypeOK, RunsOK
<1>4. Again \/ Move(r, "persistCursor", [loc[r] EXCEPT !.gone = {}])
  BY DEF DeleteThreads
<1> QED
  BY <1>1, <1>2, <1>3, <1>4, MoveTypeOK, SameRuns DEF Again, Steps, TypeOK

LEMMA PersistTypeOK ==
  ASSUME TypeOK, NEW r \in Run, PersistHistoryId(r) \/ PersistBackfillProgress(r)
  PROVE  ProgressOK' /\ RunsOK'
<1> DEFINE l == loc[r]
<1>1. l \in LocalsOK /\ l.token \in Hist /\ l.latest \in Cursor
  BY LocalsOfRun DEF TypeOK, LocalsOK
<1>2. token' \in Hist /\ cursor' \in Cursor
  BY <1>1 DEF PersistHistoryId, PersistBackfillProgress, TypeOK, ProgressOK
<1>3. complete' \in BOOLEAN
  BY DEF PersistHistoryId, PersistBackfillProgress, TypeOK, ProgressOK
<1>4. faults' = faults /\ faults \in 0..MaxFaults
  BY DEF PersistHistoryId, PersistBackfillProgress, TypeOK, RunsOK
<1>5. Again \/ Goto(r, "prune")
  BY DEF PersistHistoryId, PersistBackfillProgress
<1> QED
  BY <1>2, <1>3, <1>4, <1>5, GotoTypeOK, SameRuns
     DEF Again, Steps, TypeOK, ProgressOK

LEMMA PruneTypeOK ==
  ASSUME TypeOK, NEW r \in Run, ReadWindow(r) \/ PruneWindow(r) \/ PruneFails(r)
  PROVE  StoresOK' /\ RunsOK'
<1>1. StoresOK'
  BY HistFacts, SameStores
     DEF ReadWindow, PruneWindow, PruneFails, TypeOK, StoresOK, storeVars
<1>2. loc[r] \in LocalsOK
  BY LocalsOfRun DEF TypeOK
<1>3. CASE ReadWindow(r)
  <2> DEFINE beyond == {t \in Thread : rec[t] # 0 /\ ~InWindow(t)}
  <2>1. [loc[r] EXCEPT !.gone = beyond] \in LocalsOK
    <3>1. beyond \in SUBSET Thread
      OBVIOUS
    <3> HIDE DEF beyond
    <3> QED BY <1>2, <3>1 DEF LocalsOK
  <2>2. \/ ToRelease(r, FALSE)
        \/ Move(r, "pruneDelete", [loc[r] EXCEPT !.gone = beyond])
    BY <1>3 DEF ReadWindow
  <2>3. faults' = faults /\ faults \in 0..MaxFaults
    BY <1>3 DEF ReadWindow, TypeOK, RunsOK
  <2> HIDE DEF beyond
  <2> QED BY <1>1, <2>1, <2>2, <2>3, ToReleaseTypeOK, MoveTypeOK DEF Steps, TypeOK
<1>4. CASE PruneWindow(r)
  <2>1. \/ ToRelease(r, FALSE)
        \/ Move(r, "prune", [loc[r] EXCEPT !.gone = {}])
    BY <1>4 DEF PruneWindow
  <2>2. faults' = faults /\ faults \in 0..MaxFaults
    BY <1>4 DEF PruneWindow, TypeOK, RunsOK
  <2>3. [loc[r] EXCEPT !.gone = {}] \in LocalsOK
    BY <1>2 DEF LocalsOK
  <2> QED BY <1>1, <2>1, <2>2, <2>3, ToReleaseTypeOK, MoveTypeOK DEF Steps, TypeOK
<1>5. CASE PruneFails(r)
  BY <1>1, <1>5, FaultCounted, ToReleaseTypeOK DEF PruneFails, TypeOK
<1> QED BY <1>3, <1>4, <1>5

LEMMA ReleaseLockTypeOK ==
  ASSUME TypeOK, NEW r \in Run, ReleaseLock(r) PROVE LockOK' /\ RunsOK'
<1>1. loc[r].error \in BOOLEAN
  BY LocalsOfRun DEF TypeOK, LocalsOK
<1>2. lock' \in {"free", "fresh", "stale"} /\ lastRunId' = lastRunId
  BY DEF ReleaseLock, TypeOK, LockOK
<1>3. crossed' = crossed /\ (lastError' = loc[r].error \/ lastError' = lastError)
  BY DEF ReleaseLock
<1>4. LockOK'
  BY <1>1, <1>2, <1>3 DEF TypeOK, LockOK
<1>5. faults' = faults /\ faults \in 0..MaxFaults
  BY DEF ReleaseLock, TypeOK, RunsOK
<1>6. Again \/ Goto(r, "status")
  BY DEF ReleaseLock
<1> QED
  BY <1>4, <1>5, <1>6, GotoTypeOK, SameRuns DEF Again, Steps, TypeOK

LEMMA StatusTypeOK ==
  ASSUME TypeOK, NEW r \in Run,
         ReadStatus(r) \/ PublishStatus(r) \/ StatusFails(r)
  PROVE  StoresOK' /\ RunsOK'
<1>1. loc[r] \in LocalsOK /\ loc[r].error \in BOOLEAN /\ loc[r].news \in StatusRecord
  BY LocalsOfRun DEF TypeOK, LocalsOK
<1>2. CASE ReadStatus(r)
  <2> DEFINE now == [published |-> TRUE, complete |-> complete, error |-> loc[r].error]
  <2>1. now \in StatusRecord
    BY <1>1 DEF StatusRecord, TypeOK, ProgressOK
  <2>2. [loc[r] EXCEPT !.news = now] \in LocalsOK
    <3> HIDE DEF now
    <3> QED BY <1>1, <2>1 DEF LocalsOK
  <2>3. Move(r, "publish", [loc[r] EXCEPT !.news = now]) \/ Idle(r)
    BY <1>2 DEF ReadStatus
  <2>4. faults' = faults /\ faults \in 0..MaxFaults
    BY <1>2 DEF ReadStatus, TypeOK, RunsOK
  <2>5. StoresOK'
    BY <1>2, SameStores DEF ReadStatus, TypeOK
  <2> HIDE DEF now
  <2> QED BY <2>2, <2>3, <2>4, <2>5, MoveTypeOK, IdleTypeOK DEF TypeOK, Steps
<1>3. CASE PublishStatus(r)
  <2>1. StoresOK'
    BY <1>1, <1>3 DEF PublishStatus, TypeOK, StoresOK, storeVars
  <2> QED BY <1>3, <2>1, IdleTypeOK DEF PublishStatus, TypeOK, RunsOK
<1>4. CASE StatusFails(r)
  BY <1>4, FaultCounted, IdleTypeOK, SameStores DEF StatusFails, TypeOK
<1> QED BY <1>2, <1>3, <1>4

\* Every step preserves the types.
LEMMA NextTypeOK == TypeOK /\ [Next]_vars => TypeOK'
<1> SUFFICES ASSUME TypeOK, [Next]_vars PROVE TypeOK'
  OBVIOUS
<1>1. CASE MailboxChanges
  BY <1>1, MailboxTypeOK
<1>2. CASE LockAges
  <2>1. LockOK'
    BY <1>2 DEF LockAges, TypeOK, LockOK
  <2> QED
    BY <1>2, <2>1, SameMailbox, SameProgress, SameStores, SameRuns
       DEF LockAges, TypeOK
<1>3. ASSUME NEW r \in Run, Cycle(r) \/ Faulty(r) PROVE TypeOK'
  <2>1. CASE LoadState(r)
    <3> DEFINE k == [NoLocals EXCEPT
                       !.mode = IF complete THEN "refresh" ELSE "backfill",
                       !.seeded = cursor # NoCursor,
                       !.token = IF complete THEN 0 ELSE token,
                       !.latest = cursor]
    <3>1. k \in LocalsOK
      <4>1. (IF complete THEN 0 ELSE token) \in Hist /\ cursor \in Cursor
        BY HistFacts DEF TypeOK, ProgressOK
      <4>2. (cursor # NoCursor) \in BOOLEAN
        OBVIOUS
      <4>3. (IF complete THEN "refresh" ELSE "backfill") \in Modes
        BY DEF Modes
      <4> QED BY <4>1, <4>2, <4>3, NoLocalsOK DEF LocalsOK
    <3>2. Move(r, "claim", k) /\ faults' = faults
      BY <2>1 DEF LoadState
    <3> HIDE DEF k
    <3>3. RunsOK'
      BY <3>1, <3>2, MoveTypeOK DEF Steps, TypeOK, RunsOK
    <3> QED
      BY <2>1, <3>3, SameMailbox, SameLock, SameProgress, SameStores
         DEF LoadState, TypeOK
  <2>2. CASE Claim(r) \/ ClaimLost(r)
    BY <2>2, ClaimTypeOK, SameMailbox, SameProgress, SameStores
       DEF Claim, ClaimLost, TypeOK
  <2>3. CASE FetchPage(r) \/ SkipThreads(r)
    BY <2>3, FetchPageTypeOK, SameMailbox, SameLock, SameProgress
       DEF FetchPage, SkipThreads, TakePage, TypeOK
  <2>4. CASE GmailDelta(r)
    BY <2>4, GmailDeltaTypeOK, SameMailbox, SameLock, SameProgress, SameStores
       DEF GmailDelta, TypeOK
  <2>5. CASE ImapDelta(r)
    BY <2>5, ImapDeltaTypeOK, SameMailbox, SameLock, SameProgress, SameStores
       DEF ImapDelta, TypeOK
  <2>6. CASE ResetBackfill(r)
    BY <2>6, ResetBackfillTypeOK, SameMailbox, SameLock, SameStores
       DEF ResetBackfill, TypeOK
  <2>7. CASE GetThreads(r)
    BY <2>7, GetThreadsTypeOK, SameMailbox, SameLock, SameProgress, SameStores
       DEF GetThreads, TypeOK
  <2>8. CASE UpsertThreads(r)
    BY <2>8, UpsertThreadsTypeOK, SameMailbox, SameLock, SameProgress
       DEF UpsertThreads, TypeOK
  <2>9. CASE DeleteThreads(r)
    BY <2>9, DeleteThreadsTypeOK, SameMailbox, SameLock, SameProgress
       DEF DeleteThreads, TypeOK
  <2>10. CASE PersistHistoryId(r) \/ PersistBackfillProgress(r)
    BY <2>10, PersistTypeOK, SameMailbox, SameLock, SameStores
       DEF PersistHistoryId, PersistBackfillProgress, TypeOK
  <2>11. CASE ReadWindow(r) \/ PruneWindow(r) \/ PruneFails(r)
    BY <2>11, PruneTypeOK, SameMailbox, SameLock, SameProgress
       DEF ReadWindow, PruneWindow, PruneFails, TypeOK
  <2>12. CASE ReleaseLock(r)
    BY <2>12, ReleaseLockTypeOK, SameMailbox, SameProgress, SameStores
       DEF ReleaseLock, TypeOK
  <2>13. CASE ReadStatus(r) \/ PublishStatus(r) \/ StatusFails(r)
    BY <2>13, StatusTypeOK, SameMailbox, SameLock, SameProgress
       DEF ReadStatus, PublishStatus, StatusFails, TypeOK
  <2>14. CASE Fail(r)
    BY <2>14, FaultCounted, ToReleaseTypeOK, SameMailbox, SameLock, SameProgress,
       SameStores DEF Fail, TypeOK
  <2>15. CASE Die(r)
    BY <2>15, FaultCounted, IdleTypeOK, SameMailbox, SameLock, SameProgress,
       SameStores DEF Die, TypeOK
  <2> QED
    BY <1>3, <2>1, <2>2, <2>3, <2>4, <2>5, <2>6, <2>7, <2>8, <2>9, <2>10, <2>11,
       <2>12, <2>13, <2>14, <2>15 DEF Cycle, Faulty
<1>4. CASE UNCHANGED vars
  BY <1>4, SameMailbox, SameLock, SameProgress, SameStores, SameRuns DEF vars, TypeOK
<1> QED BY <1>1, <1>2, <1>3, <1>4 DEF Next

\* Whatever runs do and however they fail, the sync_state row, the stores and
\* the locals of sync-connection.ts keep their types.
THEOREM TypeCorrect == Spec => []TypeOK
  BY InitTypeOK, NextTypeOK, PTL DEF Spec

-----------------------------------------------------------------------------
(* The cycle lock *)

\* The cycle body, up to the lock's release.
Body == Critical \ {"release"}

\* Only a claim puts a run into the cycle body.
LEMMA EnteredByClaim ==
  ASSUME TypeOK, NEW r \in Run, NEW q \in Run, Cycle(r) \/ Faulty(r),
         ~Claim(r), ~ClaimLost(r), pc'[q] \in Body
  PROVE  pc[q] \in Body
<1> USE DEF Body, Critical, Steps, TypeOK, RunsOK
<1>1. CASE pc'[q] = pc[q]
  BY <1>1
<1>2. CASE pc[r] \in Body
  <2>1. q # r => pc'[q] = pc[q]
    BY <1>2 DEF Cycle, Faulty, LoadState, FetchPage, SkipThreads, TakePage,
       GmailDelta, ImapDelta, ResetBackfill, GetThreads, UpsertThreads, AfterUpsert,
       DeleteThreads, PersistHistoryId, PersistBackfillProgress, ReadWindow,
       PruneWindow, PruneFails, ReleaseLock, ReadStatus, PublishStatus, StatusFails,
       Fail, Die, Move, Goto, Idle, ToRelease, Again
  <2> QED BY <1>1, <1>2, <2>1
<1>3. CASE pc[r] \notin Body
  <2>1. LoadState(r) \/ ReleaseLock(r) \/ ReadStatus(r) \/ PublishStatus(r)
          \/ StatusFails(r) \/ Die(r)
    BY <1>3 DEF Cycle, Faulty, FetchPage, SkipThreads, TakePage, GmailDelta,
       ImapDelta, ResetBackfill, GetThreads, UpsertThreads, DeleteThreads,
       PersistHistoryId, PersistBackfillProgress, ReadWindow, PruneWindow, PruneFails,
       Fail, Try
  <2>2. \/ UNCHANGED pc
        \/ \E step \in Steps \ Body : pc' = [pc EXCEPT ![r] = step]
    BY <2>1 DEF LoadState, ReleaseLock, ReadStatus, PublishStatus, StatusFails, Die,
       Move, Goto, Idle, Again
  <2> QED BY <2>2, <1>1
<1> QED BY <1>2, <1>3

\* Only the claim and the release write the lock.
LEMMA LockWriters ==
  ASSUME NEW r \in Run, Cycle(r) \/ Faulty(r), ~Claim(r), ~ClaimLost(r),
         ~ReleaseLock(r)
  PROVE  UNCHANGED <<lock, lastRunId>>
BY DEF Cycle, Faulty, LoadState, FetchPage, SkipThreads, TakePage, GmailDelta,
   ImapDelta, ResetBackfill, GetThreads, UpsertThreads, DeleteThreads,
   PersistHistoryId, PersistBackfillProgress, ReadWindow, PruneWindow, PruneFails,
   ReadStatus, PublishStatus, StatusFails, Fail, Die, lockVars

\* The mailbox touches neither the lock nor the runs.
LEMMA MailboxLeavesRuns ==
  ASSUME MailboxChanges \/ UNCHANGED vars
  PROVE  UNCHANGED <<lock, lastRunId, pc>>
BY DEF MailboxChanges, Deliver, Touch, Archive, Restore, Change, Forget, NewValidity,
   lockVars, vars

\* The release of another run, repeated or after a takeover, never frees the
\* lock under the run that holds it.
THEOREM LockIsHeld == Spec => []LockHeldByOwner
<1>1. Init => LockHeldByOwner
  BY DEF Init, LockHeldByOwner, Critical
<1>2. TypeOK /\ LockHeldByOwner /\ [Next]_vars => LockHeldByOwner'
  <2> SUFFICES ASSUME TypeOK, LockHeldByOwner, [Next]_vars,
                      NEW q \in Run, pc'[q] \in Body, lastRunId' = q
               PROVE  lock' # "free"
    BY DEF LockHeldByOwner, Body
  <2>1. CASE UNCHANGED <<lock, lastRunId>> /\ pc[q] \in Body
    BY <2>1 DEF LockHeldByOwner, Body
  <2>2. CASE MailboxChanges \/ UNCHANGED vars
    BY <2>1, <2>2, MailboxLeavesRuns
  <2>3. CASE LockAges
    BY <2>3 DEF LockAges
  <2>4. ASSUME NEW r \in Run, Cycle(r) \/ Faulty(r) PROVE lock' # "free"
    <3>1. CASE Claim(r) \/ ClaimLost(r)
      BY <3>1, ConstantsAssumption
         DEF Claim, ClaimLost, Idle, Move, Again, Body, Critical, TypeOK, RunsOK,
             LockHeldByOwner
    <3>2. CASE ReleaseLock(r)
      BY <3>2 DEF ReleaseLock, Goto, Move, Again, Body, Critical, TypeOK, RunsOK,
         LockHeldByOwner
    <3>3. CASE ~(Claim(r) \/ ClaimLost(r) \/ ReleaseLock(r))
      BY <2>1, <2>4, <3>3, EnteredByClaim, LockWriters
    <3> QED BY <3>1, <3>2, <3>3
  <2> QED BY <2>2, <2>3, <2>4 DEF Next
<1> QED BY <1>1, <1>2, TypeCorrect, PTL DEF Spec

\* Unless runs outlive their lock, a run inside the cycle body owns a fresh
\* one.  Stronger than OneCycleAtATime, and inductive.
BodyOwnsLock ==
  ~SlowRuns => \A r \in Run : pc[r] \in Body => lastRunId = r /\ lock = "fresh"

LEMMA BodyOwnsLockStep == TypeOK /\ BodyOwnsLock /\ [Next]_vars => BodyOwnsLock'
<1> SUFFICES ASSUME TypeOK, BodyOwnsLock, [Next]_vars, ~SlowRuns,
                    NEW q \in Run, pc'[q] \in Body
             PROVE  lastRunId' = q /\ lock' = "fresh"
  BY DEF BodyOwnsLock
<1>1. CASE UNCHANGED <<lock, lastRunId>> /\ pc[q] \in Body
  BY <1>1 DEF BodyOwnsLock
<1>2. CASE MailboxChanges \/ UNCHANGED vars
  BY <1>1, <1>2, MailboxLeavesRuns
<1>3. CASE LockAges
  BY <1>3 DEF LockAges, BodyOwnsLock, Body
<1>4. ASSUME NEW r \in Run, Cycle(r) \/ Faulty(r)
      PROVE  lastRunId' = q /\ lock' = "fresh"
  <2>1. CASE Claim(r)
    BY <2>1 DEF Claim, Idle, Goto, Move, Body, Critical, TypeOK, RunsOK, BodyOwnsLock
  <2>2. CASE ClaimLost(r)
    BY <2>2 DEF ClaimLost, Again, BodyOwnsLock
  <2>3. CASE ReleaseLock(r)
    \* A late release finds the body's owner in lastRunId and leaves the row alone.
    <3>1. pc[q] \in Body /\ q # r
      BY <2>3 DEF ReleaseLock, Goto, Move, Again, Body, Critical, TypeOK, RunsOK
    <3>2. lastRunId = q /\ lock = "fresh"
      BY <3>1 DEF BodyOwnsLock
    <3> QED BY <2>3, <3>1, <3>2 DEF ReleaseLock
  <2>4. CASE ~(Claim(r) \/ ClaimLost(r) \/ ReleaseLock(r))
    BY <1>1, <1>4, <2>4, EnteredByClaim, LockWriters
  <2> QED BY <2>1, <2>2, <2>3, <2>4
<1> QED BY <1>2, <1>3, <1>4 DEF Next

\* Mutual exclusion of the cycle: the claim's conditional UPDATE admits one
\* run at a time unless runs outlive STALE_LOCK_MS.
THEOREM OneCycle == Spec => []OneCycleAtATime
<1>1. Init => BodyOwnsLock
  BY DEF Init, BodyOwnsLock, Body, Critical
<1>2. BodyOwnsLock => OneCycleAtATime
  BY DEF BodyOwnsLock, OneCycleAtATime, Body
<1> QED BY <1>1, <1>2, BodyOwnsLockStep, TypeCorrect, PTL DEF Spec

\* Who is at work, and whether a contender is refused, as CycleLock sees them.
Working == {r \in Run : pc[r] \in Body}

\* A run that steps without claiming is at work as before, or leaves.
LEMMA StepsOrLeaves ==
  ASSUME TypeOK, NEW r \in Run, Cycle(r) \/ Faulty(r), ~Claim(r), ~ClaimLost(r)
  PROVE  Working' = Working \/ Working' = Working \ {r}
<1>1. \A q \in Run : pc'[q] \in Body => pc[q] \in Body
  BY EnteredByClaim
<1>2. ASSUME NEW q \in Run, q # r PROVE pc'[q] = pc[q]
  <2> USE DEF Body, Critical, Steps, TypeOK, RunsOK
  <2>1. CASE pc[r] \in Body
    BY <1>2, <2>1 DEF Cycle, Faulty, LoadState, FetchPage, SkipThreads, TakePage,
       GmailDelta, ImapDelta, ResetBackfill, GetThreads, UpsertThreads, AfterUpsert,
       DeleteThreads, PersistHistoryId, PersistBackfillProgress, ReadWindow,
       PruneWindow, PruneFails, ReleaseLock, ReadStatus, PublishStatus, StatusFails,
       Fail, Die, Move, Goto, Idle, ToRelease, Again
  <2>2. CASE pc[r] \notin Body
    <3>1. LoadState(r) \/ ReleaseLock(r) \/ ReadStatus(r) \/ PublishStatus(r)
            \/ StatusFails(r) \/ Die(r)
      BY <2>2 DEF Cycle, Faulty, FetchPage, SkipThreads, TakePage, GmailDelta,
         ImapDelta, ResetBackfill, GetThreads, UpsertThreads, DeleteThreads,
         PersistHistoryId, PersistBackfillProgress, ReadWindow, PruneWindow, PruneFails,
         Fail, Try
    <3>2. UNCHANGED pc \/ \E step \in Steps : pc' = [pc EXCEPT ![r] = step]
      BY <3>1 DEF LoadState, ReleaseLock, ReadStatus, PublishStatus, StatusFails, Die,
         Move, Goto, Idle, Again
    <3> QED BY <3>2, <1>2
  <2> QED BY <2>1, <2>2
<1>3. Working' \subseteq Working /\ \A q \in Working : q # r => q \in Working'
  BY <1>1, <1>2 DEF Working
<1> QED BY <1>3

\* claimSyncLockStep and releaseSyncLockStep of sync-connection.ts: without runs
\* that outlive STALE_LOCK_MS, the row implements the lock that CycleLock promises,
\* whatever claims, releases and deaths meet.
THEOREM RowIsLock == ~SlowRuns => (Spec => ImplementsCycleLock)
<1> SUFFICES ASSUME ~SlowRuns PROVE Spec => ImplementsCycleLock
  OBVIOUS
<1> USE DEF Working, Body
<1>1. Init => Lock!Init
  BY DEF Init, Lock!Init, Critical
<1>2. TypeOK /\ BodyOwnsLock /\ [Next]_vars => [Lock!Next]_(Lock!vars)
  <2> SUFFICES ASSUME TypeOK, BodyOwnsLock, [Next]_vars PROVE [Lock!Next]_(Lock!vars)
    OBVIOUS
  <2>1. CASE MailboxChanges \/ UNCHANGED vars
    BY <2>1, MailboxLeavesRuns DEF Lock!vars
  <2>2. CASE LockAges
    <3>1. lock = "fresh" /\ lock' = "stale" /\ pc' = pc
      BY <2>2 DEF LockAges
    <3>2. Working = {}
      BY <2>2 DEF LockAges, BodyOwnsLock
    <3>3. Lock!Free
      BY <3>1, <3>2 DEF Lock!Free
    <3> QED BY <3>3 DEF Lock!Next
  <2>3. ASSUME NEW r \in Run, Cycle(r) \/ Faulty(r) PROVE [Lock!Next]_(Lock!vars)
    <3>1. CASE Claim(r)
      <4>1. CASE lock \in {"free", "stale"}
        \* Branch leads into the body
        <5>1. lock # "fresh" /\ lock' = "fresh" /\ pc' = [pc EXCEPT ![r] = Branch(loc[r])]
          BY <3>1, <4>1 DEF Claim, Goto, Move
        <5>2. Branch(loc[r]) \in Critical \ {"release"}
          BY DEF Branch, Critical, Steps
        <5>3. Working' = Working \union {r}
          BY <5>1, <5>2 DEF TypeOK, RunsOK
        <5>4. Lock!Enter(r)
          BY <5>1, <5>3 DEF Lock!Enter
        <5> QED BY <5>4 DEF Lock!Next
      <4>2. CASE lock \notin {"free", "stale"}
        <5>1. lock' = lock /\ pc' = [pc EXCEPT ![r] = "idle"] /\ pc[r] = "claim"
          BY <3>1, <4>2 DEF Claim, Idle, Move
        <5>2. Working' = Working
          BY <5>1 DEF TypeOK, RunsOK, Critical
        <5> QED BY <5>1, <5>2 DEF Lock!vars
      <4> QED BY <4>1, <4>2
    <3>2. CASE ClaimLost(r)
      <4>1. lock # "fresh" /\ lock' = "fresh" /\ pc' = pc
        BY <3>2 DEF ClaimLost, Again
      <4>2. Lock!TakeInVain
        BY <4>1 DEF Lock!TakeInVain
      <4> QED BY <4>2 DEF Lock!Next
    <3>3. CASE ReleaseLock(r)
      <4>1. Working' = Working
        <5>1. pc[r] = "release" /\ (pc' = pc \/ pc' = [pc EXCEPT ![r] = "status"])
          <6>1. pc[r] = "release" /\ (Again \/ Goto(r, "status"))
            BY <3>3 DEF ReleaseLock
          <6> QED BY <6>1 DEF Goto, Move, Again
        <5> QED BY <5>1 DEF TypeOK, RunsOK, Critical
      <4>2. CASE lastRunId = r /\ lock = "fresh"
        <5>1. Working = {} /\ lock' = "free"
          BY <3>3, <4>2 DEF ReleaseLock, BodyOwnsLock
        <5>2. Lock!Free
          BY <4>1, <4>2, <5>1 DEF Lock!Free
        <5> QED BY <5>2 DEF Lock!Next
      <4>3. CASE ~(lastRunId = r /\ lock = "fresh")
        <5>1. (lock' = "fresh") <=> (lock = "fresh")
          BY <3>3, <4>3 DEF ReleaseLock
        <5> QED BY <4>1, <5>1 DEF Lock!vars
      <4> QED BY <4>2, <4>3
    <3>4. CASE ~(Claim(r) \/ ClaimLost(r) \/ ReleaseLock(r))
      <4>1. lock' = lock
        BY <2>3, <3>4, LockWriters
      <4>2. CASE Working' = Working
        BY <4>1, <4>2 DEF Lock!vars
      <4>3. CASE Working' = Working \ {r} /\ r \in Working
        <5>1. Lock!Leave(r)
          BY <4>1, <4>3 DEF Lock!Leave
        <5> QED BY <5>1 DEF Lock!Next
      <4> QED BY <2>3, <3>4, <4>2, <4>3, StepsOrLeaves
    <3> QED BY <3>1, <3>2, <3>3, <3>4
  <2> QED BY <2>1, <2>2, <2>3 DEF Next
<1>3. Init => BodyOwnsLock
  BY DEF Init, BodyOwnsLock, Critical
<1> QED BY <1>1, <1>2, <1>3, BodyOwnsLockStep, TypeCorrect, PTL DEF Spec, ImplementsCycleLock, Lock!Spec
-----------------------------------------------------------------------------
(* The two stores *)

\* A thread's record is its cached thread or absent, whichever runs write,
\* repeat a step or take the lock over: the transactions write both stores.
THEOREM StoresAgree == Spec => []RecordsMirrorCache
<1>1. Init => RecordsMirrorCache
  BY DEF Init, RecordsMirrorCache, NoThreads
<1>2. TypeOK /\ RecordsMirrorCache /\ [Next]_vars => RecordsMirrorCache'
  <2> SUFFICES ASSUME TypeOK, RecordsMirrorCache, [Next]_vars, NEW t \in Thread,
                      rec'[t] # 0
               PROVE  rec'[t] = cache'[t]
    BY DEF RecordsMirrorCache
  <2>1. CASE UNCHANGED storeVars
    BY <2>1 DEF storeVars, RecordsMirrorCache
  <2>2. CASE MailboxChanges \/ LockAges \/ UNCHANGED vars
    BY <2>1, <2>2 DEF MailboxChanges, Deliver, Touch, Archive, Restore, Change,
       Forget, NewValidity, LockAges, vars
  <2>3. ASSUME NEW r \in Run, Cycle(r) \/ Faulty(r) PROVE rec'[t] = cache'[t]
    <3>1. CASE UpsertThreads(r)
      BY <3>1 DEF UpsertThreads, Merge, RecordsMirrorCache
    <3>2. CASE DeleteThreads(r)
      BY <3>2 DEF DeleteThreads, RecordsMirrorCache
    <3>3. CASE PruneWindow(r)
      BY <3>3 DEF PruneWindow, RecordsMirrorCache
    <3>4. CASE FetchPage(r) \/ SkipThreads(r)
      <4>1. UNCHANGED <<cache, rec>>
        BY <3>4 DEF FetchPage, SkipThreads, TakePage
      <4> QED BY <4>1 DEF RecordsMirrorCache
    <3>5. CASE ~(\/ UpsertThreads(r) \/ DeleteThreads(r) \/ PruneWindow(r)
                \/ FetchPage(r) \/ SkipThreads(r))
      BY <2>1, <2>3, <3>5 DEF Cycle, Faulty, LoadState, Claim, ClaimLost,
         GmailDelta, ImapDelta, ResetBackfill, GetThreads, PersistHistoryId,
         PersistBackfillProgress, ReadWindow, PruneFails, ReleaseLock, ReadStatus, PublishStatus, StatusFails, Fail, Die
    <3> QED BY <3>1, <3>2, <3>3, <3>4, <3>5
  <2> QED BY <2>2, <2>3 DEF Next
<1> QED BY <1>1, <1>2, TypeCorrect, PTL DEF Spec

-----------------------------------------------------------------------------
(* Nothing is missed, but by pages that go past it and cycles that cross *)

\* NothingMissed of a position: cursor c, backfill token k, completed if b; and
\* of a cache.
WalkedTo(k, b, t) == b \/ (k # 0 /\ Date(t) >= k)
ConsumedBy(c, t) ==
  \/ provider = "google" /\ ver[t] <= c.id /\ c.val # 0
  \/ provider = "imap" /\ Date(t) <= c.id /\ c.val = validity
CurrentIn(v, t) == IF provider = "google" THEN v >= ver[t] ELSE dateOf[v] >= Date(t)
Covers(c, k, b, store) ==
  \A t \in inbox \ passed :
    WalkedTo(k, b, t) /\ ConsumedBy(c, t) => CurrentIn(store[t], t)

\* The same of the cache that the upsert of l's threads leaves.
CoversAfter(l, c, k, b) ==
  \A t \in inbox \ (passed \ FetchedBy(l)) :
    WalkedTo(k, b, t) /\ ConsumedBy(c, t) => CurrentIn(Merge(cache, l.threads)[t], t)

\* Version v of thread t is not newer than version w of it.
NotNewer(v, w) == v <= w /\ dateOf[v] <= dateOf[w]

\* The mailbox dates no version after its number.
MailDated ==
  /\ \A t \in Thread : ver[t] <= hist
  /\ \A v \in Hist : dateOf[v] <= v

\* The cache is behind the mailbox.
CacheBehind == \A t \in Thread : NotNewer(cache[t], ver[t])

\* A position lies in the past: in a generation that has been.
Past(c) == c.id <= hist /\ c.val <= validity /\ (c.val = 0 => c = NoCursor)

\* The threads a run has fetched are no older than those cached.
Fresher(l) ==
  \A t \in Thread :
    l.threads[t] # 0 => NotNewer(cache[t], l.threads[t]) /\ NotNewer(l.threads[t], ver[t])

\* A thread reported gone is still gone, or is back with a change to come.
GoneStays(l) ==
  \A t \in l.gone : t \in inbox => ver[t] > l.latest.id /\ ver[t] > cursor.id

\* The cursor a backfill will write: the one it found, or a first one.
Seeding(l) ==
  /\ l.seeded => cursor # NoCursor
  /\ IF provider = "google" /\ ~l.seeded THEN cursor \in {NoCursor, l.latest}
     ELSE cursor = l.latest

\* What run r relies on in each step.
Relies(step, l) ==
  /\ step = "delta" => Loaded(l) /\ complete /\ (provider = "google" => cursor # NoCursor)
  /\ step = "page" /\ l.mode = "backfill" =>
       ~complete /\ Seeding(l) /\ Covers(l.latest, l.token, FALSE, cache)
  /\ step = "page" /\ l.mode # "backfill" => complete /\ l.token = 0 /\ l.mode # "small"
  /\ step = "get" =>
       /\ complete /\ l.mode = "small" /\ provider = "google"
       /\ \A t \in inbox \ (l.changed \union passed) :
            ver[t] <= l.latest.id => cache[t] >= ver[t]
  /\ step = "upsert" =>
       /\ Fresher(l) /\ CoversAfter(l, cursor, token, complete)
       /\ IF l.mode = "backfill"
          THEN ~complete /\ Seeding(l) /\ CoversAfter(l, l.latest, l.next, l.next = 0)
          ELSE complete /\ CoversAfter(l, l.latest, 0, TRUE)
       /\ l.mode = "small" => provider = "google" /\ GoneStays(l)
  /\ step = "evict" =>
       complete /\ provider = "google" /\ Covers(l.latest, 0, TRUE, cache) /\ GoneStays(l)
  /\ step = "persistCursor" => Covers(l.latest, token, complete, cache)
  /\ step = "persistBackfill" =>
       /\ Seeding(l) /\ (complete => l.next = 0)
       /\ Covers(l.latest, l.token, l.next = 0, cache)

RunPast(l) == Past(l.latest) /\ Past(l.top)

\* No other run is in the body of a cycle.
Lone(r) == \A s \in Run \ {r} : pc[s] \notin Body

MissInv ==
  /\ MailDated /\ CacheBehind
  /\ Past(cursor) /\ Covers(cursor, token, complete, cache)
  /\ \A r \in Run : RunPast(loc[r]) /\ Relies(pc[r], loc[r])
  /\ \A r \in Run : pc[r] \in Body => Lone(r)

\* A step of run r.
Others(r) == \A s \in Run \ {r} : pc'[s] = pc[s] /\ loc'[s] = loc[s]

-----------------------------------------------------------------------------
(* Types, and what versions are to each other *)

LEMMA LocalTypes ==
  ASSUME TypeOK, NEW r \in Run
  PROVE  /\ loc[r] \in LocalsOK /\ pc[r] \in Steps
         /\ loc[r].latest \in Cursor /\ loc[r].top \in Cursor
         /\ loc[r].token \in Hist /\ loc[r].next \in Hist
         /\ loc[r].threads \in [Thread -> Hist]
         /\ loc[r].changed \subseteq Thread /\ loc[r].gone \subseteq Thread
  BY LocalsOfRun DEF TypeOK, LocalsOK, RunsOK

LEMMA CursorTypes ==
  \A c \in Cursor : c.id \in Hist /\ c.id \in Nat /\ c.val \in Nat
  BY BoundFacts DEF Cursor, Hist

LEMMA MailTypes ==
  ASSUME TypeOK
  PROVE  /\ hist \in Hist /\ hist \in Nat /\ validity \in Nat /\ validity >= 1
         /\ ver \in [Thread -> Hist] /\ dateOf \in [Hist -> Hist] /\ inbox \subseteq Thread
         /\ cache \in [Thread -> Hist] /\ cursor \in Cursor /\ token \in Hist
         /\ complete \in BOOLEAN /\ passed \subseteq Thread
         /\ \A v \in Hist : v \in Nat /\ dateOf[v] \in Nat
         /\ \A t \in Thread : Date(t) \in Hist /\ Date(t) \in Nat
  BY BoundFacts DEF TypeOK, MailboxOK, StoresOK, ProgressOK, Hist, Date

LEMMA NextChange == ASSUME TypeOK, hist < MaxHist PROVE hist + 1 \in Hist
<1>1. hist \in Nat
  BY MailTypes
<1> QED BY <1>1, BoundFacts DEF Hist

LEMMA NoCursorPast == ASSUME TypeOK PROVE Past(NoCursor)
  BY MailTypes DEF Past, NoCursor

\* A newer version of a thread is current where an older one is.
LEMMA NewerIsCurrent ==
  ASSUME TypeOK, NEW t \in Thread, NEW v \in Hist, NEW w \in Hist,
         NotNewer(v, w), CurrentIn(v, t)
  PROVE  CurrentIn(w, t)
  BY MailTypes DEF NotNewer, CurrentIn, Date

\* A position that covers a cache covers a newer one.
LEMMA NewerIsCovered ==
  ASSUME TypeOK, NEW c, NEW k, NEW b, NEW old \in [Thread -> Hist], NEW new \in [Thread -> Hist],
         Covers(c, k, b, old), \A t \in Thread : NotNewer(old[t], new[t])
  PROVE  Covers(c, k, b, new)
  BY MailTypes, NewerIsCurrent DEF Covers

-----------------------------------------------------------------------------
(* The mailbox *)

\* What a change of the mailbox does to a thread.
LEMMA MailMoves ==
  ASSUME TypeOK, MailDated, MailboxChanges
  PROVE  /\ hist' \in Nat /\ validity' \in Nat /\ hist <= hist' /\ validity <= validity'
         /\ provider' = provider
         /\ UNCHANGED <<progressVars, cache, passed, pc, loc>>
         /\ \A v \in Hist : v <= hist => dateOf'[v] = dateOf[v]
         /\ \A v \in Hist : dateOf'[v] <= v
         /\ \A t \in Thread :
              \/ ver'[t] = ver[t]
              \/ ver'[t] = hist + 1 /\ hist' = hist + 1 /\ dateOf'[ver'[t]] >= Date(t)
         /\ \A t \in inbox' :
              \/ t \in inbox /\ ver'[t] = ver[t]
              \/ /\ ver'[t] = hist + 1 /\ hist' = hist + 1
                 /\ provider = "imap" =>
                      \/ dateOf'[ver'[t]] = hist + 1
                      \/ t \in inbox /\ dateOf'[ver'[t]] = Date(t)
<1>1. UNCHANGED <<progressVars, cache, passed, pc, loc>> /\ provider' = provider
  BY DEF MailboxChanges, Deliver, Touch, Archive, Restore, Change, Forget, NewValidity, storeVars
<1>2. CASE Forget \/ NewValidity
  BY <1>1, <1>2, MailTypes DEF Forget, NewValidity, MailDated
<1>3. ASSUME NEW t \in Thread, NEW d \in Hist, Change(t, d), Date(t) <= d, d <= hist + 1,
             inbox' \subseteq inbox \union {t},
             provider = "imap" /\ t \in inbox' => d = hist + 1 \/ (t \in inbox /\ d = Date(t))
      PROVE  /\ hist' \in Nat /\ validity' \in Nat /\ hist <= hist' /\ validity <= validity'
             /\ \A v \in Hist : v <= hist => dateOf'[v] = dateOf[v]
             /\ \A v \in Hist : dateOf'[v] <= v
             /\ \A u \in Thread :
                  \/ ver'[u] = ver[u]
                  \/ ver'[u] = hist + 1 /\ hist' = hist + 1 /\ dateOf'[ver'[u]] >= Date(u)
             /\ \A u \in inbox' :
                  \/ u \in inbox /\ ver'[u] = ver[u]
                  \/ /\ ver'[u] = hist + 1 /\ hist' = hist + 1
                     /\ provider = "imap" =>
                          \/ dateOf'[ver'[u]] = hist + 1
                          \/ u \in inbox /\ dateOf'[ver'[u]] = Date(u)
  <2>1. /\ hist' = hist + 1 /\ ver' = [ver EXCEPT ![t] = hist + 1]
        /\ dateOf' = [dateOf EXCEPT ![hist + 1] = d] /\ validity' = validity
    BY <1>3 DEF Change
  <2>2. hist + 1 \in Hist
    BY <1>3, NextChange DEF Change
  <2>3. ver'[t] = hist + 1 /\ dateOf'[hist + 1] = d
    BY <2>1, <2>2, MailTypes
  <2>4. \A u \in Thread : u # t => ver'[u] = ver[u]
    BY <2>1, MailTypes
  <2>5. \A v \in Hist : v # hist + 1 => dateOf'[v] = dateOf[v]
    BY <2>1, MailTypes
  <2>6. \A v \in Hist : dateOf'[v] <= v
    BY <1>3, <2>3, <2>5 DEF MailDated
  <2>7. \A v \in Hist : v <= hist => dateOf'[v] = dateOf[v]
    BY <2>5, MailTypes
  <2>8. \A u \in inbox' : u = t \/ u \in inbox
    BY <1>3
  <2>9. \A u \in inbox' : u \in Thread
    BY <2>8, MailTypes
  <2> QED BY <1>3, <2>1, <2>3, <2>4, <2>6, <2>7, <2>8, <2>9, MailTypes
<1>4. ASSUME NEW t \in Thread, Deliver(t) \/ Touch(t) \/ Archive(t) \/ Restore(t)
      PROVE  \E d \in Hist :
               /\ Change(t, d) /\ Date(t) <= d /\ d <= hist + 1
               /\ inbox' \subseteq inbox \union {t}
               /\ provider = "imap" /\ t \in inbox' => d = hist + 1 \/ (t \in inbox /\ d = Date(t))
  <2>1. Date(t) \in Hist /\ Date(t) <= hist + 1
    <3>1. ver[t] \in Hist /\ ver[t] \in Nat /\ ver[t] <= hist /\ dateOf[ver[t]] <= ver[t]
      BY MailTypes DEF MailDated
    <3> QED BY <3>1, MailTypes DEF Date
  <2>2. CASE Deliver(t)
    <3>1. hist + 1 \in Hist
      BY <2>2, NextChange DEF Deliver, Change
    <3> QED BY <2>1, <2>2, <3>1, MailTypes DEF Deliver
  <2>3. CASE Touch(t)
    BY <2>1, <2>3, MailTypes DEF Touch
  <2>4. CASE Archive(t)
    BY <2>1, <2>4, MailTypes DEF Archive
  <2>5. CASE Restore(t)
    BY <2>1, <2>5, MailTypes DEF Restore
  <2> QED BY <1>4, <2>2, <2>3, <2>4, <2>5
<1>5. CASE \E t \in Thread : Deliver(t) \/ Touch(t) \/ Archive(t) \/ Restore(t)
  BY <1>1, <1>3, <1>4, <1>5
<1> QED BY <1>2, <1>5 DEF MailboxChanges

\* What a position claimed to have consumed in a current version it does not
\* claim of another: what has changed it has not consumed.
LEMMA MailKeepsCurrent ==
  ASSUME TypeOK, MailDated, MailboxChanges, NEW c \in Cursor, Past(c), NEW k \in Hist, NEW b,
         NEW t \in inbox', NEW v \in Hist, v <= hist, WalkedTo(k, b, t)', ConsumedBy(c, t)',
         t \in inbox /\ WalkedTo(k, b, t) /\ ConsumedBy(c, t) => CurrentIn(v, t)
  PROVE  CurrentIn(v, t)'
<1>1. /\ c.id \in Nat /\ c.id <= hist /\ provider' = provider
      /\ hist \in Nat /\ hist <= hist'
  BY CursorTypes, MailTypes, MailMoves DEF Past
<1>2. ver'[t] # hist + 1 \/ (provider = "imap" /\ t \in inbox /\ dateOf'[ver'[t]] = Date(t))
  <2> SUFFICES ASSUME ver'[t] = hist + 1
               PROVE  provider = "imap" /\ t \in inbox /\ dateOf'[ver'[t]] = Date(t)
    OBVIOUS
  <2>1. provider # "google"
    <3> SUFFICES ASSUME provider = "google" PROVE FALSE
      OBVIOUS
    <3>1. ver'[t] <= c.id
      BY <1>1 DEF ConsumedBy
    <3> QED BY <1>1, <3>1
  <2>2. provider = "imap" /\ dateOf'[ver'[t]] <= c.id
    BY <1>1, <2>1 DEF ConsumedBy, Date
  <2>3. dateOf'[ver'[t]] # hist + 1
    BY <1>1, <2>2
  <2>4. \/ t \in inbox /\ ver[t] = hist + 1
        \/ dateOf'[ver'[t]] = hist + 1
        \/ t \in inbox /\ dateOf'[ver'[t]] = Date(t)
    BY <2>2, MailMoves
  <2>5. t \in inbox => ver[t] # hist + 1
    BY <1>1, MailTypes DEF MailDated
  <2> QED BY <2>2, <2>3, <2>4, <2>5
<1>3. t \in inbox /\ (ver'[t] = ver[t] \/ (provider = "imap" /\ ver'[t] = hist + 1))
  BY <1>2, MailMoves
<1>4. t \in Thread /\ ver[t] \in Hist /\ ver[t] <= hist
  BY <1>3, MailTypes DEF MailDated
<1>5. dateOf'[ver[t]] = dateOf[ver[t]] /\ dateOf'[v] = dateOf[v]
  BY <1>4, MailMoves
<1>6. dateOf'[ver'[t]] = Date(t)
  BY <1>2, <1>3, <1>5 DEF Date
<1>7. WalkedTo(k, b, t)
  BY <1>6 DEF WalkedTo, Date
<1>8. ConsumedBy(c, t)
  <2>1. CASE provider = "google"
    BY <1>1, <1>3, <2>1 DEF ConsumedBy
  <2>2. CASE provider # "google"
    <3>1. provider = "imap" /\ dateOf'[ver'[t]] <= c.id /\ c.val = validity'
      BY <1>1, <2>2 DEF ConsumedBy, Date
    <3>2. c.val <= validity /\ validity <= validity' /\ validity \in Nat /\ c.val \in Nat
          /\ validity' \in Nat
      BY CursorTypes, MailTypes, MailMoves DEF Past
    <3>3. c.val = validity
      BY <3>1, <3>2
    <3> QED BY <1>6, <3>1, <3>3 DEF ConsumedBy
  <2> QED BY <2>1, <2>2
<1>9. CurrentIn(v, t)
  BY <1>3, <1>7, <1>8
<1> QED
  <2>1. CASE provider = "google"
    BY <1>1, <1>3, <1>9, <2>1 DEF CurrentIn
  <2>2. CASE provider # "google"
    BY <1>1, <1>5, <1>6, <1>9, <2>2 DEF CurrentIn, Date
  <2> QED BY <2>1, <2>2

\* Whatever a position covered it covers still.
LEMMA MailKeepsCovers ==
  ASSUME TypeOK, MailDated, MailboxChanges, NEW c \in Cursor, Past(c), NEW k \in Hist, NEW b,
         NEW store \in [Thread -> Hist], \A t \in Thread : store[t] <= hist,
         Covers(c, k, b, store)
  PROVE  Covers(c, k, b, store)'
<1> SUFFICES ASSUME NEW t \in inbox' \ passed', WalkedTo(k, b, t)', ConsumedBy(c, t)'
             PROVE  CurrentIn(store[t], t)'
  BY DEF Covers
<1>1. passed' = passed /\ t \in Thread
  BY MailMoves, NextTypeOK DEF Next, TypeOK, MailboxOK
<1>2. t \in inbox /\ WalkedTo(k, b, t) /\ ConsumedBy(c, t) => CurrentIn(store[t], t)
  BY <1>1 DEF Covers
<1>3. store[t] \in Hist /\ store[t] <= hist
  BY <1>1
<1> QED BY <1>2, <1>3, MailKeepsCurrent

LEMMA MailKeepsPast ==
  ASSUME TypeOK, MailDated, MailboxChanges, NEW c \in Cursor, Past(c) PROVE Past(c)'
  BY CursorTypes, MailTypes, MailMoves DEF Past

\* A version that is newer than another one stays so.
LEMMA MailKeepsNewer ==
  ASSUME TypeOK, MailDated, MailboxChanges, NEW v \in Hist, NEW w \in Hist, w <= hist,
         NotNewer(v, w)
  PROVE  NotNewer(v, w)'
<1>1. v <= hist
  BY MailTypes DEF NotNewer
<1> QED BY <1>1, MailMoves DEF NotNewer

LEMMA MailKeepsBehind ==
  ASSUME TypeOK, MailDated, MailboxChanges, NEW t \in Thread, NEW v \in Hist,
         NotNewer(v, ver[t])
  PROVE  NotNewer(v, ver[t])'
<1>1. ver[t] \in Hist /\ ver[t] <= hist /\ v <= hist /\ v \in Nat /\ hist \in Nat
  BY MailTypes DEF MailDated, NotNewer
<1>2. dateOf'[v] = dateOf[v] /\ dateOf'[ver[t]] = dateOf[ver[t]]
  BY <1>1, MailMoves
<1>3. v <= ver[t] /\ dateOf[v] <= dateOf[ver[t]] /\ dateOf[v] \in Nat /\ dateOf[ver[t]] \in Nat
  BY <1>1, MailTypes DEF NotNewer
<1>4. CASE ver'[t] = ver[t]
  BY <1>2, <1>3, <1>4 DEF NotNewer
<1>5. CASE ver'[t] = hist + 1 /\ dateOf'[ver'[t]] >= Date(t)
  <2>1. dateOf'[ver'[t]] \in Nat
    <3>1. TypeOK'
      BY NextTypeOK DEF Next
    <3> QED BY <3>1, <1>1 DEF TypeOK, MailboxOK, Hist
  <2>2. v <= ver'[t]
    BY <1>1, <1>5
  <2>3. dateOf[v] <= dateOf'[ver'[t]]
    BY <1>3, <1>5, <2>1 DEF Date
  <2> QED BY <1>2, <2>2, <2>3 DEF NotNewer
<1> QED BY <1>4, <1>5, MailMoves

\* Mail that arrives, moves or changes between two steps of a run takes
\* nothing from what the run relies on.
LEMMA MailKeepsRelies ==
  ASSUME TypeOK, MissInv, MailboxChanges, NEW r \in Run
  PROVE  Relies(pc[r], loc[r])' /\ RunPast(loc[r])'
<1> DEFINE l == loc[r]
<1>1. /\ MailDated /\ CacheBehind /\ Past(l.latest) /\ Past(l.top) /\ Past(cursor)
      /\ Relies(pc[r], l)
  BY DEF MissInv, RunPast
<1>2. /\ l.latest \in Cursor /\ l.top \in Cursor /\ l.token \in Hist /\ l.next \in Hist
      /\ l.threads \in [Thread -> Hist] /\ l.gone \subseteq Thread
  BY LocalTypes
<1>3. /\ provider' = provider /\ token' = token /\ complete' = complete /\ cursor' = cursor
      /\ cache' = cache /\ passed' = passed /\ pc' = pc /\ loc' = loc
  BY <1>1, MailMoves DEF progressVars
<1>4. \A t \in Thread : cache[t] <= hist
  BY <1>1, MailTypes DEF CacheBehind, NotNewer, MailDated
<1>8. l' = l
  BY <1>3
<1> HIDE DEF l
<1>5. \A k \in Hist : \A b : Covers(l.latest, k, b, cache) => Covers(l.latest, k, b, cache)'
  BY <1>1, <1>2, <1>3, <1>4, <1>8, MailTypes, MailKeepsCovers
<1>6. pc[r] = "upsert" => /\ Fresher(l)
                          /\ \A t \in Thread : Merge(cache, l.threads)[t] <= hist
  <2> SUFFICES ASSUME pc[r] = "upsert"
               PROVE  Fresher(l) /\ \A t \in Thread : Merge(cache, l.threads)[t] <= hist
    OBVIOUS
  <2>1. Fresher(l)
    BY <1>1 DEF Relies
  <2>2. \A t \in Thread : l.threads[t] # 0 => l.threads[t] <= ver[t] /\ ver[t] <= hist
    BY <1>1, <2>1 DEF Fresher, NotNewer, MailDated
  <2> QED BY <1>2, <1>4, <2>1, <2>2, MailTypes DEF Merge
<1>7. pc[r] = "upsert" =>
        \A c \in Cursor : \A k \in Hist : \A b :
          Past(c) /\ CoversAfter(l, c, k, b) => CoversAfter(l, c, k, b)'
  <2> SUFFICES ASSUME pc[r] = "upsert", NEW c \in Cursor, NEW k \in Hist, NEW b,
                      Past(c), CoversAfter(l, c, k, b),
                      NEW t \in inbox' \ (passed \ FetchedBy(l)),
                      WalkedTo(k, b, t)', ConsumedBy(c, t)'
               PROVE  CurrentIn(Merge(cache, l.threads)[t], t)'
    BY <1>3, <1>8 DEF CoversAfter, FetchedBy
  <2> DEFINE v == Merge(cache, l.threads)[t]
  <2>1. Merge(cache, l.threads) \in [Thread -> Hist]
    BY <1>2, MailTypes, MergeOK
  <2>2. t \in Thread
    BY NextTypeOK DEF Next, TypeOK, MailboxOK
  <2>3. v \in Hist /\ v <= hist
    BY <1>6, <2>1, <2>2
  <2>4. t \in inbox /\ WalkedTo(k, b, t) /\ ConsumedBy(c, t) => CurrentIn(v, t)
    BY DEF CoversAfter
  <2>5. v' = v
    BY <1>3, <1>8 DEF Merge
  <2> HIDE DEF v
  <2>6. \A w \in Hist : w = v => CurrentIn(w, t)'
    BY <1>1, <2>3, <2>4, MailKeepsCurrent
  <2> QED BY <2>3, <2>5, <2>6 DEF v
<1>9. RunPast(l)'
  BY <1>1, <1>2, <1>8, MailKeepsPast DEF RunPast
<1>10. GoneStays(l) => GoneStays(l)'
  <2> SUFFICES ASSUME GoneStays(l), NEW t \in l.gone, t \in inbox'
               PROVE  ver'[t] > l.latest.id /\ ver'[t] > cursor.id
    BY <1>3, <1>8 DEF GoneStays
  <2>1. /\ l.latest.id <= hist /\ cursor.id <= hist /\ hist \in Nat
        /\ l.latest.id \in Nat /\ cursor.id \in Nat
    BY <1>1, <1>2, CursorTypes, MailTypes DEF Past
  <2>2. CASE t \in inbox /\ ver'[t] = ver[t]
    BY <2>2 DEF GoneStays
  <2>3. CASE ver'[t] = hist + 1
    BY <2>1, <2>3
  <2> QED BY <1>1, <2>2, <2>3, MailMoves
<1>11. Fresher(l) => Fresher(l)'
  <2> SUFFICES ASSUME Fresher(l), NEW t \in Thread, l.threads[t] # 0
               PROVE  NotNewer(cache[t], l.threads[t])' /\ NotNewer(l.threads[t], ver[t])'
    BY <1>8 DEF Fresher
  <2>1. NotNewer(cache[t], l.threads[t]) /\ NotNewer(l.threads[t], ver[t])
    BY DEF Fresher
  <2>2. cache[t] \in Hist /\ l.threads[t] \in Hist /\ ver[t] \in Hist /\ ver[t] <= hist
    BY <1>1, <1>2, MailTypes DEF MailDated
  <2>3. l.threads[t] <= hist
    BY <2>1, <2>2, MailTypes DEF NotNewer
  <2>4. cache'[t] = cache[t] /\ l'.threads[t] = l.threads[t]
    BY <1>3, <1>8
  <2>5. NotNewer(cache[t], l.threads[t])'
    BY <1>1, <2>1, <2>2, <2>3, <2>4, MailKeepsNewer
  <2>6. NotNewer(l.threads[t], ver[t])'
    BY <1>1, <2>1, <2>2, <2>4, MailKeepsBehind
  <2> QED BY <2>5, <2>6
<1>12. ASSUME \A t \in inbox \ (l.changed \union passed) :
                ver[t] <= l.latest.id => cache[t] >= ver[t]
       PROVE  \A t \in inbox' \ (l.changed \union passed) :
                ver'[t] <= l.latest.id => cache[t] >= ver'[t]
  <2> SUFFICES ASSUME NEW t \in inbox' \ (l.changed \union passed), ver'[t] <= l.latest.id
               PROVE  cache[t] >= ver'[t]
    OBVIOUS
  <2>1. l.latest.id <= hist /\ hist \in Nat /\ l.latest.id \in Nat
    BY <1>1, <1>2, CursorTypes, MailTypes DEF Past
  <2>2. ver'[t] # hist + 1
    BY <2>1
  <2> QED BY <1>1, <1>12, <2>2, MailMoves
<1>13. Relies(pc[r], l)'
  <2>1. CASE pc[r] = "delta"
    BY <1>1, <1>3, <1>8, <2>1 DEF Relies, Loaded
  <2>2. CASE pc[r] = "page"
    <3>1. CASE l.mode = "backfill"
      BY <1>1, <1>2, <1>3, <1>5, <1>8, <2>2, <3>1 DEF Relies, Seeding
    <3>2. CASE l.mode # "backfill"
      BY <1>1, <1>3, <1>8, <2>2, <3>2 DEF Relies
    <3> QED BY <3>1, <3>2
  <2>3. CASE pc[r] = "get"
    BY <1>1, <1>3, <1>8, <1>12, <2>3 DEF Relies
  <2>4. CASE pc[r] = "upsert"
    <3>1. Fresher(l)' /\ (l.mode = "small" => provider = "google" /\ GoneStays(l)')
      BY <1>1, <1>10, <1>11, <2>4 DEF Relies
    <3>2. \A c \in Cursor : \A k \in Hist : \A b :
            Past(c) /\ CoversAfter(l, c, k, b) => CoversAfter(l, c, k, b)'
      BY <1>7, <2>4
    <3>3. CoversAfter(l, cursor, token, complete)'
      <4>1. CoversAfter(l, cursor, token, complete)
        BY <1>1, <2>4 DEF Relies
      <4> QED BY <1>1, <1>3, <3>2, <4>1, MailTypes
    <3>4. CASE l.mode = "backfill"
      BY <1>1, <1>2, <1>3, <1>8, <2>4, <3>1, <3>2, <3>3, <3>4 DEF Relies, Seeding
    <3>5. CASE l.mode # "backfill"
      BY <1>1, <1>2, <1>3, <1>8, <2>4, <3>1, <3>2, <3>3, <3>5, HistFacts DEF Relies
    <3> QED BY <3>4, <3>5
  <2>5. CASE pc[r] = "evict"
    BY <1>1, <1>3, <1>5, <1>8, <1>10, <2>5, HistFacts DEF Relies
  <2>6. CASE pc[r] = "persistCursor"
    BY <1>1, <1>3, <1>5, <1>8, <2>6, MailTypes DEF Relies
  <2>7. CASE pc[r] = "persistBackfill"
    BY <1>1, <1>2, <1>3, <1>5, <1>8, <2>7 DEF Relies, Seeding
  <2>8. CASE pc[r] \notin {"delta", "page", "get", "upsert", "evict", "persistCursor",
                          "persistBackfill"}
    BY <1>3, <2>8 DEF Relies
  <2> QED BY <2>1, <2>2, <2>3, <2>4, <2>5, <2>6, <2>7, <2>8
<1> QED BY <1>9, <1>13 DEF l

LEMMA MailInv == ASSUME TypeOK, MissInv, MailboxChanges PROVE MissInv'
<1>1. MailDated'
  <2>1. \A t \in Thread : ver'[t] <= hist'
    <3> TAKE t \in Thread
    <3>1. ver[t] <= hist /\ ver[t] \in Nat /\ hist \in Nat
      BY MailTypes DEF MissInv, MailDated
    <3> QED BY <3>1, MailMoves DEF MissInv
  <2> QED BY <2>1, MailMoves DEF MissInv, MailDated
<1>2. CacheBehind'
  <2> SUFFICES ASSUME NEW t \in Thread PROVE NotNewer(cache[t], ver[t])'
    BY DEF CacheBehind
  <2>1. cache[t] \in Hist /\ NotNewer(cache[t], ver[t]) /\ cache'[t] = cache[t] /\ MailDated
    BY MailTypes, MailMoves DEF MissInv, CacheBehind
  <2> QED BY <2>1, MailKeepsBehind
<1>3. Past(cursor)' /\ Covers(cursor, token, complete, cache)'
  <2>1. /\ MailDated /\ Past(cursor)
        /\ Covers(cursor, token, complete, cache) /\ CacheBehind
    BY DEF MissInv
  <2>2. /\ cursor' = cursor /\ token' = token /\ complete' = complete /\ cache' = cache
        /\ provider' = provider
    BY <2>1, MailMoves DEF progressVars
  <2>3. \A t \in Thread : cache[t] <= hist
    BY <2>1, MailTypes DEF CacheBehind, NotNewer, MailDated
  <2>4. Past(cursor)'
    BY <2>1, <2>2, MailTypes, MailKeepsPast
  <2>5. Covers(cursor, token, complete, cache)'
    BY <2>1, <2>2, <2>3, MailTypes, MailKeepsCovers
  <2> QED BY <2>1, <2>2, <2>4, <2>5
<1>4. \A r \in Run : pc'[r] \in Body => Lone(r)'
  BY MailMoves DEF MissInv, Lone
<1> QED BY <1>1, <1>2, <1>3, <1>4, MailKeepsRelies DEF MissInv

-----------------------------------------------------------------------------
(* The steps of a run *)

LEMMA SameCovers ==
  ASSUME UNCHANGED mailboxVars, passed' = passed, NEW c, NEW k, NEW b, NEW store
  PROVE  Covers(c, k, b, store)' <=> Covers(c, k, b, store)
  BY DEF mailboxVars, Covers, WalkedTo, ConsumedBy, CurrentIn, Date

LEMMA SamePast ==
  ASSUME UNCHANGED mailboxVars
  PROVE  /\ MailDated' <=> MailDated
         /\ \A c : Past(c)' <=> Past(c)
         /\ \A v, w : NotNewer(v, w)' <=> NotNewer(v, w)
  BY DEF mailboxVars, MailDated, Past, NotNewer

LEMMA SameRelies ==
  ASSUME UNCHANGED <<mailboxVars, progressVars, cache, passed>>, NEW step, NEW l
  PROVE  Relies(step, l)' <=> Relies(step, l)
<1>1. /\ provider' = provider /\ inbox' = inbox /\ ver' = ver /\ dateOf' = dateOf
      /\ token' = token /\ complete' = complete /\ cursor' = cursor /\ cache' = cache
      /\ passed' = passed /\ validity' = validity
  BY DEF mailboxVars, progressVars
<1>2. /\ Loaded(l)' <=> Loaded(l)
      /\ Seeding(l)' <=> Seeding(l)
      /\ GoneStays(l)' <=> GoneStays(l)
      /\ Fresher(l)' <=> Fresher(l)
  BY <1>1, SamePast DEF Loaded, Seeding, GoneStays, Fresher, NotNewer
<1>3. \A c, k, b : CoversAfter(l, c, k, b)' <=> CoversAfter(l, c, k, b)
  BY <1>1 DEF CoversAfter, Merge, WalkedTo, ConsumedBy, CurrentIn, Date
<1>4. \A c, k, b, s : Covers(c, k, b, s)' <=> Covers(c, k, b, s)
  BY SameCovers
<1> QED BY <1>1, <1>2, <1>3, <1>4 DEF Relies

\* A run moves on, and what it relies on next holds.
LEMMA Moved ==
  ASSUME TypeOK, MissInv, NEW r \in Run, Others(r),
         UNCHANGED <<mailboxVars, progressVars, cache, passed>>,
         NEW step, NEW l, pc'[r] = step, loc'[r] = l, RunPast(l), Relies(step, l),
         step \in Body => Lone(r)
  PROVE  MissInv'
<1>1. /\ provider' = provider /\ token' = token /\ complete' = complete /\ cursor' = cursor
      /\ cache' = cache /\ ver' = ver
  BY DEF mailboxVars, progressVars
<1>2. MailDated' /\ CacheBehind' /\ Past(cursor)'
  BY <1>1, SamePast DEF CacheBehind, MissInv
<1>3. Covers(cursor, token, complete, cache)'
  BY <1>1, SameCovers DEF MissInv
<1>4. ASSUME NEW s \in Run PROVE Relies(pc[s], loc[s])' /\ RunPast(loc[s])'
  <2>1. CASE s = r
    BY <2>1, SameRelies, SamePast DEF RunPast
  <2>2. CASE s # r
    <3>1. pc'[s] = pc[s] /\ loc'[s] = loc[s]
      BY <2>2 DEF Others
    <3>2. Relies(pc[s], loc[s]) /\ RunPast(loc[s])
      BY DEF MissInv
    <3> QED BY <3>1, <3>2, SameRelies, SamePast DEF RunPast
  <2> QED BY <2>1, <2>2
<1>5. ASSUME NEW s \in Run, pc'[s] \in Body PROVE Lone(s)'
  <2>1. CASE s = r
    BY <1>5, <2>1 DEF Lone, Others
  <2>2. CASE s # r
    <3>1. pc[s] \in Body /\ Lone(s)
      BY <1>5, <2>2 DEF Others, MissInv
    <3>2. step \notin Body
      BY <2>2, <3>1 DEF Lone
    <3> QED BY <3>1, <3>2 DEF Lone, Others
  <2> QED BY <2>1, <2>2
<1> QED BY <1>2, <1>3, <1>4, <1>5 DEF MissInv

\* A run that has ended, or only tidies up, relies on nothing.
LEMMA Tidies ==
  ASSUME NEW step \in {"idle", "claim", "prune", "pruneDelete", "release", "status", "publish"}, NEW l
  PROVE  Relies(step, l)
  BY DEF Relies

\* A step that writes a position, the cache or what was passed is judged in the
\* state after it: no other run relies on anything.
LEMMA Wrote ==
  ASSUME TypeOK, MissInv, NEW r \in Run, Others(r), pc[r] \in Body, UNCHANGED mailboxVars,
         CacheBehind', Past(cursor)', Covers(cursor, token, complete, cache)',
         RunPast(loc[r])', Relies(pc[r], loc[r])'
  PROVE  MissInv'
<1>1. MailDated' /\ Lone(r)
  BY SamePast DEF MissInv
<1>2. ASSUME NEW s \in Run, s # r
      PROVE  pc'[s] \notin Body /\ Relies(pc[s], loc[s])' /\ RunPast(loc[s])'
  <2>1. pc'[s] = pc[s] /\ loc'[s] = loc[s] /\ pc[s] \notin Body /\ RunPast(loc[s])
    BY <1>1, <1>2 DEF Others, Lone, MissInv
  <2>2. Relies(pc[s], loc[s])'
    BY <2>1 DEF Relies, Body, Critical, Steps
  <2> QED BY <2>1, <2>2, SamePast DEF RunPast
<1>3. Lone(r)'
  BY <1>2 DEF Lone
<1>4. \A s \in Run : RunPast(loc[s])' /\ Relies(pc[s], loc[s])' /\ (pc'[s] \in Body => Lone(s)')
  BY <1>2, <1>3
<1> QED BY <1>1, <1>4 DEF MissInv

-----------------------------------------------------------------------------
(* Pages *)

\* What has been fetched is not older than what is cached, and current.
LEMMA FetchedFacts ==
  ASSUME TypeOK, MailDated, CacheBehind, NEW S
  PROVE  /\ Merge(cache, Fetched(S)) \in [Thread -> Hist]
         /\ \A t \in Thread :
              /\ NotNewer(cache[t], Merge(cache, Fetched(S))[t])
              /\ t \in S => CurrentIn(Merge(cache, Fetched(S))[t], t)
              /\ Fetched(S)[t] # 0 => /\ NotNewer(cache[t], Fetched(S)[t])
                                     /\ NotNewer(Fetched(S)[t], ver[t])
<1>1. Fetched(S) \in [Thread -> Hist]
  BY FetchedOK DEF TypeOK
<1>2. Merge(cache, Fetched(S)) \in [Thread -> Hist]
  BY <1>1, MailTypes, MergeOK
<1>3. ASSUME NEW t \in Thread
      PROVE  /\ NotNewer(cache[t], Merge(cache, Fetched(S))[t])
             /\ t \in S => CurrentIn(Merge(cache, Fetched(S))[t], t)
             /\ Fetched(S)[t] # 0 => /\ NotNewer(cache[t], Fetched(S)[t])
                                    /\ NotNewer(Fetched(S)[t], ver[t])
  <2>1. /\ NotNewer(cache[t], ver[t]) /\ NotNewer(cache[t], cache[t]) /\ NotNewer(ver[t], ver[t])
        /\ cache[t] \in Hist /\ ver[t] \in Hist
    BY MailTypes DEF CacheBehind, NotNewer
  <2>2. CASE t \in S /\ ver[t] # 0
    <3>1. Fetched(S)[t] = ver[t] /\ Merge(cache, Fetched(S))[t] = ver[t]
      BY <2>2 DEF Fetched, Merge
    <3>2. CurrentIn(ver[t], t)
      BY <2>1, MailTypes DEF CurrentIn, Date
    <3> QED BY <2>1, <3>1, <3>2
  <2>3. CASE ~(t \in S /\ ver[t] # 0)
    <3>1. Fetched(S)[t] = 0 /\ Merge(cache, Fetched(S))[t] = cache[t]
      BY <2>3 DEF Fetched, Merge
    <3>2. ver[t] = 0 => CurrentIn(cache[t], t)
      <4>1. dateOf[0] <= 0
        BY HistFacts DEF MailDated
      <4>2. 0 \in Hist /\ dateOf[0] \in Nat /\ dateOf[cache[t]] \in Nat /\ cache[t] \in Nat
        BY <2>1, HistFacts, MailTypes
      <4> QED BY <4>1, <4>2 DEF CurrentIn, Date
    <3> QED BY <2>1, <2>3, <3>1, <3>2
  <2> QED BY <2>2, <2>3
<1> QED BY <1>2, <1>3

LEMMA PageIsOfInbox == \A tok, size : Page(tok, size) \subseteq Older(tok) /\ Older(tok) \subseteq inbox
  BY DEF Page, Older

\* A page is walked to its end.
LEMMA PageIsWalked ==
  ASSUME TypeOK, IsFiniteSet(Thread), NEW tok \in Hist, NEW size \in Nat, NEW n \in Hist,
         IsNextToken(n, tok, Page(tok, size)), NEW t \in Older(tok), WalkedTo(n, n = 0, t)
  PROVE  t \in Page(tok, size)
<1>1. CASE Page(tok, size) = Older(tok)
  BY <1>1
<1>2. CASE Page(tok, size) # Older(tok)
  <2>1. PICK u \in Page(tok, size) : n = Date(u)
    BY <1>2 DEF IsNextToken
  <2> DEFINE after(x) == {y \in Older(tok) : Date(y) > Date(x)}
  <2>2. t \in Thread /\ u \in Thread /\ Older(tok) \subseteq Thread
    BY <2>1, PageIsOfInbox, MailTypes
  <2>3. Date(t) >= Date(u)
    BY <2>1, <2>2, MailTypes DEF WalkedTo
  <2>4. after(t) \subseteq after(u)
    BY <2>2, <2>3, MailTypes
  <2>5. IsFiniteSet(after(u)) /\ IsFiniteSet(after(t))
    BY <2>2, FS_Subset
  <2>6. Cardinality(after(t)) <= Cardinality(after(u))
    BY <2>4, <2>5, FS_Subset
  <2>7. Cardinality(after(u)) < size
    BY <2>1 DEF Page
  <2>8. Cardinality(after(t)) \in Nat /\ Cardinality(after(u)) \in Nat
    BY <2>5, FS_CardinalityType
  <2>9. Cardinality(after(t)) < size
    BY <2>6, <2>7, <2>8
  <2> QED BY <2>9 DEF Page
<1> QED BY <1>1, <1>2

-----------------------------------------------------------------------------
(* The steps that read *)

LEMMA LoadInv == ASSUME TypeOK, MissInv, NEW r \in Run, Others(r), LoadState(r) PROVE MissInv'
<1> DEFINE l == [NoLocals EXCEPT !.mode = IF complete THEN "refresh" ELSE "backfill",
                                 !.seeded = cursor # NoCursor,
                                 !.token = IF complete THEN 0 ELSE token,
                                 !.latest = cursor]
<1>1. /\ l.mode = IF complete THEN "refresh" ELSE "backfill"
      /\ l.seeded = (cursor # NoCursor)
      /\ l.token = IF complete THEN 0 ELSE token
      /\ l.latest = cursor /\ l.top = NoCursor
  BY DEF NoLocals
<1>2. pc'[r] = "claim" /\ loc'[r] = l
  BY DEF LoadState, Move, TypeOK, RunsOK
<1>3. UNCHANGED <<mailboxVars, progressVars, cache, passed>>
  BY DEF LoadState, storeVars
<1> HIDE DEF l
<1>4. Relies("claim", l) /\ "claim" \notin Body
  BY Tidies DEF Body, Critical
<1>5. RunPast(l)
  BY <1>1, NoCursorPast DEF RunPast, MissInv
<1> QED BY <1>2, <1>3, <1>4, <1>5, Moved

LEMMA ClaimInv ==
  ASSUME TypeOK, MissInv, NEW r \in Run, Others(r), Claim(r), ~crossed' PROVE MissInv'
<1> DEFINE l == loc[r]
<1>1. UNCHANGED <<mailboxVars, progressVars, cache, passed>> /\ pc[r] = "claim"
  BY DEF Claim, storeVars
<1>2. RunPast(l)
  BY DEF MissInv
<1>3. CASE Idle(r)
  <2>1. pc'[r] = "idle" /\ loc'[r] = NoLocals
    BY <1>3 DEF Idle, Move, TypeOK, RunsOK
  <2>2. RunPast(NoLocals)
    BY NoCursorPast DEF RunPast, NoLocals
  <2>3. "idle" \notin Body
    BY DEF Body, Critical
  <2> QED BY <1>1, <2>1, <2>2, <2>3, Moved, Tidies
<1>4. CASE Goto(r, Branch(l)) /\ ~Crosses(r)
  <2>1. pc'[r] = Branch(l) /\ loc'[r] = l /\ Loaded(l) /\ Lone(r)
    BY <1>4 DEF Goto, Move, TypeOK, RunsOK, Crosses, Lone, Body
  <2>2. CASE Branch(l) = "delta"
    <3>1. Relies("delta", l)
      BY <2>1, <2>2 DEF Branch, Relies, Loaded
    <3> QED BY <1>1, <1>2, <2>1, <2>2, <3>1, Moved
  <2>3. CASE Branch(l) # "delta" /\ l.mode = "backfill"
    <3>1. Branch(l) = "page"
      BY <2>3 DEF Branch
    <3>2. ~complete /\ l.token = token /\ l.latest = cursor /\ (l.seeded <=> cursor # NoCursor)
      BY <2>1, <2>3 DEF Loaded
    <3>3. Seeding(l)
      BY <3>2 DEF Seeding, MissInv
    <3>4. Covers(l.latest, l.token, FALSE, cache)
      BY <3>2 DEF MissInv, Covers, WalkedTo
    <3>5. Relies("page", l)
      BY <2>3, <3>2, <3>3, <3>4 DEF Relies
    <3> QED BY <1>1, <1>2, <2>1, <3>1, <3>5, Moved
  <2>4. CASE Branch(l) # "delta" /\ l.mode # "backfill"
    <3>1. Branch(l) = "page"
      BY <2>4 DEF Branch
    <3>2. Relies("page", l)
      BY <2>1, <2>4 DEF Relies, Loaded
    <3> QED BY <1>1, <1>2, <2>1, <3>1, <3>2, Moved
  <2> QED BY <2>2, <2>3, <2>4
<1> QED BY <1>3, <1>4 DEF Claim

\* What a page leaves to the upsert, where the pages it has gone past are known.
LEMMA AfterPage ==
  ASSUME UNCHANGED <<mailboxVars, cache>>, NEW l, NEW c, NEW k, NEW b,
         \A t \in inbox \ (passed' \ FetchedBy(l)) :
           WalkedTo(k, b, t) /\ ConsumedBy(c, t) => CurrentIn(Merge(cache, l.threads)[t], t)
  PROVE  CoversAfter(l, c, k, b)'
  BY DEF mailboxVars, CoversAfter, FetchedBy, Merge, WalkedTo, ConsumedBy, CurrentIn, Date

\* A page that has been fetched: its threads, once upserted, are current, and
\* those it has gone past are known.
LEMMA TakePageInv ==
  ASSUME TypeOK, MissInv, NEW r \in Run, Others(r),
         NEW got \in SUBSET PageOf(r), TakePage(r, got)
  PROVE  MissInv'
<1> DEFINE l == loc[r]
<1>1. /\ UNCHANGED mailboxVars /\ UNCHANGED progressVars /\ cache' = cache /\ pc[r] = "page"
      /\ passed' = passed \union GoesPast(r, got)
      /\ Relies("page", l) /\ RunPast(l) /\ MailDated /\ CacheBehind
      /\ Past(cursor) /\ Covers(cursor, token, complete, cache)
  BY DEF TakePage, MissInv
<1>2. PICK n \in Hist, top \in Cursor :
        /\ IsNextToken(n, l.token, PageOf(r)) /\ IsTop(top, got)
        /\ Move(r, "upsert",
             [l EXCEPT !.threads = Fetched(got), !.next = n, !.top = top,
                       !.latest = IF Seeds(l, top) THEN top ELSE @])
  BY DEF TakePage
<1> DEFINE latest == IF Seeds(l, top) THEN top ELSE l.latest
           m == [l EXCEPT !.threads = Fetched(got), !.next = n, !.top = top, !.latest = latest]
           new == Merge(cache, Fetched(got))
<1>3. l \in LocalsOK /\ l.token \in Hist
  BY LocalTypes
<1>4. pc'[r] = "upsert" /\ loc'[r] = m
  BY <1>2 DEF Move, TypeOK, RunsOK
<1>5. /\ m.threads = Fetched(got) /\ m.next = n /\ m.top = top /\ m.latest = latest
      /\ m.mode = l.mode /\ m.seeded = l.seeded
  BY <1>3 DEF LocalsOK
<1>6. /\ got \subseteq PageOf(r) /\ PageOf(r) \subseteq Older(l.token)
      /\ Older(l.token) \subseteq inbox /\ inbox \subseteq Thread
  BY PageIsOfInbox, MailTypes DEF PageOf
<1>7. Past(top)
  <2>1. CASE got = {}
    BY <1>2, <2>1, NoCursorPast DEF IsTop
  <2>2. CASE got # {}
    <3>1. PICK t \in got : top = [val |-> 1, id |-> ver[t]]
      BY <1>2, <2>2 DEF IsTop
    <3>2. top.val = 1 /\ top.id = ver[t] /\ t \in Thread
      BY <1>6, <3>1
    <3> QED BY <1>1, <3>2, MailTypes DEF Past, MailDated
  <2> QED BY <2>1, <2>2
<1>8. /\ new \in [Thread -> Hist]
      /\ \A t \in Thread :
           /\ NotNewer(cache[t], new[t])
           /\ t \in got => CurrentIn(new[t], t)
           /\ Fetched(got)[t] # 0 => /\ NotNewer(cache[t], Fetched(got)[t])
                                    /\ NotNewer(Fetched(got)[t], ver[t])
  BY <1>1, FetchedFacts
<1>9. FetchedBy(m) \subseteq got
  BY <1>5 DEF FetchedBy, Fetched
<1> HIDE DEF m, latest, new
<1>10. RunPast(m) /\ Fresher(m)
  BY <1>1, <1>5, <1>7, <1>8 DEF RunPast, latest, Fresher
<1>11. ASSUME NEW t \in inbox \ (passed' \ FetchedBy(m)),
              t \notin got => CurrentIn(cache[t], t)
       PROVE  CurrentIn(new[t], t)
  <2>1. CASE t \in got
    BY <1>6, <1>8, <2>1
  <2>2. CASE t \notin got
    BY <1>6, <1>8, <1>11, <2>2, MailTypes, NewerIsCurrent
  <2> QED BY <2>1, <2>2
<1>12. ASSUME NEW t \in inbox \ (passed' \ FetchedBy(m)), t \notin got
       PROVE  /\ t \notin passed
              /\ \/ CurrentIn(cache[t], t)
                 \/ /\ t \notin PageOf(r) /\ l.mode = "backfill"
                    /\ provider = "google" /\ l.latest = NoCursor => t \in Older(l.token)
  BY <1>1, <1>9, <1>12 DEF GoesPast, Current, CurrentIn
<1>13. \A x, c, k, b : x = m /\ c = cursor /\ k = token /\ b = complete
                      => CoversAfter(x, c, k, b)'
  <2>1. \A t \in inbox \ (passed' \ FetchedBy(m)) :
          WalkedTo(token, complete, t) /\ ConsumedBy(cursor, t) => CurrentIn(new[t], t)
    BY <1>1, <1>11, <1>12 DEF Covers
  <2> QED BY <1>1, <1>5, <2>1, AfterPage DEF new
<1>14. CoversAfter(loc[r], cursor, token, complete)'
  BY <1>1, <1>4, <1>13 DEF progressVars
<1>15. /\ CacheBehind' /\ Past(cursor)' /\ Covers(cursor, token, complete, cache)'
       /\ RunPast(loc[r])' /\ Fresher(loc[r])'
  BY <1>1, <1>4, <1>10, SamePast
     DEF mailboxVars, progressVars, CacheBehind, Covers, WalkedTo, ConsumedBy, CurrentIn, Date,
         RunPast, Fresher
<1>16. pc[r] \in Body /\ pc'[r] = "upsert"
  BY <1>1, <1>4 DEF Body, Critical, Steps
<1>17. CASE l.mode = "backfill"
  <2>1. ~complete /\ Seeding(l) /\ Covers(l.latest, l.token, FALSE, cache)
    BY <1>1, <1>17 DEF Relies
  <2>2. Seeds(l, top) => provider = "google" /\ l.latest = NoCursor
    BY <1>17 DEF Seeds
  <2>3. Seeding(m)
    BY <1>5, <2>1, <2>2 DEF Seeding, latest
  <2>4. ASSUME NEW t \in inbox \ (passed' \ FetchedBy(m)), t \notin got,
               WalkedTo(n, n = 0, t), ConsumedBy(latest, t)
        PROVE  CurrentIn(cache[t], t)
    <3>1. CASE t \in Older(l.token)
      <4>1. PageOf(r) = Page(l.token, PAGE_SIZE)
        BY <1>17 DEF PageOf
      <4>2. PAGE_SIZE \in Nat /\ IsFiniteSet(Thread)
        BY ConstantsAssumption
      <4>3. t \in PageOf(r)
        BY <1>2, <1>3, <2>4, <3>1, <4>1, <4>2, PageIsWalked
      <4> QED BY <1>12, <2>4, <4>3
    <3>2. CASE t \notin Older(l.token)
      <4>1. CASE provider = "google" /\ l.latest = NoCursor
        BY <1>12, <2>4, <3>2, <4>1
      <4>2. CASE ~(provider = "google" /\ l.latest = NoCursor)
        <5>1. l.token # 0 /\ Date(t) >= l.token
          <6>1. l.token # 0 /\ ~(Date(t) < l.token)
            BY <2>4, <3>2 DEF Older
          <6>2. Date(t) \in Nat /\ l.token \in Nat
            BY <1>3, <1>6, MailTypes
          <6> QED BY <6>1, <6>2
        <5>2. latest = l.latest
          BY <2>2, <4>2 DEF latest
        <5> QED BY <1>12, <2>1, <2>4, <5>1, <5>2 DEF Covers, WalkedTo
      <4> QED BY <4>1, <4>2
    <3> QED BY <3>1, <3>2
  <2>5. \A x, c, k : x = m /\ c = latest /\ k = n => CoversAfter(x, c, k, k = 0)'
    <3>1. \A t \in inbox \ (passed' \ FetchedBy(m)) :
            WalkedTo(n, n = 0, t) /\ ConsumedBy(latest, t) => CurrentIn(new[t], t)
      BY <1>11, <2>4
    <3> QED BY <1>1, <1>5, <3>1, AfterPage DEF new
  <2>6. /\ CoversAfter(loc[r], loc[r].latest, loc[r].next, loc[r].next = 0)'
        /\ ~complete' /\ Seeding(loc[r])' /\ loc'[r].mode = "backfill"
    BY <1>1, <1>4, <1>5, <1>17, <2>1, <2>3, <2>5 DEF progressVars, mailboxVars, Seeding
  <2>7. Relies(pc[r], loc[r])'
    BY <1>14, <1>15, <1>16, <2>6 DEF Relies
  <2> QED BY <1>1, <1>15, <1>16, <2>7, Wrote
<1>18. CASE l.mode # "backfill"
  <2>1. complete /\ l.mode # "small"
    BY <1>1, <1>18 DEF Relies
  <2>2. \A x, c, k, b : x = m /\ c = latest => CoversAfter(x, c, k, b)'
    <3>1. \A t \in inbox \ (passed' \ FetchedBy(m)) : CurrentIn(new[t], t)
      BY <1>11, <1>12, <1>18
    <3> QED BY <1>1, <1>5, <3>1, AfterPage DEF new
  <2>3. /\ CoversAfter(loc[r], loc[r].latest, 0, TRUE)'
        /\ complete' /\ loc'[r].mode \notin {"backfill", "small"}
    BY <1>1, <1>4, <1>5, <1>18, <2>1, <2>2 DEF progressVars
  <2>4. Relies(pc[r], loc[r])'
    BY <1>14, <1>15, <1>16, <2>3 DEF Relies
  <2> QED BY <1>1, <1>15, <1>16, <2>4, Wrote
<1> QED BY <1>17, <1>18

LEMMA GmailDeltaInv == ASSUME TypeOK, MissInv, NEW r \in Run, Others(r), GmailDelta(r) PROVE MissInv'
<1> DEFINE l == loc[r]
           changed == ChangedSince(l.latest.id)
           now == [val |-> 1, id |-> hist]
<1>1. /\ UNCHANGED <<mailboxVars, progressVars, cache, passed>> /\ pc[r] = "delta" /\ provider = "google"
      /\ RunPast(l) /\ Covers(cursor, token, complete, cache) /\ Lone(r)
  BY DEF GmailDelta, storeVars, MissInv, Body, Critical, Steps
<1>2. /\ complete /\ cursor # NoCursor /\ l.latest = cursor /\ l.token = 0
  BY <1>1 DEF MissInv, Relies, Loaded
<1>3. l \in LocalsOK
  BY LocalTypes
<1>4. Past(now) /\ now.id = hist /\ cursor.val # 0
  <2>1. cursor.val # 0
    BY <1>2 DEF MissInv, Past
  <2> QED BY <2>1, MailTypes DEF Past
<1>5. \A t \in inbox \ (changed \union passed) : cache[t] >= ver[t]
  <2> SUFFICES ASSUME NEW t \in inbox \ (changed \union passed) PROVE cache[t] >= ver[t]
    OBVIOUS
  <2>1. t \in Thread /\ ver[t] \in Nat /\ cursor.id \in Nat
    BY CursorTypes, MailTypes
  <2>2. ver[t] <= cursor.id
    BY <1>2, <2>1 DEF ChangedSince
  <2>3. CurrentIn(cache[t], t)
    BY <1>1, <1>2, <1>4, <2>2 DEF Covers, WalkedTo, ConsumedBy
  <2> QED BY <1>1, <2>3 DEF CurrentIn
<1> HIDE DEF now, changed
<1>6. CASE Move(r, "page", [l EXCEPT !.mode = "expired"])
  <2> DEFINE m == [l EXCEPT !.mode = "expired"]
  <2>1. m.mode = "expired" /\ m.token = 0 /\ m.latest = l.latest /\ m.top = l.top
    BY <1>2, <1>3 DEF LocalsOK
  <2>2. pc'[r] = "page" /\ loc'[r] = m
    BY <1>6 DEF Move, TypeOK, RunsOK
  <2> HIDE DEF m
  <2>3. Relies("page", m) /\ RunPast(m)
    BY <1>1, <1>2, <2>1 DEF Relies, RunPast
  <2> QED BY <1>1, <2>2, <2>3, Moved
<1>7. CASE Move(r, "page", [l EXCEPT !.mode = "bulk", !.latest = now])
  <2> DEFINE m == [l EXCEPT !.mode = "bulk", !.latest = now]
  <2>1. m.mode = "bulk" /\ m.token = 0 /\ m.latest = now /\ m.top = l.top
    BY <1>2, <1>3 DEF LocalsOK
  <2>2. pc'[r] = "page" /\ loc'[r] = m
    BY <1>7 DEF Move, TypeOK, RunsOK
  <2> HIDE DEF m
  <2>3. Relies("page", m) /\ RunPast(m)
    BY <1>1, <1>2, <1>4, <2>1 DEF Relies, RunPast
  <2> QED BY <1>1, <2>2, <2>3, Moved
<1>8. CASE changed = {} /\ Move(r, "persistCursor", [l EXCEPT !.mode = "small", !.latest = now])
  <2> DEFINE m == [l EXCEPT !.mode = "small", !.latest = now]
  <2>1. m.latest = now /\ m.top = l.top
    BY <1>3 DEF LocalsOK
  <2>2. pc'[r] = "persistCursor" /\ loc'[r] = m
    BY <1>8 DEF Move, TypeOK, RunsOK
  <2> HIDE DEF m
  <2>3. Covers(now, token, complete, cache)
    BY <1>1, <1>5, <1>8 DEF Covers, CurrentIn
  <2>4. Relies("persistCursor", m) /\ RunPast(m)
    BY <1>1, <1>4, <2>1, <2>3 DEF Relies, RunPast
  <2> QED BY <1>1, <2>2, <2>4, Moved
<1>9. CASE Move(r, "get", [l EXCEPT !.mode = "small", !.latest = now, !.changed = changed])
  <2> DEFINE m == [l EXCEPT !.mode = "small", !.latest = now, !.changed = changed]
  <2>1. m.mode = "small" /\ m.latest = now /\ m.changed = changed /\ m.top = l.top
    BY <1>3 DEF LocalsOK
  <2>2. pc'[r] = "get" /\ loc'[r] = m
    BY <1>9 DEF Move, TypeOK, RunsOK
  <2> HIDE DEF m
  <2>3. Relies("get", m) /\ RunPast(m)
    BY <1>1, <1>2, <1>4, <1>5, <2>1 DEF Relies, RunPast
  <2> QED BY <1>1, <2>2, <2>3, Moved
<1> QED BY <1>6, <1>7, <1>8, <1>9 DEF GmailDelta, now, changed

LEMMA ImapDeltaInv == ASSUME TypeOK, MissInv, NEW r \in Run, Others(r), ImapDelta(r) PROVE MissInv'
<1> DEFINE l == loc[r]
           At(uid) == [l EXCEPT !.mode = "imap", !.latest = [val |-> validity, id |-> uid]]
<1>1. /\ UNCHANGED <<mailboxVars, progressVars, cache, passed>> /\ pc[r] = "delta" /\ provider = "imap"
      /\ RunPast(l) /\ Covers(cursor, token, complete, cache) /\ MailDated /\ Lone(r)
  BY DEF ImapDelta, storeVars, MissInv, Body, Critical, Steps
<1>2. /\ complete /\ l.latest = cursor /\ l.token = 0
  BY <1>1 DEF MissInv, Relies, Loaded
<1>3. l \in LocalsOK
  BY LocalTypes
<1>4. \A uid \in Hist : uid <= hist =>
        /\ At(uid).mode = "imap" /\ At(uid).latest = [val |-> validity, id |-> uid]
        /\ At(uid).token = 0 /\ RunPast(At(uid))
  <2> SUFFICES ASSUME NEW uid \in Hist, uid <= hist
               PROVE  /\ At(uid).mode = "imap" /\ At(uid).latest = [val |-> validity, id |-> uid]
                      /\ At(uid).token = 0 /\ RunPast(At(uid))
    OBVIOUS
  <2> DEFINE m == At(uid)
             c == [val |-> validity, id |-> uid]
  <2>1. m.mode = "imap" /\ m.latest = c /\ m.token = 0 /\ m.top = l.top
    BY <1>2, <1>3 DEF LocalsOK
  <2>2. Past(c)
    BY MailTypes DEF Past
  <2> HIDE DEF m, c
  <2>3. RunPast(m)
    BY <1>1, <2>1, <2>2 DEF RunPast
  <2> QED BY <2>1, <2>3 DEF m, c
<1>5. hist \in Hist /\ l.latest.id \in Hist /\ l.latest.id <= hist
  BY <1>1, LocalTypes, CursorTypes, MailTypes DEF RunPast, Past
<1> DEFINE to(step, uid) == Move(r, step, At(uid))
<1>6. ASSUME NEW step, NEW uid \in Hist, to(step, uid)
      PROVE  pc'[r] = step /\ loc'[r] = At(uid)
  BY <1>6 DEF Move, TypeOK, RunsOK
<1>7. CASE to("reset", hist)
  <2>1. Relies("reset", At(hist))
    BY DEF Relies
  <2>2. pc'[r] = "reset" /\ loc'[r] = At(hist)
    BY <1>5, <1>6, <1>7
  <2>3. hist <= hist
    BY MailTypes
  <2>4. RunPast(At(hist))
    BY <1>4, <1>5, <2>3
  <2> HIDE DEF At
  <2> QED BY <1>1, <2>1, <2>2, <2>4, Moved
<1>8. CASE NewerThan(l.latest.id) = {} /\ l.latest.val \in {0, validity}
           /\ to("persistCursor", l.latest.id)
  <2> DEFINE uid == l.latest.id
             m == At(uid)
  <2>1. pc'[r] = "persistCursor" /\ loc'[r] = m
    BY <1>5, <1>6, <1>8
  <2>2. m.latest = [val |-> validity, id |-> uid] /\ RunPast(m)
    BY <1>4, <1>5
  <2> HIDE DEF m
  <2>3. Covers(m.latest, token, complete, cache)
    <3> SUFFICES ASSUME NEW t \in inbox \ passed PROVE CurrentIn(cache[t], t)
      BY DEF Covers
    <3>1. /\ t \in Thread /\ Date(t) \in Nat /\ uid \in Nat /\ cache[t] \in Hist
          /\ dateOf[cache[t]] \in Nat
      BY <1>5, MailTypes
    <3>2. Date(t) <= uid
      BY <1>8, <3>1 DEF NewerThan
    <3>3. CASE cursor.val = validity
      BY <1>1, <1>2, <3>2, <3>3 DEF Covers, WalkedTo, ConsumedBy
    <3>4. CASE cursor.val = 0
      <4>1. cursor = NoCursor
        BY <3>4 DEF MissInv, Past
      <4>2. Date(t) = 0
        BY <1>2, <3>1, <3>2, <4>1 DEF NoCursor
      <4> QED BY <1>1, <3>1, <4>2 DEF CurrentIn
    <3> QED BY <1>2, <1>8, <3>3, <3>4
  <2>4. Relies("persistCursor", m)
    BY <2>3 DEF Relies
  <2> QED BY <1>1, <2>1, <2>2, <2>4, Moved
<1>9. CASE \E t \in NewerThan(l.latest.id) : to("page", Date(t))
  <2>1. PICK t \in NewerThan(l.latest.id) : to("page", Date(t))
    BY <1>9
  <2> DEFINE uid == Date(t)
             m == At(uid)
  <2>2. uid \in Hist /\ uid <= hist
    <3>1. t \in Thread
      BY MailTypes DEF NewerThan
    <3>2. /\ ver[t] \in Hist /\ ver[t] \in Nat /\ ver[t] <= hist /\ dateOf[ver[t]] <= ver[t]
          /\ dateOf[ver[t]] \in Hist /\ dateOf[ver[t]] \in Nat /\ hist \in Nat
      BY <1>1, <3>1, MailTypes DEF MailDated
    <3> QED BY <3>2 DEF Date
  <2>3. pc'[r] = "page" /\ loc'[r] = m
    BY <1>6, <2>1, <2>2
  <2>4. m.mode = "imap" /\ m.token = 0 /\ RunPast(m)
    BY <1>4, <2>2
  <2> HIDE DEF m
  <2>5. Relies("page", m)
    BY <1>2, <2>4 DEF Relies
  <2> QED BY <1>1, <2>3, <2>4, <2>5, Moved
<1> QED BY <1>7, <1>8, <1>9 DEF ImapDelta

LEMMA GetThreadsInv == ASSUME TypeOK, MissInv, NEW r \in Run, Others(r), GetThreads(r) PROVE MissInv'
<1> DEFINE l == loc[r]
           kept == l.changed \intersect (inbox \union Unlabelled)
           m == [l EXCEPT !.threads = Fetched(kept), !.gone = l.changed \ kept, !.changed = {}]
<1>1. /\ UNCHANGED <<mailboxVars, progressVars, cache, passed>> /\ pc[r] = "get"
      /\ RunPast(l) /\ MailDated /\ CacheBehind /\ Lone(r)
      /\ Covers(cursor, token, complete, cache)
  BY DEF GetThreads, storeVars, MissInv, Body, Critical, Steps
<1>2. /\ complete /\ l.mode = "small" /\ provider = "google"
      /\ \A t \in inbox \ (l.changed \union passed) : ver[t] <= l.latest.id => cache[t] >= ver[t]
  BY <1>1 DEF MissInv, Relies
<1>3. l \in LocalsOK
  BY LocalTypes
<1>4. pc'[r] = "upsert" /\ loc'[r] = m
  BY DEF GetThreads, Move, TypeOK, RunsOK
<1> HIDE DEF kept
<1>5. /\ m.threads = Fetched(kept) /\ m.gone = l.changed \ kept /\ m.latest = l.latest
      /\ m.top = l.top /\ m.mode = "small"
  BY <1>2, <1>3 DEF LocalsOK
<1> HIDE DEF m
<1>6. /\ Merge(cache, Fetched(kept)) \in [Thread -> Hist]
      /\ \A t \in Thread :
           /\ NotNewer(cache[t], Merge(cache, Fetched(kept))[t])
           /\ t \in kept => CurrentIn(Merge(cache, Fetched(kept))[t], t)
           /\ Fetched(kept)[t] # 0 => /\ NotNewer(cache[t], Fetched(kept)[t])
                                     /\ NotNewer(Fetched(kept)[t], ver[t])
  BY <1>1, FetchedFacts
<1>7. /\ FetchedBy(m) \subseteq kept
      /\ \A t \in inbox : \/ CurrentIn(Merge(cache, Fetched(kept))[t], t)
                          \/ t \notin l.changed /\ t \notin kept
  BY <1>5, <1>6, MailTypes DEF FetchedBy, Fetched, kept
<1>11. ASSUME NEW t \in inbox \ (passed \ FetchedBy(m)),
              t \notin l.changed /\ t \notin passed => CurrentIn(cache[t], t)
       PROVE  CurrentIn(Merge(cache, Fetched(kept))[t], t)
  <2>1. t \in Thread
    BY MailTypes
  <2> QED BY <1>6, <1>7, <1>11, <2>1, MailTypes, NewerIsCurrent
<1>12. CoversAfter(m, l.latest, 0, TRUE)
  <2> SUFFICES ASSUME NEW t \in inbox \ (passed \ FetchedBy(m)), ConsumedBy(l.latest, t)
               PROVE  CurrentIn(Merge(cache, Fetched(kept))[t], t)
    BY <1>5 DEF CoversAfter
  <2>1. t \notin l.changed /\ t \notin passed => CurrentIn(cache[t], t)
    BY <1>2 DEF CurrentIn, ConsumedBy
  <2> QED BY <1>11, <2>1
<1>13. CoversAfter(m, cursor, token, complete)
  <2> SUFFICES ASSUME NEW t \in inbox \ (passed \ FetchedBy(m)),
                      WalkedTo(token, complete, t), ConsumedBy(cursor, t)
               PROVE  CurrentIn(Merge(cache, Fetched(kept))[t], t)
    BY <1>5 DEF CoversAfter
  <2>1. t \notin passed => CurrentIn(cache[t], t)
    BY <1>1 DEF Covers
  <2> QED BY <1>11, <2>1
<1>8. GoneStays(m)
  BY <1>5 DEF GoneStays, kept
<1>9. Fresher(m)
  BY <1>5, <1>6 DEF Fresher
<1>10. Relies("upsert", m) /\ RunPast(m)
  BY <1>1, <1>2, <1>5, <1>8, <1>9, <1>12, <1>13 DEF Relies, RunPast
<1> QED BY <1>1, <1>4, <1>10, Moved

-----------------------------------------------------------------------------
(* The steps that write *)

LEMMA ResetInv == ASSUME TypeOK, MissInv, NEW r \in Run, Others(r), ResetBackfill(r) PROVE MissInv'
<1> DEFINE l == loc[r]
<1>1. /\ UNCHANGED mailboxVars /\ cache' = cache /\ cursor' = cursor
      /\ token' = 0 /\ complete' = FALSE /\ loc' = loc
      /\ pc[r] \in Body /\ pc'[r] \in {"reset", "persistCursor"}
  BY DEF ResetBackfill, storeVars, Again, Goto, Move, TypeOK, RunsOK, Body, Critical, Steps
<1>2. ver' = ver /\ CacheBehind /\ Past(cursor) /\ RunPast(l)
  BY <1>1 DEF MissInv, mailboxVars
<1>3. CacheBehind' /\ Past(cursor)' /\ RunPast(loc[r])'
  BY <1>1, <1>2, SamePast DEF CacheBehind, RunPast
<1>5. \A c, s : Covers(c, token, complete, s)'
  BY <1>1 DEF Covers, WalkedTo
<1>6. Relies(pc[r], loc[r])'
  BY <1>1, <1>5 DEF Relies
<1> QED BY <1>1, <1>3, <1>5, <1>6, Wrote

\* The upsert, once or again: what is cached gets newer.
LEMMA UpsertInv == ASSUME TypeOK, MissInv, NEW r \in Run, Others(r), UpsertThreads(r) PROVE MissInv'
<1> DEFINE l == loc[r]
           new == Merge(cache, l.threads)
<1>1. /\ UNCHANGED mailboxVars /\ UNCHANGED progressVars /\ cache' = new /\ pc[r] = "upsert"
      /\ Again \/ AfterUpsert(r)
      /\ passed' = passed \ FetchedBy(l) /\ pc[r] \in Body
  BY DEF UpsertThreads, Body, Critical, Steps
<1>2. /\ provider' = provider /\ ver' = ver /\ inbox' = inbox
      /\ token' = token /\ complete' = complete /\ cursor' = cursor
  BY <1>1 DEF mailboxVars, progressVars
<1>3. /\ CacheBehind /\ Past(cursor) /\ RunPast(l)
      /\ CoversAfter(l, cursor, token, complete) /\ Relies("upsert", l)
  BY <1>1 DEF MissInv, Relies
<1>4. l \in LocalsOK /\ l.threads \in [Thread -> Hist] /\ l.token \in Hist /\ l.next \in Hist
  BY LocalTypes
<1>5. new \in [Thread -> Hist]
  BY <1>4, MailTypes, MergeOK
<1>6. \A t \in Thread : /\ new[t] = IF l.threads[t] # 0 THEN l.threads[t] ELSE cache[t]
                        /\ NotNewer(cache[t], new[t]) /\ NotNewer(new[t], ver[t])
  <2> SUFFICES ASSUME NEW t \in Thread
               PROVE  /\ new[t] = IF l.threads[t] # 0 THEN l.threads[t] ELSE cache[t]
                      /\ NotNewer(cache[t], new[t]) /\ NotNewer(new[t], ver[t])
    OBVIOUS
  <2>1. new[t] = IF l.threads[t] # 0 THEN l.threads[t] ELSE cache[t]
    BY DEF Merge
  <2>2. l.threads[t] # 0 => NotNewer(cache[t], l.threads[t]) /\ NotNewer(l.threads[t], ver[t])
    BY <1>3 DEF Relies, Fresher
  <2>3. NotNewer(cache[t], ver[t]) /\ NotNewer(cache[t], cache[t])
    BY <1>3, MailTypes DEF CacheBehind, NotNewer
  <2> HIDE DEF new
  <2> QED BY <2>1, <2>2, <2>3
<1>7. Merge(new, l.threads) = new
  BY DEF Merge
<1> HIDE DEF new
<1>8. CacheBehind'
  BY <1>1, <1>2, <1>6, SamePast DEF CacheBehind
<1>9. Past(cursor)'
  BY <1>1, <1>2, <1>3, SamePast
<1>14. \A c, k, b : CoversAfter(l, c, k, b) => Covers(c, k, b, cache)'
  BY <1>1 DEF mailboxVars, CoversAfter, Covers, WalkedTo, ConsumedBy, CurrentIn, Date, new
<1>10. Covers(cursor, token, complete, cache)'
  BY <1>2, <1>3, <1>14
<1>11. CASE Again
  <2>1. pc' = pc /\ loc' = loc
    BY <1>11 DEF Again
  <2>2. RunPast(loc[r])'
    BY <1>1, <1>3, <2>1, SamePast DEF RunPast
  <2>3. Fresher(l)'
    <3>1. \A t \in Thread : l.threads[t] # 0 =>
             NotNewer(new[t], l.threads[t]) /\ NotNewer(l.threads[t], ver[t])
      BY <1>4, <1>6, MailTypes DEF NotNewer
    <3> QED BY <1>1, <1>2, <2>1, <3>1, SamePast DEF Fresher
  <2>4. \A c, k, b : CoversAfter(l, c, k, b) => CoversAfter(l, c, k, b)'
    <3>1. (Merge(cache, l.threads))' = new /\ FetchedBy(l)' = FetchedBy(l)
      BY <1>1, <1>7, <2>1 DEF Merge, FetchedBy
    <3>2. passed' \ FetchedBy(l) = passed \ FetchedBy(l)
      BY <1>1
    <3> QED BY <1>1, <2>1, <3>1, <3>2
            DEF mailboxVars, CoversAfter, WalkedTo, ConsumedBy, CurrentIn, Date, new
  <2>5. GoneStays(l) => GoneStays(l)'
    BY <1>2, <2>1 DEF GoneStays
  <2>6. Relies("upsert", l)'
    BY <1>2, <1>3, <2>1, <2>3, <2>4, <2>5 DEF Relies, Seeding, new
  <2> QED BY <1>1, <1>8, <1>9, <1>10, <2>1, <2>2, <2>6, Wrote
<1> DEFINE m == [l EXCEPT !.threads = NoThreads]
<1>12. /\ m.mode = l.mode /\ m.latest = l.latest /\ m.top = l.top /\ m.gone = l.gone
       /\ m.next = l.next /\ m.seeded = l.seeded /\ m \in LocalsOK
  BY <1>4, NoThreadsOK DEF LocalsOK
<1>13. ASSUME loc'[r].latest = l.latest, loc'[r].top = l.top, Relies(pc[r], loc[r])'
       PROVE  MissInv'
  <2>1. RunPast(loc[r])'
    BY <1>1, <1>3, <1>13, SamePast DEF RunPast
  <2> QED BY <1>1, <1>8, <1>9, <1>10, <1>13, <2>1, Wrote
<1>15. CASE l.mode = "backfill" /\ AfterUpsert(r)
  <2> DEFINE n == [m EXCEPT !.token = m.next, !.pages = @ + 1]
             last == m.next = 0 \/ m.pages + 1 = BACKFILL_PAGES_PER_CYCLE
  <2>1. ~complete /\ Seeding(l)
        /\ CoversAfter(l, l.latest, l.next, l.next = 0)
    BY <1>3, <1>15 DEF Relies
  <2>2. Move(r, IF last THEN "persistBackfill" ELSE "page", n)
    BY <1>12, <1>15 DEF AfterUpsert
  <2> HIDE DEF last, m
  <2>3. /\ n.mode = "backfill" /\ n.latest = l.latest /\ n.top = l.top /\ n.token = l.next
        /\ n.next = l.next /\ n.seeded = l.seeded
    BY <1>12, <1>15 DEF LocalsOK
  <2>4. loc'[r] = n /\ pc'[r] \in {"persistBackfill", "page"}
    BY <2>2 DEF Move, TypeOK, RunsOK
  <2> HIDE DEF n
  <2>5. /\ loc'[r].mode = "backfill" /\ loc'[r].latest = l.latest /\ loc'[r].top = l.top
        /\ loc'[r].token = l.next /\ loc'[r].next = l.next /\ loc'[r].seeded = l.seeded
    BY <2>3, <2>4
  <2>6. Seeding(loc[r])'
    BY <1>2, <2>1, <2>5 DEF Seeding
  <2>7. \A c, k : c = l.latest /\ k = l.next =>
                  Covers(c, k, k = 0, cache)' /\ Covers(c, k, FALSE, cache)'
    <3>1. CoversAfter(l, l.latest, l.next, FALSE)
      BY <2>1 DEF CoversAfter, WalkedTo
    <3> QED BY <1>14, <2>1, <3>1
  <2>8. Covers(loc[r].latest, loc[r].token, loc[r].next = 0, cache)'
        /\ Covers(loc[r].latest, loc[r].token, FALSE, cache)'
    BY <2>5, <2>7
  <2>9. Relies(pc[r], loc[r])'
    BY <1>2, <2>1, <2>4, <2>5, <2>6, <2>8 DEF Relies
  <2> QED BY <1>13, <2>5, <2>9
<1>16. CASE l.mode # "backfill" /\ AfterUpsert(r)
  <2>1. complete /\ CoversAfter(l, l.latest, 0, TRUE)
    BY <1>3, <1>16 DEF Relies
  <2>2. /\ loc'[r] = m /\ pc'[r] \in {"evict", "persistCursor", "prune"}
        /\ pc'[r] = "evict" => l.mode = "small"
    BY <1>12, <1>16 DEF AfterUpsert, Move, TypeOK, RunsOK
  <2> HIDE DEF m
  <2>3. loc'[r].latest = l.latest /\ loc'[r].top = l.top /\ loc'[r].gone = l.gone
    BY <1>12, <2>2
  <2>4. \A c, k : c = l.latest => Covers(c, k, TRUE, cache)'
    <3>1. \A k : CoversAfter(l, l.latest, k, TRUE)
      BY <2>1 DEF CoversAfter, WalkedTo
    <3> QED BY <1>14, <3>1
  <2>5. \A k : Covers(loc[r].latest, k, TRUE, cache)'
    BY <2>3, <2>4
  <2>6. l.mode = "small" => provider = "google" /\ GoneStays(loc[r])'
    BY <1>2, <1>3, <2>3 DEF Relies, GoneStays
  <2>7. complete'
    BY <1>2, <2>1
  <2>8. Covers(loc[r].latest, token, complete, cache)'
    BY <2>5, <2>7 DEF Covers, WalkedTo
  <2>9. Relies(pc[r], loc[r])'
    BY <1>2, <2>2, <2>5, <2>6, <2>7, <2>8 DEF Relies
  <2> QED BY <1>13, <2>3, <2>9
<1> QED BY <1>1, <1>11, <1>15, <1>16

\* The eviction: what is gone is out of the inbox, or comes back as a change.
LEMMA DeleteInv == ASSUME TypeOK, MissInv, NEW r \in Run, Others(r), DeleteThreads(r) PROVE MissInv'
<1> DEFINE l == loc[r]
           left == [t \in Thread |-> IF t \in l.gone THEN 0 ELSE cache[t]]
<1>1. /\ UNCHANGED mailboxVars /\ UNCHANGED progressVars /\ cache' = left /\ pc[r] = "evict"
      /\ Again \/ Move(r, "persistCursor", [l EXCEPT !.gone = {}])
      /\ passed' = passed /\ pc[r] \in Body
  BY DEF DeleteThreads, Body, Critical, Steps
<1>2. /\ provider' = provider /\ ver' = ver /\ inbox' = inbox
      /\ token' = token /\ complete' = complete /\ cursor' = cursor
  BY <1>1 DEF mailboxVars, progressVars
<1>3. /\ MailDated /\ CacheBehind /\ Past(cursor) /\ RunPast(l)
      /\ Covers(cursor, token, complete, cache)
      /\ complete /\ provider = "google" /\ Covers(l.latest, 0, TRUE, cache) /\ GoneStays(l)
  BY <1>1 DEF MissInv, Relies
<1>4. /\ l \in LocalsOK /\ l.latest.id \in Nat /\ cursor.id \in Nat
      /\ \A t \in Thread : left[t] = IF t \in l.gone THEN 0 ELSE cache[t]
  BY LocalTypes, CursorTypes, MailTypes
<1>5. /\ pc'[r] \in {"evict", "persistCursor"}
      /\ loc'[r].latest = l.latest /\ loc'[r].top = l.top
      /\ pc'[r] = "evict" => loc'[r] = l
  BY <1>1, <1>4 DEF Again, Move, TypeOK, RunsOK, LocalsOK
<1> HIDE DEF left
<1>6. CacheBehind'
  <2>1. \A t \in Thread : NotNewer(left[t], ver[t])
    <3> TAKE t \in Thread
    <3>1. dateOf[0] <= 0 /\ dateOf[0] \in Nat
      BY <1>3, HistFacts, MailTypes DEF MailDated
    <3>2. ver[t] \in Nat /\ dateOf[ver[t]] \in Nat
      BY MailTypes
    <3>3. NotNewer(0, ver[t])
      BY <3>1, <3>2 DEF NotNewer
    <3> QED BY <1>3, <1>4, <3>3 DEF CacheBehind
  <2> QED BY <1>1, <1>2, <2>1, SamePast DEF CacheBehind
<1>7. Past(cursor)' /\ RunPast(loc[r])'
  BY <1>1, <1>2, <1>3, <1>5, SamePast DEF RunPast
<1>8. \A c, k, b : c \in {cursor, l.latest} /\ Covers(c, k, b, cache) => Covers(c, k, b, cache)'
  <2> SUFFICES ASSUME NEW c \in {cursor, l.latest}, NEW k, NEW b, Covers(c, k, b, cache)
               PROVE  Covers(c, k, b, left)
    BY <1>1, SameCovers
  <2> SUFFICES ASSUME NEW t \in inbox \ passed, WalkedTo(k, b, t), ConsumedBy(c, t)
               PROVE  CurrentIn(left[t], t)
    BY DEF Covers
  <2>1. t \in Thread /\ ver[t] \in Nat
    BY MailTypes
  <2>2. ver[t] <= c.id
    BY <1>3 DEF ConsumedBy
  <2>3. t \notin l.gone
    <3> SUFFICES ASSUME t \in l.gone PROVE FALSE
      OBVIOUS
    <3>1. ver[t] > l.latest.id /\ ver[t] > cursor.id
      BY <1>3 DEF GoneStays
    <3> QED BY <1>4, <2>1, <2>2, <3>1
  <2> QED BY <1>4, <2>1, <2>3 DEF Covers
<1>9. Covers(cursor, token, complete, cache)'
  BY <1>2, <1>3, <1>8
<1>10. \A c, k : c = l.latest => Covers(c, k, TRUE, cache)'
  <2>1. \A k : Covers(l.latest, k, TRUE, cache)
    BY <1>3 DEF Covers, WalkedTo
  <2> QED BY <1>8, <2>1
<1>11. \A k : Covers(loc[r].latest, k, TRUE, cache)'
  BY <1>5, <1>10
<1>12. complete' /\ provider' = "google"
  BY <1>2, <1>3
<1>13. Covers(loc[r].latest, token, complete, cache)'
  BY <1>11, <1>12 DEF Covers, WalkedTo
<1>14. pc'[r] = "evict" => GoneStays(loc[r])'
  BY <1>2, <1>3, <1>5 DEF GoneStays
<1>15. Relies(pc[r], loc[r])'
  BY <1>5, <1>11, <1>12, <1>13, <1>14 DEF Relies
<1> QED BY <1>1, <1>6, <1>7, <1>9, <1>15, Wrote

LEMMA PersistCursorInv ==
  ASSUME TypeOK, MissInv, NEW r \in Run, Others(r), PersistHistoryId(r) PROVE MissInv'
<1> DEFINE l == loc[r]
<1>1. /\ UNCHANGED mailboxVars /\ cache' = cache /\ token' = token /\ complete' = complete
      /\ cursor' = IF l.latest = NoCursor THEN cursor ELSE l.latest
      /\ pc[r] = "persistCursor" /\ loc'[r] = l /\ pc'[r] \in {"persistCursor", "prune"}
      /\ passed' = passed /\ pc[r] \in Body
  BY DEF PersistHistoryId, storeVars, Again, Goto, Move, TypeOK, RunsOK, Body, Critical, Steps
<1>2. provider' = provider /\ ver' = ver
  BY <1>1 DEF mailboxVars
<1>3. /\ CacheBehind /\ Past(cursor) /\ RunPast(l)
      /\ Covers(cursor, token, complete, cache) /\ Covers(l.latest, token, complete, cache)
  BY <1>1 DEF MissInv, Relies
<1>4. CacheBehind' /\ RunPast(loc[r])' /\ Past(cursor)'
  BY <1>1, <1>2, <1>3, SamePast DEF CacheBehind, RunPast
<1>5. \A c : c \in {cursor, l.latest} => Covers(c, token, complete, cache)'
  BY <1>1, <1>3, SameCovers
<1>6. Covers(cursor, token, complete, cache)'
  BY <1>1, <1>5
<1>7. Covers(loc[r].latest, token, complete, cache)'
  BY <1>1, <1>5
<1>8. Relies(pc[r], loc[r])'
  BY <1>1, <1>7 DEF Relies
<1> QED BY <1>1, <1>4, <1>6, <1>8, Wrote

LEMMA PersistBackfillInv ==
  ASSUME TypeOK, MissInv, NEW r \in Run, Others(r), PersistBackfillProgress(r) PROVE MissInv'
<1> DEFINE l == loc[r]
<1>1. /\ UNCHANGED mailboxVars /\ cache' = cache /\ token' = l.token
      /\ complete' = (complete \/ l.next = 0)
      /\ cursor' = IF provider = "google" /\ ~l.seeded /\ l.latest # NoCursor
                   THEN l.latest ELSE cursor
      /\ pc[r] = "persistBackfill" /\ loc'[r] = l /\ pc'[r] \in {"persistBackfill", "prune"}
      /\ passed' = passed /\ pc[r] \in Body
  BY DEF PersistBackfillProgress, storeVars, Again, Goto, Move, TypeOK, RunsOK, Body, Critical,
         Steps
<1>2. provider' = provider /\ ver' = ver
  BY <1>1 DEF mailboxVars
<1>3. /\ CacheBehind /\ RunPast(l) /\ Seeding(l)
      /\ complete => l.next = 0
      /\ Covers(l.latest, l.token, l.next = 0, cache)
  BY <1>1 DEF MissInv, Relies
<1>4. cursor' = l.latest
  BY <1>1, <1>3 DEF Seeding
<1>5. complete' <=> l.next = 0
  BY <1>1, <1>3
<1>6. /\ CacheBehind' /\ RunPast(loc[r])' /\ Past(cursor)'
  BY <1>1, <1>2, <1>3, <1>4, SamePast DEF CacheBehind, RunPast
<1>7. Seeding(loc[r])'
  BY <1>1, <1>2, <1>3, <1>4 DEF Seeding
<1>8. \A c, k, n : c = l.latest /\ k = l.token /\ n = l.next => Covers(c, k, n = 0, cache)'
  BY <1>1, <1>3, SameCovers
<1>9. Covers(loc[r].latest, loc[r].token, loc[r].next = 0, cache)'
  BY <1>1, <1>8
<1>10. Covers(cursor, token, complete, cache)'
  <2>1. loc'[r].latest = cursor' /\ loc'[r].token = token' /\ (complete' <=> loc'[r].next = 0)
    BY <1>1, <1>4, <1>5
  <2> QED BY <1>9, <2>1 DEF Covers, WalkedTo
<1>11. Relies(pc[r], loc[r])'
  BY <1>1, <1>5, <1>6, <1>7, <1>9 DEF Relies
<1> QED BY <1>1, <1>6, <1>10, <1>11, Wrote

-----------------------------------------------------------------------------
(* The theorem *)

\* The steps after the work, and those that fail: a run keeps nothing to rely on.
LEMMA TidyInv ==
  ASSUME TypeOK, MissInv, NEW r \in Run, Others(r),
         \/ ReadWindow(r) \/ PruneWindow(r) \/ PruneFails(r) \/ ReleaseLock(r)
         \/ ReadStatus(r) \/ PublishStatus(r) \/ StatusFails(r) \/ Fail(r) \/ Die(r)
  PROVE  MissInv'
<1> DEFINE tidy == {"idle", "prune", "pruneDelete", "release", "status", "publish"}
           l == loc[r]
<1>1. UNCHANGED <<mailboxVars, progressVars, cache, passed>>
  BY DEF ReadWindow, PruneWindow, PruneFails, ReleaseLock, ReadStatus, PublishStatus,
         StatusFails, Fail, Die, storeVars
<1>2. l \in LocalsOK /\ RunPast(l) /\ RunPast(NoLocals)
  BY LocalTypes, NoCursorPast DEF MissInv, RunPast, NoLocals
<1>3. ASSUME NEW step \in tidy, NEW m, Move(r, step, m), RunPast(m),
             step \in Body => pc[r] \in Body
      PROVE  MissInv'
  <2>1. pc'[r] = step /\ loc'[r] = m
    BY <1>3 DEF Move, TypeOK, RunsOK
  <2>2. step \in Body => Lone(r)
    BY <1>3 DEF MissInv
  <2> QED BY <1>1, <1>3, <2>1, <2>2, Moved, Tidies
<1>4. CASE Idle(r)
  BY <1>2, <1>3, <1>4 DEF Idle, Body, Critical
<1>5. ASSUME NEW e, ToRelease(r, e) PROVE MissInv'
  <2> DEFINE m == [NoLocals EXCEPT !.error = e]
  <2>1. m.latest = NoCursor /\ m.top = NoCursor
    BY DEF NoLocals
  <2>2. Move(r, "release", m)
    BY <1>5 DEF ToRelease
  <2> HIDE DEF m
  <2>3. RunPast(m)
    BY <2>1, NoCursorPast DEF RunPast
  <2> QED BY <1>3, <2>2, <2>3 DEF Body
<1>6. ASSUME NEW step \in tidy, NEW gone, Move(r, step, [l EXCEPT !.gone = gone]),
             pc[r] \in Body
      PROVE  MissInv'
  <2> DEFINE m == [l EXCEPT !.gone = gone]
  <2>1. m.latest = l.latest /\ m.top = l.top
    BY <1>2 DEF LocalsOK
  <2>2. Move(r, step, m)
    BY <1>6
  <2> HIDE DEF m
  <2>3. RunPast(m)
    BY <1>2, <2>1 DEF RunPast
  <2> QED BY <1>3, <1>6, <2>2, <2>3
<1>7. ASSUME NEW news, Move(r, "publish", [l EXCEPT !.news = news]) PROVE MissInv'
  <2> DEFINE m == [l EXCEPT !.news = news]
  <2>1. m.latest = l.latest /\ m.top = l.top
    BY <1>2 DEF LocalsOK
  <2>2. Move(r, "publish", m)
    BY <1>7
  <2> HIDE DEF m
  <2>3. RunPast(m)
    BY <1>2, <2>1 DEF RunPast
  <2> QED BY <1>3, <2>2, <2>3 DEF Body, Critical
<1>8. CASE ReadWindow(r) \/ PruneWindow(r) \/ PruneFails(r)
  BY <1>5, <1>6, <1>8 DEF ReadWindow, PruneWindow, PruneFails, Body, Critical, Steps
<1>9. CASE ReleaseLock(r)
  <2>1. CASE Again
    <3>1. pc'[r] = "release" /\ loc'[r] = l
      BY <1>9, <2>1 DEF ReleaseLock, Again
    <3> QED BY <1>1, <1>2, <3>1, Moved, Tidies DEF Body
  <2>2. CASE Goto(r, "status")
    BY <1>2, <1>3, <2>2 DEF Goto, Body, Critical
  <2> QED BY <1>9, <2>1, <2>2 DEF ReleaseLock
<1>10. CASE ReadStatus(r)
  BY <1>4, <1>7, <1>10 DEF ReadStatus
<1>11. CASE PublishStatus(r) \/ StatusFails(r) \/ Die(r)
  BY <1>4, <1>11 DEF PublishStatus, StatusFails, Die
<1>12. CASE Fail(r)
  BY <1>5, <1>12 DEF Fail
<1> QED BY <1>8, <1>9, <1>10, <1>11, <1>12

\* Steps that leave positions, the cache and runs alone.
LEMMA StutterInv ==
  ASSUME MissInv, UNCHANGED <<mailboxVars, progressVars, cache, passed, pc, loc>> PROVE MissInv'
<1>1. /\ provider' = provider /\ token' = token /\ complete' = complete /\ cursor' = cursor
      /\ cache' = cache /\ ver' = ver /\ pc' = pc /\ loc' = loc
  BY DEF mailboxVars, progressVars
<1>2. MailDated' /\ CacheBehind' /\ Past(cursor)'
  BY <1>1, SamePast DEF CacheBehind, MissInv
<1>3. Covers(cursor, token, complete, cache)'
  BY <1>1, SameCovers DEF MissInv
<1>4. \A r \in Run : Relies(pc[r], loc[r])' /\ RunPast(loc[r])'
  BY <1>1, SameRelies, SamePast DEF RunPast, MissInv
<1>5. \A r \in Run : pc'[r] \in Body => Lone(r)'
  BY <1>1 DEF Lone, MissInv
<1> QED BY <1>2, <1>3, <1>4, <1>5 DEF MissInv

LEMMA InitMissInv == Init => MissInv
<1> SUFFICES ASSUME Init PROVE MissInv
  OBVIOUS
<1>1. TypeOK
  BY InitTypeOK
<1>2. MailDated /\ CacheBehind
  <2>1. \A t \in Thread : ver[t] \in Nat /\ ver[t] <= hist
    BY ConstantsAssumption DEF Init, Hist
  <2>2. \A v \in Hist : dateOf[v] = v
    BY DEF Init
  <2>3. 0 \in Hist /\ \A t \in Thread : cache[t] = 0 /\ ver[t] \in Hist
    BY <1>1, HistFacts, MailTypes DEF Init, NoThreads
  <2>4. \A v \in Hist : v \in Nat
    BY HistFacts
  <2> QED BY <2>1, <2>2, <2>3, <2>4 DEF MailDated, CacheBehind, NotNewer
<1>3. Past(cursor) /\ Covers(cursor, token, complete, cache)
  BY <1>1, NoCursorPast DEF Init, Covers, WalkedTo
<1>4. \A r \in Run : Relies(pc[r], loc[r]) /\ RunPast(loc[r])
  BY <1>1, NoCursorPast DEF Init, Relies, RunPast, NoLocals
<1>5. \A r \in Run : pc[r] \notin Body
  BY DEF Init, Body, Critical
<1> QED BY <1>2, <1>3, <1>4, <1>5 DEF MissInv

\* A step of a run is of that run only.
LEMMA StepIsOwn ==
  ASSUME TypeOK, NEW r \in Run, Cycle(r) \/ Faulty(r) PROVE Others(r)
<1> USE DEF Others, Move, Goto, Idle, ToRelease, Again, TypeOK, RunsOK
<1>1. CASE LoadState(r) \/ Claim(r) \/ ClaimLost(r)
  BY <1>1 DEF LoadState, Claim, ClaimLost
<1>2. CASE FetchPage(r) \/ SkipThreads(r)
  BY <1>2 DEF FetchPage, SkipThreads, TakePage
<1>3. CASE GmailDelta(r)
  BY <1>3 DEF GmailDelta
<1>4. CASE ImapDelta(r)
  BY <1>4 DEF ImapDelta
<1>5. CASE ResetBackfill(r) \/ GetThreads(r) \/ DeleteThreads(r)
  BY <1>5 DEF ResetBackfill, GetThreads, DeleteThreads
<1>6. CASE UpsertThreads(r)
  BY <1>6 DEF UpsertThreads, AfterUpsert
<1>7. CASE PersistHistoryId(r) \/ PersistBackfillProgress(r) \/ ReadWindow(r) \/ PruneWindow(r)
  BY <1>7 DEF PersistHistoryId, PersistBackfillProgress, ReadWindow, PruneWindow
<1>8. CASE ReleaseLock(r) \/ ReadStatus(r) \/ PublishStatus(r)
  BY <1>8 DEF ReleaseLock, ReadStatus, PublishStatus
<1>9. CASE PruneFails(r) \/ StatusFails(r) \/ Fail(r) \/ Die(r)
  BY <1>9 DEF PruneFails, StatusFails, Fail, Die
<1> QED BY <1>1, <1>2, <1>3, <1>4, <1>5, <1>6, <1>7, <1>8, <1>9 DEF Cycle, Faulty

LEMMA NextMissInv == ASSUME TypeOK, MissInv, [Next]_vars, ~crossed' PROVE MissInv'
<1>1. CASE MailboxChanges
  BY <1>1, MailInv
<1>2. CASE LockAges \/ UNCHANGED vars
  BY <1>2, StutterInv DEF LockAges, vars, storeVars
<1>3. ASSUME NEW r \in Run, Cycle(r) PROVE MissInv'
  <2>1. Others(r)
    BY <1>3, StepIsOwn
  <2>2. CASE FetchPage(r)
    BY <2>1, <2>2, TakePageInv DEF FetchPage
  <2> QED BY <1>3, <2>1, <2>2, LoadInv, ClaimInv, GmailDeltaInv, ImapDeltaInv, ResetInv,
             GetThreadsInv, UpsertInv, DeleteInv, PersistCursorInv, PersistBackfillInv, TidyInv
          DEF Cycle
<1>4. ASSUME NEW r \in Run, Faulty(r) PROVE MissInv'
  <2>1. Others(r)
    BY <1>4, StepIsOwn
  <2>2. CASE ClaimLost(r)
    BY <2>2, StutterInv DEF ClaimLost, Again, storeVars
  <2>3. CASE SkipThreads(r)
    BY <2>1, <2>3, TakePageInv DEF SkipThreads
  <2> QED BY <1>4, <2>1, <2>2, <2>3, TidyInv DEF Faulty
<1> QED BY <1>1, <1>2, <1>3, <1>4 DEF Next

\* Cycles that have crossed have crossed for good.
LEMMA CrossedStays == ASSUME TypeOK, [Next]_vars, crossed PROVE crossed'
<1>1. CASE MailboxChanges \/ LockAges \/ UNCHANGED vars
  BY <1>1 DEF MailboxChanges, Deliver, Touch, Archive, Restore, Change, Forget, NewValidity,
              LockAges, vars, lockVars
<1>2. ASSUME NEW r \in Run, Cycle(r) \/ Faulty(r) PROVE crossed'
  BY <1>2 DEF Cycle, Faulty, LoadState, Claim, ClaimLost, FetchPage, SkipThreads, TakePage,
     GmailDelta, ImapDelta, ResetBackfill, GetThreads, UpsertThreads, DeleteThreads,
     PersistHistoryId, PersistBackfillProgress, ReadWindow, PruneWindow, PruneFails,
     ReleaseLock, ReadStatus, PublishStatus, StatusFails, Fail, Die, lockVars
<1> QED BY <1>1, <1>2 DEF Next

\* Nothing is missed behind the persisted position: however many runs there
\* are, whatever arrives, moves or changes in the mailbox between two steps of
\* a cycle, whichever step fails, is executed again or is the last one of its
\* run, whatever a list leaves out and however large the inbox is, an inbox
\* thread that the position claims to have consumed is in the cache at that
\* version, unless a page went past it or a cycle has begun on a state that was
\* no longer the connection's.
THEOREM NothingIsMissed == Spec => []NothingMissed
<1> DEFINE Inv == crossed \/ MissInv
<1>1. Init => Inv
  BY InitMissInv
<1>2. TypeOK /\ Inv /\ [Next]_vars => Inv'
  BY NextMissInv, CrossedStays
<1>3. Inv => NothingMissed
  BY DEF MissInv, NothingMissed, Missed, Covers, WalkedTo, ConsumedBy, CurrentIn, Walked, Consumed,
         Current
<1> QED BY <1>1, <1>2, <1>3, TypeCorrect, PTL DEF Spec
=============================================================================
