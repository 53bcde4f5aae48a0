---------------------------- MODULE ProviderOps ----------------------------
(***************************************************************************)
(* The durable outbox of mail actions: the client's optimistic patch and   *)
(* MailOp (hooks/use-thread-previews.ts), the poller's kick                *)
(* (server/sync/server-instance.ts) and the worker that performs the       *)
(* provider call (server/workflows/provider-ops.ts), together with what    *)
(* the sync cycles of SyncCycle do to the patched record.                  *)
(*                                                                         *)
(* One connection, one thread, one flag of it (read, starred): an op sets  *)
(* the flag to a value.  Ops are numbered in order of createdAt.  The flag *)
(* exists twice, at the provider and in the ThreadPreview record; how a    *)
(* sync cycle copies the first to the second depends on the provider.      *)
(* Google's delta has every thread whose labels changed.  Microsoft has no *)
(* delta: each cycle fetches the newest page.  IMAP's delta has new UIDs   *)
(* only, and the page is fetched when there are some.                      *)
(* Several runs of the worker may be alive, one per kick.                  *)
(***************************************************************************)
EXTENDS Integers, FiniteSets

CONSTANTS
  Worker,         \* concurrent runs of processProviderOps
  Instance,       \* warm server instances: each one's poller kicks
  MAX_ATTEMPTS,
  CLAIM_BATCH,
  MAX_ROUNDS,
  MaxOps,         \* bound: user actions
  MaxFaults,      \* bound: deaths, lost kicks and results, rejections,
                  \* threads that sink, deltas that fetch the page
  SlowWorkers     \* may a live run keep its claim past STALE_CLAIM_MS?

Op == 1..MaxOps

ASSUME OpsAssumption ==
  /\ MAX_ATTEMPTS \in Nat \ {0} /\ CLAIM_BATCH \in Nat \ {0} /\ MAX_ROUNDS \in Nat \ {0}
  /\ MaxOps \in Nat /\ MaxFaults \in Nat
  /\ SlowWorkers \in BOOLEAN

VARIABLES
  kind,       \* the provider: "google", "microsoft" or "imap"
  listed,     \* microsoft: the thread is on the newest page of the inbox
  mail,       \* the flag at the provider
  dirty,      \* google: its change of the flag is after the sync cursor
  preview,    \* the flag in the ThreadPreview record
  client,     \* the client: "idle", or "patched" and about to create the op
  value,      \* the value each op sets
  created,    \* ops created
  ops,        \* the MailOp records
  unpolled,   \* <<op, instance>>: the instance's poller has yet to see it
  pc,         \* the step each run executes next
  run,        \* locals of each run
  sync,       \* the step of the sync cycle
  fetched,    \* the values the sync cycle has fetched: {} or one
  taken,      \* the sync cycle has met the change
  faults,     \* faults so far
  repeated    \* history: a finalizeOpStep was executed twice

flagVars == <<kind, listed, mail, dirty>>
clientVars == <<preview, client, value, created>>
opVars == <<ops, unpolled>>
runVars == <<pc, run>>
syncVars == <<sync, fetched, taken>>
faultVars == <<faults, repeated>>
vars == <<flagVars, clientVars, opVars, runVars, syncVars, faultVars>>

\* "none": not created yet; "gone": a done op whose retention has ended.
Statuses == {"none", "pending", "processing", "done", "failed", "gone"}
NoOp == [status |-> "none", attempts |-> 0, stale |-> FALSE]

\* Locals of processProviderOps.
NoRun ==
  [batch  |-> {},                    \* claimed and not yet finalized
   snap   |-> [o \in Op |-> 0],      \* attempts in the records as claimed
   op     |-> 0,                     \* the op executed last
   ok     |-> FALSE,                 \* its result
   round  |-> 0,
   failed |-> FALSE]                 \* anyTerminalFailure

Init ==
  /\ kind \in {"google", "microsoft", "imap"} /\ listed = TRUE
  /\ mail = FALSE /\ dirty = FALSE /\ preview = FALSE
  /\ client = "idle" /\ created = 0
  /\ value = [o \in Op |-> FALSE]
  /\ ops = [o \in Op |-> NoOp] /\ unpolled = {}
  /\ pc = [w \in Worker |-> "idle"] /\ run = [w \in Worker |-> NoRun]
  /\ sync = "idle" /\ fetched = {} /\ taken = FALSE
  /\ faults = 0 /\ repeated = FALSE

Fault == faults < MaxFaults /\ faults' = faults + 1 /\ UNCHANGED repeated

-----------------------------------------------------------------------------
(* The client, and the pollers that ingest what it does *)

\* patchRecords: the optimistic transaction on the preview.  The user asks for
\* what the record does not show.
Patch ==
  /\ client = "idle" /\ created < MaxOps
  /\ preview' = ~preview
  /\ value' = [value EXCEPT ![created + 1] = ~preview]
  /\ client' = "patched"
  /\ UNCHANGED <<flagVars, created, opVars, runVars, syncVars, faultVars>>

\* createMailOps: a transaction of its own, after the patch's.
CreateOp ==
  /\ client = "patched"
  /\ created' = created + 1
  /\ ops' = [ops EXCEPT ![created + 1].status = "pending"]
  /\ unpolled' = unpolled \union {<<created + 1, i>> : i \in Instance}
  /\ client' = "idle"
  /\ UNCHANGED <<flagVars, preview, value, runVars, syncVars, faultVars>>

\* validateTransaction refuses the MailOp; the patch stays.
RejectOp ==
  /\ client = "patched" /\ Fault
  /\ client' = "idle" /\ value' = [value EXCEPT ![created + 1] = FALSE]
  /\ UNCHANGED <<flagVars, preview, created, opVars, runVars, syncVars>>

\* An instance's poller meets the create and starts a run.
Kick(o, i) ==
  /\ <<o, i>> \in unpolled
  /\ unpolled' = unpolled \ {<<o, i>>}
  /\ \E w \in Worker :
       /\ pc[w] = "idle"
       /\ pc' = [pc EXCEPT ![w] = "claim"] /\ run' = [run EXCEPT ![w] = NoRun]
  /\ UNCHANGED <<flagVars, clientVars, ops, syncVars, faultVars>>

\* The instance ends before its poller gets there, skips the action, or the
\* workflow does not start: the error is logged.
LoseKick(o, i) ==
  /\ <<o, i>> \in unpolled /\ Fault
  /\ unpolled' = unpolled \ {<<o, i>>}
  /\ UNCHANGED <<flagVars, clientVars, ops, runVars, syncVars>>

-----------------------------------------------------------------------------
(* A sync cycle, as SyncCycle has it, seen from one thread of the window *)

\* Other mail takes the thread's place on the page, or the thread is archived.
Sinks ==
  /\ kind = "microsoft" /\ listed /\ Fault
  /\ listed' = FALSE
  /\ UNCHANGED <<kind, mail, dirty, clientVars, opVars, runVars, syncVars>>

\* What a cycle fetches of the thread.  Google's delta has it if its labels
\* changed; Microsoft's cycle fetches the page; IMAP's delta has nothing.
Fetchable ==
  IF (kind = "google" /\ dirty) \/ (kind = "microsoft" /\ listed) THEN {mail} ELSE {}

\* A cycle starts and fetches.
Fetch ==
  /\ sync = "idle" /\ sync' = "write"
  /\ fetched' = Fetchable
  /\ taken' = dirty /\ dirty' = FALSE
  /\ UNCHANGED <<kind, listed, mail>>

\* The scheduler's next cycle.
SyncFetch == Fetch /\ UNCHANGED <<clientVars, opVars, runVars, faultVars>>

\* Google's history has expired, or has more than MAX_DELTA_THREAD_FETCH
\* threads, or IMAP's delta has mail: the cycle fetches the page, with or
\* without the thread, and goes on from there.
SyncFetchPage ==
  /\ kind \in {"google", "imap"} /\ sync = "idle" /\ Fault
  /\ sync' = "write" /\ fetched' \in {{}, {mail}}
  /\ taken' = dirty /\ dirty' = FALSE
  /\ UNCHANGED <<kind, listed, mail, clientVars, opVars, runVars>>

\* Variant: the position stored is the provider's when the threads are written.
SyncWriteNow ==
  /\ sync = "write" /\ sync' = "idle" /\ fetched' = {} /\ taken' = FALSE
  /\ preview' = IF fetched = {} THEN preview ELSE TRUE \in fetched
  /\ dirty' = FALSE
  /\ UNCHANGED <<kind, listed, mail, client, value, created, opVars, runVars, faultVars>>

\* Upsert what was fetched, and the position of the fetch with it.
SyncWrite ==
  /\ sync = "write" /\ sync' = "idle" /\ fetched' = {} /\ taken' = FALSE
  /\ preview' = IF fetched = {} THEN preview ELSE TRUE \in fetched
  /\ UNCHANGED <<flagVars, client, value, created, opVars, runVars, faultVars>>

\* The cycle fails: the position stays what it was.
SyncFails ==
  /\ sync = "write" /\ Fault
  /\ sync' = "idle" /\ fetched' = {} /\ taken' = FALSE
  /\ dirty' = (dirty \/ taken)
  /\ UNCHANGED <<kind, listed, mail, clientVars, opVars, runVars>>

-----------------------------------------------------------------------------
(* The worker *)

Move(w, step, l) ==
  pc' = [pc EXCEPT ![w] = step] /\ run' = [run EXCEPT ![w] = l]

\* Variant: whatever is being processed is fair game, stale or not.
ClaimableAny == {o \in Op : ops[o].status \in {"pending", "processing"}}

\* Pending ops, and those whose claim went stale.
Claimable ==
  {o \in Op : \/ ops[o].status = "pending"
              \/ ops[o].status = "processing" /\ ops[o].stale}

\* The CLAIM_BATCH oldest of them.
Batch == {o \in Claimable : Cardinality({p \in Claimable : p < o}) < CLAIM_BATCH}

\* The records once Batch is claimed and the done ops G have been dropped.
Claimed(G) ==
  [o \in Op |->
     IF o \in Batch THEN [ops[o] EXCEPT !.status = "processing", !.stale = FALSE]
     ELSE IF o \in G THEN [ops[o] EXCEPT !.status = "gone"]
     ELSE ops[o]]

\* Done ops older than DONE_RETENTION_MS, if their deletion succeeds.
Retired == SUBSET {o \in Op : ops[o].status = "done"}

\* After the rounds: reconcile if an op failed for good.
AfterRounds(l) == IF l.failed THEN "reconcile" ELSE "idle"

\* claimPendingOpsStep
Claim(w) ==
  /\ pc[w] = "claim"
  /\ \E G \in Retired : ops' = Claimed(G)
  /\ IF Batch = {}
     THEN Move(w, AfterRounds(run[w]), NoRun)
     ELSE Move(w, "execute",
            [run[w] EXCEPT !.batch = Batch,
                           !.snap = [o \in Op |-> IF o \in Batch THEN ops[o].attempts
                                                                  ELSE 0]])
  /\ UNCHANGED <<flagVars, clientVars, unpolled, syncVars, faultVars>>

\* The claim commits, its result is lost and the step is executed again.
ClaimLost(w) ==
  /\ pc[w] = "claim" /\ Batch # {} /\ Fault
  /\ ops' = Claimed({})
  /\ UNCHANGED <<flagVars, clientVars, unpolled, runVars, syncVars>>

\* The provider sets the flag; only Google's history will tell of it.
SetFlag(v) == mail' = v /\ dirty' = (dirty \/ (kind = "google" /\ mail # v))

\* executeOpStep, for the ops of the batch in the order RETURNING gave them,
\* which is any: with effect and success, without effect, or with effect and
\* an error (a timeout).  IMAP's driver goes on to the next folder when one
\* refuses, and answers ok.
Execute(w) ==
  /\ pc[w] = "execute"
  /\ \E o \in run[w].batch, ok \in BOOLEAN :
       /\ \/ SetFlag(value[o])
          \/ (ok => kind = "imap") /\ UNCHANGED <<mail, dirty>>
       /\ Move(w, "finalize", [run[w] EXCEPT !.op = o, !.ok = ok])
  /\ UNCHANGED <<kind, listed, clientVars, opVars, syncVars, faultVars>>

\* The status an op gets.
Outcome(ok, attempts) ==
  IF ok THEN "done" ELSE IF attempts < MAX_ATTEMPTS THEN "pending" ELSE "failed"

\* The record finalizeOpStep publishes, made from the record as it was claimed.
Finalized(l) ==
  [status |-> Outcome(l.ok, l.snap[l.op] + 1), attempts |-> l.snap[l.op] + 1,
   stale |-> ops[l.op].stale]

\* Variant: a run makes one round.
NextStepOnce(l) == IF l.batch # {} THEN "execute" ELSE AfterRounds(l)

\* The next op of the batch, the next round, or the end of the loop.
NextStep(l) ==
  IF l.batch # {} THEN "execute"
  ELSE IF l.round < MAX_ROUNDS THEN "claim" ELSE AfterRounds(l)

\* finalizeOpStep
Finalize(w) ==
  /\ pc[w] = "finalize"
  /\ LET l == run[w]
         left == l.batch \ {l.op}
         after == [l EXCEPT !.batch = left, !.snap[l.op] = 0, !.op = 0, !.ok = FALSE,
                            !.round = IF left = {} THEN @ + 1 ELSE @,
                            !.failed = @ \/ Finalized(l).status = "failed"]
         next == NextStep(after)
     IN /\ ops' = [ops EXCEPT ![l.op] = Finalized(l)]
        /\ Move(w, next, IF next \in {"execute", "claim"} THEN after ELSE NoRun)
  /\ UNCHANGED <<flagVars, clientVars, unpolled, syncVars, faultVars>>

\* The step commits, its result is lost and it will be executed again.
FinalizeLost(w) ==
  /\ pc[w] = "finalize"
  /\ faults < MaxFaults /\ faults' = faults + 1
  /\ repeated' = TRUE
  /\ ops' = [ops EXCEPT ![run[w].op] = Finalized(run[w])]
  /\ UNCHANGED <<flagVars, clientVars, unpolled, runVars, syncVars>>

\* reconcileStep: a one-shot sync, skipped when the cycle lock is taken.
Reconcile(w) ==
  /\ pc[w] = "reconcile"
  /\ IF sync = "idle" THEN Fetch ELSE UNCHANGED <<flagVars, syncVars>>
  /\ Move(w, "idle", NoRun)
  /\ UNCHANGED <<clientVars, opVars, faultVars>>

\* The run is gone for good.
Die(w) ==
  /\ pc[w] # "idle" /\ Fault
  /\ Move(w, "idle", NoRun)
  /\ UNCHANGED <<flagVars, clientVars, opVars, syncVars>>

\* STALE_CLAIM_MS pass.
ClaimAges(o) ==
  /\ ops[o].status = "processing" /\ ~ops[o].stale
  /\ SlowWorkers \/ \A w \in Worker : o \notin run[w].batch
  /\ ops' = [ops EXCEPT ![o].stale = TRUE]
  /\ UNCHANGED <<flagVars, clientVars, unpolled, runVars, syncVars, faultVars>>

-----------------------------------------------------------------------------

Work(w) == Claim(w) \/ Execute(w) \/ Finalize(w) \/ Reconcile(w)
Sync == SyncFetch \/ SyncWrite

Next ==
  \/ Patch \/ CreateOp \/ RejectOp
  \/ \E o \in Op, i \in Instance : Kick(o, i) \/ LoseKick(o, i)
  \/ \E w \in Worker : Work(w) \/ ClaimLost(w) \/ FinalizeLost(w) \/ Die(w)
  \/ \E o \in Op : ClaimAges(o)
  \/ Sync \/ SyncFetchPage \/ SyncFails \/ Sinks

Spec == Init /\ [][Next]_vars

\* The workflow runtime resumes runs, the scheduler keeps starting cycles, a
\* poller polls every second, the client's two transactions are one callback.
Fairness ==
  /\ WF_vars(CreateOp) /\ WF_vars(Sync)
  /\ \A o \in Op, i \in Instance : WF_vars(Kick(o, i))
  /\ \A w \in Worker : WF_vars(Work(w))
FairSpec == Spec /\ Fairness
-----------------------------------------------------------------------------
(* Properties *)

\* Type invariant; an op's attempts never exceed MAX_ATTEMPTS.
TypeOK ==
  /\ kind \in {"google", "microsoft", "imap"} /\ listed \in BOOLEAN
  /\ mail \in BOOLEAN /\ dirty \in BOOLEAN /\ preview \in BOOLEAN
  /\ client \in {"idle", "patched"} /\ created \in 0..MaxOps
  /\ value \in [Op -> BOOLEAN]
  /\ ops \in [Op -> [status : Statuses, attempts : 0..MAX_ATTEMPTS, stale : BOOLEAN]]
  /\ unpolled \subseteq Op \X Instance
  /\ pc \in [Worker -> {"idle", "claim", "execute", "finalize", "reconcile"}]
  /\ run \in [Worker -> [batch : SUBSET Op, snap : [Op -> 0..MAX_ATTEMPTS],
                         op : Op \union {0}, ok : BOOLEAN, round : 0..MAX_ROUNDS,
                         failed : BOOLEAN]]
  /\ sync \in {"idle", "write"} /\ fetched \in SUBSET BOOLEAN /\ taken \in BOOLEAN
  /\ faults \in 0..MaxFaults /\ repeated \in BOOLEAN

\* The ops a run is going to perform.
Ahead(w) == IF pc[w] = "finalize" THEN run[w].batch \ {run[w].op} ELSE run[w].batch

\* "Concurrent runs cannot double-claim": no two runs are going to make the
\* provider call of one op.
NoDoubleClaim ==
  \A v, w \in Worker : v # w => Ahead(v) \intersect Ahead(w) = {}

\* The claim is exclusive, deaths and lost claims included, as long as no run
\* outlives its claim and no finalizeOpStep is executed twice.
ExclusiveClaim == ~SlowWorkers /\ ~repeated => NoDoubleClaim

\* Under the same conditions an op that was done or failed is never picked up
\* or written again, but for the end of its retention: a provider call that
\* succeeded is not repeated after later ones.
SettledStays ==
  [][\A o \in Op : ~SlowWorkers /\ ~repeated' =>
       /\ ops[o].status = "failed" => ops'[o] = ops[o]
       /\ ops[o].status = "done" => ops'[o].status \in {"done", "gone"}
       /\ ops[o].status = "gone" => ops'[o].status = "gone"]_vars

Settled(o) == ops[o].status \in {"done", "failed", "gone"}

\* Without faults every op is settled: kicks, retries and rounds add up.
OpsSettle == \A o \in Op : (ops[o].status # "none") ~> (Settled(o) \/ faults > 0)

\* "Every client's optimistic state converges back": once the user is quiet,
\* the record ends up with the provider's value.
PreviewConverges == <>[](preview = mail)

\* A change of the flag reaches the record by a later cycle: Google reports
\* it, and Microsoft's page has it as long as the thread is on the page.
SeesFlags == kind = "google" \/ (kind = "microsoft" /\ listed)

\* It does, at a provider whose cycles see the flag, when no op failed for
\* good and nothing was lost: the cycle that fetched before the provider call
\* and writes after the client's patch is made good by a later one.
ConvergesUnlessFailed ==
  <>[](\/ preview = mail \/ ~SeesFlags \/ faults > 0
       \/ \E o \in Op : ops[o].status = "failed")
=============================================================================
