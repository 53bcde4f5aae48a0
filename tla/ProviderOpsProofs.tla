------------------------- MODULE ProviderOpsProofs -------------------------
(***************************************************************************)
(* Proofs about ProviderOps, for any number of runs, instances, ops and    *)
(* faults and any batch and retry limits: type correctness, the exclusive  *)
(* claim, and that a settled op is not written again.  At the end, about   *)
(* ThreadList, the path of the threads the sync store does not hold: that  *)
(* a list that counts as fresh is what the provider has.                   *)
(***************************************************************************)
EXTENDS ProviderOps, TLAPS

Local ==
  [batch : SUBSET Op, snap : [Op -> 0..MAX_ATTEMPTS], op : Op \union {0},
   ok : BOOLEAN, round : 0..MAX_ROUNDS, failed : BOOLEAN]

\* The worker's side of the types, and what an op's attempts and a run's
\* rounds are bounded by between two steps.
WorkOK ==
  /\ ops \in [Op -> [status : Statuses, attempts : 0..MAX_ATTEMPTS, stale : BOOLEAN]]
  /\ pc \in [Worker -> {"idle", "claim", "execute", "finalize", "reconcile"}]
  /\ run \in [Worker -> Local]

\* The flag, and the side of the sync cycles.
FlagOK ==
  /\ kind \in {"google", "microsoft", "imap"} /\ listed \in BOOLEAN
  /\ mail \in BOOLEAN /\ dirty \in BOOLEAN
  /\ sync \in {"idle", "write"} /\ fetched \in SUBSET BOOLEAN /\ taken \in BOOLEAN

\* An op that may still be tried has an attempt left, and so has every op in
\* the batch of a run, by the records as claimed; a run has a round left.
TriesLeft ==
  /\ \A o \in Op :
       ops[o].status \in {"none", "pending", "processing"} => ops[o].attempts < MAX_ATTEMPTS
  /\ \A w \in Worker : \A o \in run[w].batch : run[w].snap[o] < MAX_ATTEMPTS
  /\ \A w \in Worker : run[w].round < MAX_ROUNDS

\* A run has a batch only between its claim and its last finalize, and
\* finalizes an op of it.
BatchInUse ==
  \A w \in Worker :
    /\ pc[w] \notin {"execute", "finalize"} => run[w].batch = {}
    /\ pc[w] = "finalize" => run[w].op \in run[w].batch

\* Runs know of no op that has not been created.
OnlyCreated ==
  /\ client = "patched" => created < MaxOps
  /\ \A o \in Op : o > created => ops[o].status = "none"
  /\ \A w \in Worker : \A o \in run[w].batch : o <= created

\* The claim: an op in the batch of a run is being processed, its claim has
\* not gone stale, and no other run has it.
Held ==
  /\ \A w \in Worker : \A o \in run[w].batch :
       ops[o].status = "processing" /\ ~ops[o].stale
  /\ \A v, w \in Worker : v # w => run[v].batch \intersect run[w].batch = {}

Inv ==
  /\ TypeOK /\ TriesLeft /\ BatchInUse /\ OnlyCreated
  /\ ~SlowWorkers /\ ~repeated => Held


-----------------------------------------------------------------------------
(* Steps that leave the ops and the runs alone *)

LEMMA Bounds ==
  /\ MAX_ATTEMPTS \in Nat \ {0} /\ MAX_ROUNDS \in Nat \ {0}
  /\ MaxOps \in Nat /\ MaxFaults \in Nat /\ Op \subseteq Nat \ {0}
  BY OpsAssumption DEF Op

LEMMA FaultCounted ==
  ASSUME faults \in 0..MaxFaults, faults < MaxFaults, faults' = faults + 1
  PROVE  faults' \in 0..MaxFaults
  BY Bounds

LEMMA NoRunOK == NoRun \in Local /\ NoRun.batch = {} /\ NoRun.round = 0
  BY Bounds DEF NoRun, Local

LEMMA InitInv == Init => Inv
<1> SUFFICES ASSUME Init PROVE Inv
  OBVIOUS
<1>1. NoOp \in [status : Statuses, attempts : 0..MAX_ATTEMPTS, stale : BOOLEAN]
  BY Bounds DEF NoOp, Statuses
<1>2. TypeOK
  <2>1. /\ ops \in [Op -> [status : Statuses, attempts : 0..MAX_ATTEMPTS, stale : BOOLEAN]]
        /\ run \in [Worker -> Local]
    BY <1>1, NoRunOK DEF Init
  <2>2. 0 \in 0..MaxOps /\ 0 \in 0..MaxFaults
    BY Bounds
  <2> QED BY <2>1, <2>2 DEF Init, TypeOK, Local
<1>3. \A w \in Worker : run[w] = NoRun /\ pc[w] = "idle"
  BY DEF Init
<1>4. \A o \in Op : ops[o] = NoOp
  BY DEF Init
<1>5. TriesLeft
  BY <1>3, <1>4, NoRunOK, Bounds DEF TriesLeft, NoOp
<1>6. BatchInUse
  BY <1>3, NoRunOK DEF BatchInUse
<1>7. OnlyCreated
  BY <1>3, <1>4, NoRunOK DEF OnlyCreated, NoOp, Init
<1>8. Held
  BY <1>3, NoRunOK DEF Held
<1> QED BY <1>2, <1>5, <1>6, <1>7, <1>8 DEF Inv

\* A step of the client or of the sync cycle that creates no op.
LEMMA AsideInv ==
  ASSUME Inv, UNCHANGED <<ops, created, runVars, repeated>>, TypeOK',
         client' = "patched" => created < MaxOps
  PROVE  Inv'
<1>1. TriesLeft' /\ BatchInUse'
  BY DEF Inv, TriesLeft, BatchInUse, runVars
<1>2. OnlyCreated'
  BY DEF Inv, OnlyCreated, runVars
<1>3. ~SlowWorkers /\ ~repeated' => Held'
  BY DEF Inv, Held, runVars
<1> QED BY <1>1, <1>2, <1>3 DEF Inv

LEMMA PatchInv == Inv /\ Patch => Inv'
<1> SUFFICES ASSUME Inv, Patch PROVE Inv'
  OBVIOUS
<1>1. TypeOK'
  BY Bounds DEF Inv, TypeOK, Patch, flagVars, opVars, runVars, syncVars, faultVars
<1>2. created < MaxOps /\ UNCHANGED <<ops, created, runVars, repeated>>
  BY DEF Patch, opVars, faultVars
<1> QED BY <1>1, <1>2, AsideInv

LEMMA RejectInv == Inv /\ RejectOp => Inv'
<1> SUFFICES ASSUME Inv, RejectOp PROVE Inv'
  OBVIOUS
<1>1. faults' \in 0..MaxFaults /\ repeated' = repeated
  BY FaultCounted DEF Inv, TypeOK, RejectOp, Fault
<1>2. TypeOK'
  BY <1>1 DEF Inv, TypeOK, RejectOp, flagVars, opVars, runVars, syncVars
<1>3. client' # "patched" /\ UNCHANGED <<ops, created, runVars, repeated>>
  BY <1>1 DEF RejectOp, opVars
<1> QED BY <1>2, <1>3, AsideInv

LEMMA LoseKickInv ==
  ASSUME Inv, NEW o \in Op, NEW i \in Instance, LoseKick(o, i) PROVE Inv'
<1>1. faults' \in 0..MaxFaults /\ repeated' = repeated
  BY FaultCounted DEF Inv, TypeOK, LoseKick, Fault
<1>2. TypeOK'
  BY <1>1 DEF Inv, TypeOK, LoseKick, flagVars, clientVars, runVars, syncVars
<1>3. client' = client /\ UNCHANGED <<ops, created, runVars, repeated>>
  BY <1>1 DEF LoseKick, clientVars
<1> QED BY <1>2, <1>3, AsideInv DEF Inv, OnlyCreated

LEMMA FetchTypeOK == ASSUME TypeOK, Fetch PROVE FlagOK'
  BY DEF TypeOK, FlagOK, Fetch, Fetchable

LEMMA SyncInv == Inv /\ (Sync \/ SyncFetchPage \/ SyncFails \/ Sinks) => Inv'
<1> SUFFICES ASSUME Inv, Sync \/ SyncFetchPage \/ SyncFails \/ Sinks PROVE Inv'
  OBVIOUS
<1>1. /\ UNCHANGED <<ops, unpolled, created, runVars, repeated>>
      /\ UNCHANGED <<client, value>>
  BY DEF Sync, SyncFetch, SyncFetchPage, SyncWrite, SyncFails, Sinks, Fault,
         clientVars, opVars, runVars, faultVars
<1>2. FlagOK' /\ preview' \in BOOLEAN /\ faults' \in 0..MaxFaults
  <2>1. CASE SyncFetch
    BY <2>1, FetchTypeOK DEF SyncFetch, clientVars, faultVars, Inv, TypeOK
  <2>2. CASE SyncWrite
    <3>1. (TRUE \in fetched) \in BOOLEAN
      OBVIOUS
    <3>2. preview' \in BOOLEAN
      BY <2>2, <3>1 DEF SyncWrite, Inv, TypeOK
    <3> QED BY <2>2, <3>2 DEF SyncWrite, flagVars, faultVars, FlagOK, Inv, TypeOK
  <2>3. CASE SyncFails
    <3>1. faults' \in 0..MaxFaults
      BY <2>3, FaultCounted DEF SyncFails, Fault, Inv, TypeOK
    <3>2. (dirty \/ taken) \in BOOLEAN
      OBVIOUS
    <3> QED BY <2>3, <3>1, <3>2 DEF SyncFails, clientVars, FlagOK, Inv, TypeOK
  <2>4. CASE SyncFetchPage \/ Sinks
    <3>1. faults' \in 0..MaxFaults
      BY <2>4, FaultCounted DEF SyncFetchPage, Sinks, Fault, Inv, TypeOK
    <3> QED BY <2>4, <3>1
         DEF SyncFetchPage, Sinks, clientVars, syncVars, FlagOK, Inv, TypeOK
  <2> QED BY <2>1, <2>2, <2>3, <2>4 DEF Sync
<1>3. TypeOK'
  BY <1>1, <1>2 DEF Inv, TypeOK, FlagOK, runVars
<1> QED BY <1>1, <1>3, AsideInv DEF Inv, OnlyCreated

-----------------------------------------------------------------------------
(* Steps of the ops and of the runs *)

OpRecord == [status : Statuses, attempts : 0..MAX_ATTEMPTS, stale : BOOLEAN]
Step == {"idle", "claim", "execute", "finalize", "reconcile"}

\* A run that moves on, and the others that do not.
LEMMA MoveFacts ==
  ASSUME WorkOK, NEW w \in Worker, NEW step \in Step, NEW l \in Local, Move(w, step, l)
  PROVE  /\ pc' \in [Worker -> Step] /\ run' \in [Worker -> Local]
         /\ pc'[w] = step /\ run'[w] = l
         /\ \A v \in Worker : v # w => pc'[v] = pc[v] /\ run'[v] = run[v]
  BY DEF WorkOK, Move, Step

\* What the records must satisfy after a step.
OpsKept ==
  /\ ops \in [Op -> OpRecord]
  /\ \A o \in Op :
       ops[o].status \in {"none", "pending", "processing"} => ops[o].attempts < MAX_ATTEMPTS
  /\ \A o \in Op : o > created => ops[o].status = "none"

\* What the locals of a run must satisfy after its step.
Sound(step, l) ==
  /\ l \in Local /\ l.round < MAX_ROUNDS
  /\ \A o \in l.batch : l.snap[o] < MAX_ATTEMPTS /\ o <= created
  /\ step \notin {"execute", "finalize"} => l.batch = {}
  /\ step = "finalize" => l.op \in l.batch

LEMMA WorkTyped == Inv => WorkOK /\ OpsKept
  BY DEF Inv, TypeOK, WorkOK, TriesLeft, OnlyCreated, OpsKept, OpRecord, Local

LEMMA RunIsSound ==
  ASSUME Inv, NEW w \in Worker PROVE Sound(pc[w], run[w]) /\ pc[w] \in Step
  BY WorkTyped DEF Inv, WorkOK, TriesLeft, BatchInUse, OnlyCreated, Sound, Step

LEMMA NoRunSound == \A step \in {"idle", "claim", "reconcile"} : Sound(step, NoRun)
  BY NoRunOK, Bounds DEF Sound

\* The step of one run: everything but the claim follows from its locals.
LEMMA WorkerInv ==
  ASSUME Inv, NEW w \in Worker, NEW step \in Step, NEW l,
         Move(w, step, l), Sound(step, l), OpsKept',
         UNCHANGED clientVars, unpolled' \subseteq unpolled,
         FlagOK', faults' \in 0..MaxFaults, repeated' \in BOOLEAN,
         ~SlowWorkers /\ ~repeated' => Held'
  PROVE  Inv'
<1>1. /\ pc' \in [Worker -> Step] /\ run' \in [Worker -> Local]
      /\ pc'[w] = step /\ run'[w] = l
      /\ \A v \in Worker : v # w => pc'[v] = pc[v] /\ run'[v] = run[v]
  BY WorkTyped, MoveFacts DEF Sound
<1>2. TypeOK'
  <2>1. /\ preview' \in BOOLEAN /\ client' \in {"idle", "patched"}
        /\ value' \in [Op -> BOOLEAN] /\ created' \in 0..MaxOps
        /\ unpolled' \subseteq Op \X Instance
    BY DEF Inv, TypeOK, clientVars
  <2> QED BY <1>1, <2>1 DEF TypeOK, FlagOK, OpsKept, OpRecord, Local, Step
<1>3. \A v \in Worker : Sound(pc'[v], run'[v])
  BY <1>1, RunIsSound
<1>4. TriesLeft' /\ BatchInUse'
  BY <1>3 DEF TriesLeft, BatchInUse, Sound, OpsKept
<1>5. OnlyCreated'
  BY <1>3 DEF Inv, OnlyCreated, Sound, OpsKept, clientVars
<1> QED BY <1>2, <1>4, <1>5 DEF Inv

\* A run gives up what it has: the claim of the others is untouched.
LEMMA EmptyHeld ==
  ASSUME Inv, NEW w \in Worker, NEW step \in Step, Move(w, step, NoRun),
         UNCHANGED ops, ~SlowWorkers, ~repeated
  PROVE  Held'
<1>1. /\ run'[w] = NoRun
      /\ \A v \in Worker : v # w => run'[v] = run[v]
  BY WorkTyped, MoveFacts, NoRunOK
<1> QED BY <1>1, NoRunOK DEF Inv, Held

LEMMA KickInv ==
  ASSUME Inv, NEW o \in Op, NEW i \in Instance, Kick(o, i) PROVE Inv'
<1>1. PICK w \in Worker : Move(w, "claim", NoRun)
  BY DEF Kick, Move
<1>2. /\ UNCHANGED <<kind, listed, mail, dirty, ops, sync, fetched, taken, faults, repeated>>
      /\ UNCHANGED clientVars /\ unpolled' \subseteq unpolled
  BY DEF Kick, flagVars, syncVars, faultVars
<1>3. OpsKept'
  BY <1>2, WorkTyped DEF OpsKept, clientVars
<1>4. FlagOK' /\ faults' \in 0..MaxFaults /\ repeated' \in BOOLEAN
  BY <1>2 DEF Inv, TypeOK, FlagOK
<1>5. ~SlowWorkers /\ ~repeated' => Held'
  BY <1>1, <1>2, EmptyHeld DEF Step
<1> QED BY <1>1, <1>2, <1>3, <1>4, <1>5, NoRunSound, WorkerInv DEF Step

LEMMA ReconcileInv == ASSUME Inv, NEW w \in Worker, Reconcile(w) PROVE Inv'
<1>1. /\ Move(w, "idle", NoRun)
      /\ UNCHANGED <<ops, unpolled, faults, repeated>> /\ UNCHANGED clientVars
  BY DEF Reconcile, opVars, faultVars
<1>2. FlagOK'
  <2>1. CASE Fetch
    BY <2>1, FetchTypeOK DEF Inv
  <2>2. CASE UNCHANGED <<flagVars, syncVars>>
    BY <2>2 DEF Inv, TypeOK, FlagOK, flagVars, syncVars
  <2> QED BY <2>1, <2>2 DEF Reconcile
<1>3. OpsKept'
  BY <1>1, WorkTyped DEF OpsKept, clientVars
<1>4. faults' \in 0..MaxFaults /\ repeated' \in BOOLEAN
  BY <1>1 DEF Inv, TypeOK
<1>5. ~SlowWorkers /\ ~repeated' => Held'
  BY <1>1, EmptyHeld DEF Step
<1> QED BY <1>1, <1>2, <1>3, <1>4, <1>5, NoRunSound, WorkerInv DEF Step

LEMMA DieInv == ASSUME Inv, NEW w \in Worker, Die(w) PROVE Inv'
<1>1. /\ Move(w, "idle", NoRun) /\ repeated' = repeated
      /\ UNCHANGED <<kind, listed, mail, dirty, ops, unpolled, sync, fetched, taken>>
      /\ UNCHANGED clientVars
  BY DEF Die, Fault, flagVars, opVars, syncVars
<1>2. faults' \in 0..MaxFaults
  BY FaultCounted DEF Inv, TypeOK, Die, Fault
<1>3. OpsKept'
  BY <1>1, WorkTyped DEF OpsKept, clientVars
<1>4. FlagOK' /\ repeated' \in BOOLEAN
  BY <1>1 DEF Inv, TypeOK, FlagOK
<1>5. ~SlowWorkers /\ ~repeated' => Held'
  BY <1>1, EmptyHeld DEF Step
<1> QED BY <1>1, <1>2, <1>3, <1>4, <1>5, NoRunSound, WorkerInv DEF Step

\* The op that is created is one that nothing knows of.
LEMMA CreateInv == Inv /\ CreateOp => Inv'
<1> SUFFICES ASSUME Inv, CreateOp PROVE Inv'
  OBVIOUS
<1> DEFINE n == created + 1
<1>1. n \in Op /\ n \in 0..MaxOps /\ ops[n].status = "none" /\ ops[n] \in OpRecord
  BY Bounds DEF Inv, OnlyCreated, TypeOK, CreateOp, Op, OpRecord
<1>2. /\ ops' = [ops EXCEPT ![n] = [@ EXCEPT !.status = "pending"]]
      /\ created' = n /\ client' = "idle"
      /\ unpolled' = unpolled \union {<<n, i>> : i \in Instance}
      /\ UNCHANGED <<kind, listed, mail, dirty, preview, value, pc, run>>
      /\ UNCHANGED <<sync, fetched, taken, faults, repeated>>
  BY DEF CreateOp, flagVars, runVars, syncVars, faultVars
<1> HIDE DEF n
<1>3. /\ ops' \in [Op -> OpRecord]
      /\ ops'[n].status = "pending" /\ ops'[n].attempts = ops[n].attempts
      /\ \A o \in Op : o # n => ops'[o] = ops[o]
  BY <1>1, <1>2, WorkTyped DEF WorkOK, OpRecord, Statuses
<1>4. TypeOK'
  BY <1>1, <1>2, <1>3 DEF Inv, TypeOK, OpRecord
<1>5. TriesLeft'
  BY <1>1, <1>2, <1>3 DEF Inv, TriesLeft
<1>6. BatchInUse'
  BY <1>2 DEF Inv, BatchInUse
<1>7. created \in Nat /\ n = created + 1
  BY DEF Inv, TypeOK, n
<1>8. OnlyCreated'
  <2>1. \A o \in Op : o > n => ops'[o].status = "none"
    BY <1>3, <1>7, Bounds DEF Inv, OnlyCreated
  <2>2. \A w \in Worker : \A o \in run[w].batch : o <= n
    BY <1>7, Bounds DEF Inv, OnlyCreated, TypeOK
  <2> QED BY <1>2, <2>1, <2>2 DEF OnlyCreated
<1>9. ~SlowWorkers /\ ~repeated' => Held'
  <2>1. \A w \in Worker : run[w].batch \subseteq Op /\ n \notin run[w].batch
    BY <1>7 DEF Inv, OnlyCreated, TypeOK
  <2> QED BY <1>2, <1>3, <2>1 DEF Inv, Held
<1> QED BY <1>4, <1>5, <1>6, <1>8, <1>9 DEF Inv

LEMMA BatchFacts ==
  /\ Batch \subseteq Claimable /\ Claimable \subseteq Op
  /\ \A o \in Claimable : \/ ops[o].status = "pending"
                          \/ ops[o].status = "processing" /\ ops[o].stale
  BY DEF Batch, Claimable

\* The claim changes ops that no run holds.
LEMMA ClaimedFacts ==
  ASSUME Inv, NEW G \in Retired, ops' = Claimed(G), UNCHANGED created
  PROVE  /\ OpsKept'
         /\ \A o \in Batch : ops'[o].status = "processing" /\ ~ops'[o].stale
         /\ \A o \in Batch : ops[o].attempts < MAX_ATTEMPTS /\ o <= created
         /\ ~SlowWorkers /\ ~repeated =>
              \A w \in Worker : \A o \in run[w].batch : o \notin Batch /\ ops'[o] = ops[o]
<1>1. \A o \in G : o \in Op /\ ops[o].status = "done"
  BY DEF Retired
<1>2. \A o \in Op : ops[o] \in OpRecord
  BY WorkTyped DEF OpsKept
<1>3. \A o \in Op :
        /\ o \in Batch => /\ ops'[o] = [ops[o] EXCEPT !.status = "processing", !.stale = FALSE]
        /\ o \notin Batch /\ o \in G => ops'[o] = [ops[o] EXCEPT !.status = "gone"]
        /\ o \notin Batch /\ o \notin G => ops'[o] = ops[o]
  BY DEF Claimed
<1>4. \A o \in Batch : ops'[o].status = "processing" /\ ~ops'[o].stale
  BY <1>2, <1>3, BatchFacts DEF OpRecord
<1>5. \A o \in Batch : ops[o].attempts < MAX_ATTEMPTS /\ o <= created
  <2>1. \A o \in Op : o > created => ops[o].status = "none"
    BY DEF Inv, OnlyCreated
  <2>2. created \in Nat
    BY DEF Inv, TypeOK
  <2> QED BY <2>1, <2>2, BatchFacts, Bounds DEF Inv, TriesLeft
<1>6. ops' \in [Op -> OpRecord]
  <2>1. \A o \in Op : ops'[o] \in OpRecord
    BY <1>2, <1>3 DEF OpRecord, Statuses
  <2> QED BY <2>1 DEF Claimed
<1>7. \A o \in Op : ops'[o].attempts = ops[o].attempts
  BY <1>2, <1>3 DEF OpRecord
<1>8. \A o \in Op : ops'[o].status \in {"none", "pending", "processing"}
                      => ops[o].status \in {"none", "pending", "processing"}
  BY <1>2, <1>3, BatchFacts DEF OpRecord
<1>9. \A o \in Op : o > created => ops'[o].status = "none"
  BY <1>1, <1>3, BatchFacts DEF Inv, OnlyCreated
<1>10. OpsKept'
  BY <1>6, <1>7, <1>8, <1>9 DEF OpsKept, Inv, TriesLeft
<1>11. ASSUME ~SlowWorkers, ~repeated, NEW w \in Worker, NEW o \in run[w].batch
       PROVE  o \notin Batch /\ ops'[o] = ops[o]
  BY <1>1, <1>3, <1>11, BatchFacts DEF Inv, Held, TypeOK
<1> QED BY <1>4, <1>5, <1>10, <1>11

LEMMA ClaimInv == ASSUME Inv, NEW w \in Worker, Claim(w) PROVE Inv'
<1>1. PICK G \in Retired : ops' = Claimed(G)
  BY DEF Claim
<1>2. /\ UNCHANGED <<flagVars, syncVars, unpolled, faults, repeated>>
      /\ UNCHANGED clientVars /\ UNCHANGED created
  BY DEF Claim, flagVars, clientVars, syncVars, faultVars
<1>3. /\ FlagOK' /\ faults' \in 0..MaxFaults /\ repeated' \in BOOLEAN
      /\ unpolled' \subseteq unpolled
  BY <1>2 DEF Inv, TypeOK, FlagOK, flagVars, syncVars
<1>4. OpsKept'
  BY <1>1, <1>2, ClaimedFacts
<1>5. CASE Batch = {}
  <2>1. Move(w, AfterRounds(run[w]), NoRun)
    BY <1>5 DEF Claim
  <2>2. AfterRounds(run[w]) \in {"idle", "reconcile"}
    BY DEF AfterRounds
  <2>3. /\ run'[w] = NoRun
        /\ \A v \in Worker : v # w => run'[v] = run[v]
    BY <2>1, <2>2, WorkTyped, MoveFacts, NoRunOK DEF Step
  <2>4. ~SlowWorkers /\ ~repeated' => Held'
    BY <1>1, <1>2, <2>3, ClaimedFacts, NoRunOK DEF Inv, Held
  <2> QED BY <1>2, <1>3, <1>4, <2>1, <2>2, <2>4, NoRunSound, WorkerInv DEF Step
<1>6. CASE Batch # {}
  <2> DEFINE snap == [o \in Op |-> IF o \in Batch THEN ops[o].attempts ELSE 0]
             l == [run[w] EXCEPT !.batch = Batch, !.snap = snap]
  <2>1. Move(w, "execute", l)
    BY <1>6 DEF Claim
  <2>2. \A o \in Op : ops[o].attempts \in 0..MAX_ATTEMPTS
    BY DEF Inv, TypeOK
  <2>3. snap \in [Op -> 0..MAX_ATTEMPTS]
    BY <2>2, Bounds
  <2>4. \A o \in Batch : snap[o] = ops[o].attempts
    BY BatchFacts
  <2> HIDE DEF snap
  <2>5. run[w] \in Local
    BY WorkTyped DEF WorkOK
  <2>6. /\ l \in Local /\ l.batch = Batch /\ l.snap = snap /\ l.round = run[w].round
    BY <2>3, <2>5, BatchFacts DEF Local
  <2> HIDE DEF l
  <2>7. Sound("execute", l)
    BY <1>1, <1>2, <2>4, <2>6, ClaimedFacts DEF Sound, Inv, TriesLeft
  <2>8. /\ run'[w] = l
        /\ \A v \in Worker : v # w => run'[v] = run[v]
    BY <2>1, <2>6, WorkTyped, MoveFacts DEF Step
  <2>9. ~SlowWorkers /\ ~repeated' => Held'
    <3> SUFFICES ASSUME ~SlowWorkers, ~repeated PROVE Held'
      BY <1>2
    <3>1. \A v \in Worker : \A o \in run'[v].batch :
            ops'[o].status = "processing" /\ ~ops'[o].stale
      BY <1>1, <1>2, <2>6, <2>8, ClaimedFacts DEF Inv, Held
    <3>2. \A v \in Worker : v # w => run'[v].batch \intersect Batch = {}
      BY <1>1, <1>2, <2>8, ClaimedFacts
    <3>3. \A u, v \in Worker : u # v => run'[u].batch \intersect run'[v].batch = {}
      BY <2>6, <2>8, <3>2 DEF Inv, Held
    <3> QED BY <3>1, <3>3 DEF Held
  <2> QED BY <1>2, <1>3, <1>4, <2>1, <2>7, <2>9, WorkerInv DEF Step
<1> QED BY <1>5, <1>6

LEMMA ClaimLostInv == ASSUME Inv, NEW w \in Worker, ClaimLost(w) PROVE Inv'
<1>1. {} \in Retired /\ ops' = Claimed({})
  BY DEF ClaimLost, Retired
<1>2. /\ UNCHANGED <<flagVars, syncVars, unpolled, repeated, pc, run>>
      /\ UNCHANGED clientVars /\ UNCHANGED created
  BY DEF ClaimLost, Fault, flagVars, clientVars, syncVars, runVars
<1>3. faults' \in 0..MaxFaults
  BY FaultCounted DEF Inv, TypeOK, ClaimLost, Fault
<1>4. OpsKept'
  BY <1>1, <1>2, ClaimedFacts
<1>5. TypeOK'
  BY <1>2, <1>3, <1>4 DEF Inv, TypeOK, OpsKept, OpRecord, clientVars,
     flagVars, syncVars
<1>6. TriesLeft' /\ BatchInUse' /\ OnlyCreated'
  BY <1>2, <1>4 DEF Inv, TriesLeft, BatchInUse, OnlyCreated, OpsKept, clientVars
<1>7. ~SlowWorkers /\ ~repeated' => Held'
  BY <1>1, <1>2, ClaimedFacts DEF Inv, Held
<1> QED BY <1>5, <1>6, <1>7 DEF Inv

LEMMA ExecuteInv == ASSUME Inv, NEW w \in Worker, Execute(w) PROVE Inv'
<1>1. PICK o \in run[w].batch, ok \in BOOLEAN :
        /\ \/ SetFlag(value[o])
           \/ (ok => kind = "imap") /\ UNCHANGED <<mail, dirty>>
        /\ Move(w, "finalize", [run[w] EXCEPT !.op = o, !.ok = ok])
  BY DEF Execute
<1> DEFINE l == [run[w] EXCEPT !.op = o, !.ok = ok]
<1>2. /\ UNCHANGED <<kind, listed, ops, unpolled, sync, fetched, taken, faults, repeated>>
      /\ UNCHANGED clientVars /\ UNCHANGED created
  BY DEF Execute, opVars, clientVars, syncVars, faultVars
<1>3. mail' \in BOOLEAN /\ dirty' \in BOOLEAN
  <2>1. value[o] \in BOOLEAN
    BY DEF Inv, TypeOK
  <2>2. (dirty \/ (kind = "google" /\ mail # value[o])) \in BOOLEAN
    OBVIOUS
  <2> QED BY <1>1, <2>1, <2>2 DEF SetFlag, Inv, TypeOK
<1>4. run[w] \in Local /\ Sound(pc[w], run[w]) /\ o \in Op
  BY WorkTyped, RunIsSound DEF WorkOK, Inv, TypeOK
<1>5. /\ l \in Local /\ l.batch = run[w].batch /\ l.snap = run[w].snap
      /\ l.round = run[w].round /\ l.op = o
  BY <1>4 DEF Local
<1>6. Move(w, "finalize", l)
  BY <1>1
<1> HIDE DEF l
<1>7. Sound("finalize", l)
  BY <1>4, <1>5 DEF Sound
<1>8. OpsKept'
  BY <1>2, WorkTyped DEF OpsKept
<1>9. ~SlowWorkers /\ ~repeated' => Held'
  <2>1. \A v \in Worker : run'[v].batch = run[v].batch
    BY <1>5, <1>6, WorkTyped, MoveFacts DEF Step
  <2> QED BY <1>2, <2>1 DEF Inv, Held
<1>10. /\ FlagOK' /\ faults' \in 0..MaxFaults /\ repeated' \in BOOLEAN
       /\ unpolled' \subseteq unpolled
  BY <1>2, <1>3 DEF Inv, TypeOK, FlagOK
<1> QED BY <1>2, <1>3, <1>6, <1>7, <1>8, <1>9, <1>10, WorkerInv DEF Step

\* What finalizeOpStep publishes, whichever op it is about.
LEMMA FinalizedFacts ==
  ASSUME Inv, NEW w \in Worker, pc[w] = "finalize",
         ops' = [ops EXCEPT ![run[w].op] = Finalized(run[w])], UNCHANGED created
  PROVE  /\ run[w].op \in run[w].batch /\ run[w].op \in Op
         /\ OpsKept'
         /\ \A o \in Op : o # run[w].op => ops'[o] = ops[o]
<1> DEFINE o == run[w].op
           tried == run[w].snap[o] + 1
<1>1. o \in run[w].batch /\ run[w] \in Local /\ Sound(pc[w], run[w])
  BY RunIsSound DEF Sound
<1>2. o \in Op /\ o <= created
  BY <1>1 DEF Local, Sound
<1>3. run[w].snap[o] < MAX_ATTEMPTS /\ run[w].snap[o] \in 0..MAX_ATTEMPTS
  BY <1>1, <1>2 DEF Local, Sound
<1>4. tried \in 0..MAX_ATTEMPTS
  BY <1>3, Bounds
<1>5. Outcome(run[w].ok, tried) \in {"done", "pending", "failed"}
      /\ (Outcome(run[w].ok, tried) = "pending" => tried < MAX_ATTEMPTS)
  BY DEF Outcome
<1>6. Finalized(run[w]) =
        [status |-> Outcome(run[w].ok, tried), attempts |-> tried, stale |-> ops[o].stale]
  BY DEF Finalized
<1> HIDE DEF tried
<1>7. ops \in [Op -> OpRecord] /\ ops[o].stale \in BOOLEAN
  BY <1>2, WorkTyped DEF OpsKept, OpRecord
<1>8. Finalized(run[w]) \in OpRecord
  BY <1>4, <1>5, <1>6, <1>7 DEF OpRecord, Statuses
<1>9. /\ ops' \in [Op -> OpRecord] /\ ops'[o] = Finalized(run[w])
      /\ \A p \in Op : p # o => ops'[p] = ops[p]
  BY <1>2, <1>7, <1>8
<1>10. \A p \in Op : ops'[p].status \in {"none", "pending", "processing"}
                       => ops'[p].attempts < MAX_ATTEMPTS
  BY <1>5, <1>6, <1>9, WorkTyped DEF OpsKept
<1>11. \A p \in Op : p > created => ops'[p].status = "none"
  <2>1. created \in Nat
    BY DEF Inv, TypeOK
  <2> QED BY <1>2, <1>9, <2>1, WorkTyped, Bounds DEF OpsKept
<1> QED BY <1>1, <1>2, <1>9, <1>10, <1>11 DEF OpsKept

LEMMA FinalizeInv == ASSUME Inv, NEW w \in Worker, Finalize(w) PROVE Inv'
<1> DEFINE l == run[w]
           left == l.batch \ {l.op}
           status == Finalized(l).status
           after == [l EXCEPT !.batch = left, !.snap[l.op] = 0, !.op = 0, !.ok = FALSE,
                              !.round = IF left = {} THEN @ + 1 ELSE @,
                              !.failed = @ \/ status = "failed"]
           next == NextStep(after)
           locals == IF next \in {"execute", "claim"} THEN after ELSE NoRun
<1>1. /\ pc[w] = "finalize" /\ ops' = [ops EXCEPT ![l.op] = Finalized(l)]
      /\ Move(w, next, locals)
  BY DEF Finalize
<1>2. /\ UNCHANGED <<flagVars, syncVars, unpolled, faults, repeated>>
      /\ UNCHANGED clientVars /\ UNCHANGED created
  BY DEF Finalize, flagVars, clientVars, syncVars, faultVars
<1>3. /\ l.op \in l.batch /\ l.op \in Op /\ OpsKept'
      /\ \A o \in Op : o # l.op => ops'[o] = ops[o]
  BY <1>1, <1>2, FinalizedFacts
<1>4. l \in Local /\ l.round < MAX_ROUNDS
      /\ \A o \in l.batch : l.snap[o] < MAX_ATTEMPTS /\ o <= created
  BY RunIsSound DEF Sound
<1>5. /\ after.batch = left
      /\ after.round = IF left = {} THEN l.round + 1 ELSE l.round
      /\ \A o \in left : after.snap[o] = l.snap[o]
      /\ after \in Local
  <2>1. [l.snap EXCEPT ![l.op] = 0] \in [Op -> 0..MAX_ATTEMPTS]
    <3>1. l.snap \in [Op -> 0..MAX_ATTEMPTS] /\ 0 \in 0..MAX_ATTEMPTS
      BY <1>4, Bounds DEF Local
    <3> QED BY <3>1
  <2>2. /\ (IF left = {} THEN l.round + 1 ELSE l.round) \in 0..MAX_ROUNDS
        /\ (l.failed \/ status = "failed") \in BOOLEAN /\ left \subseteq Op
    BY <1>4, Bounds DEF Local
  <2>3. \A o \in left : [l.snap EXCEPT ![l.op] = 0][o] = l.snap[o]
    BY <1>4 DEF Local
  <2> HIDE DEF left, status
  <2> QED BY <1>4, <2>1, <2>2, <2>3 DEF Local
<1>6. /\ next \in {"execute", "claim", "idle", "reconcile"}
      /\ next = "execute" <=> left # {}
      /\ next = "claim" => left = {} /\ after.round < MAX_ROUNDS
  BY <1>5 DEF NextStep, AfterRounds
<1> HIDE DEF after, next
<1>7. locals.batch \subseteq left /\ locals \in Local
  BY <1>5, NoRunOK
<1>8. Sound(next, locals)
  <2>1. CASE next \in {"execute", "claim"}
    <3>1. after.round < MAX_ROUNDS
      BY <1>4, <1>5, <1>6, <2>1
    <3> QED BY <1>4, <1>5, <1>6, <2>1, <3>1 DEF Sound
  <2>2. CASE next \notin {"execute", "claim"}
    BY <1>6, <2>2, NoRunSound
  <2> QED BY <2>1, <2>2
<1>9. /\ run'[w] = locals
      /\ \A v \in Worker : v # w => run'[v] = run[v]
  BY <1>1, <1>6, <1>7, WorkTyped, MoveFacts DEF Step
<1>10. ~SlowWorkers /\ ~repeated' => Held'
  <2> SUFFICES ASSUME ~SlowWorkers, ~repeated PROVE Held'
    BY <1>2
  <2> HIDE DEF locals
  <2>1. \A v \in Worker : run'[v].batch \subseteq run[v].batch
    BY <1>7, <1>9
  <2>2. \A v \in Worker : l.op \notin run'[v].batch
    BY <1>3, <1>7, <1>9 DEF Inv, Held
  <2>3. \A v \in Worker : \A o \in run'[v].batch : o \in Op /\ ops'[o] = ops[o]
    BY <1>3, <2>1, <2>2 DEF Inv, TypeOK
  <2> QED BY <2>1, <2>3 DEF Inv, Held
<1>11. /\ FlagOK' /\ faults' \in 0..MaxFaults /\ repeated' \in BOOLEAN
       /\ unpolled' \subseteq unpolled
  BY <1>2 DEF Inv, TypeOK, FlagOK, flagVars, syncVars
<1> QED BY <1>1, <1>2, <1>3, <1>6, <1>8, <1>10, <1>11, WorkerInv DEF Step

LEMMA FinalizeLostInv == ASSUME Inv, NEW w \in Worker, FinalizeLost(w) PROVE Inv'
<1>1. /\ pc[w] = "finalize" /\ ops' = [ops EXCEPT ![run[w].op] = Finalized(run[w])]
      /\ UNCHANGED <<flagVars, syncVars, unpolled, pc, run>>
      /\ UNCHANGED clientVars /\ UNCHANGED created /\ repeated' = TRUE
  BY DEF FinalizeLost, flagVars, clientVars, syncVars, runVars
<1>2. OpsKept'
  BY <1>1, FinalizedFacts
<1>3. faults' \in 0..MaxFaults
  BY FaultCounted DEF Inv, TypeOK, FinalizeLost
<1>4. TypeOK'
  BY <1>1, <1>2, <1>3 DEF Inv, TypeOK, OpsKept, OpRecord, clientVars,
     flagVars, syncVars
<1>5. TriesLeft' /\ BatchInUse' /\ OnlyCreated'
  BY <1>1, <1>2 DEF Inv, TriesLeft, BatchInUse, OnlyCreated, OpsKept, clientVars
<1> QED BY <1>1, <1>4, <1>5 DEF Inv

\* A claim that a run holds does not age: that is what ~SlowWorkers says.
LEMMA AgesInv == ASSUME Inv, NEW o \in Op, ClaimAges(o) PROVE Inv'
<1>1. /\ ops' = [ops EXCEPT ![o] = [@ EXCEPT !.stale = TRUE]]
      /\ UNCHANGED <<flagVars, syncVars, unpolled, faults, repeated, pc, run>>
      /\ UNCHANGED clientVars /\ UNCHANGED created
      /\ ~SlowWorkers => \A w \in Worker : o \notin run[w].batch
  BY DEF ClaimAges, flagVars, clientVars, syncVars, runVars, faultVars
<1>2. /\ ops' \in [Op -> OpRecord]
      /\ \A p \in Op : /\ ops'[p].status = ops[p].status
                       /\ ops'[p].attempts = ops[p].attempts
                       /\ p # o => ops'[p] = ops[p]
  BY <1>1, WorkTyped DEF OpsKept, OpRecord
<1>3. TypeOK'
  BY <1>1, <1>2 DEF Inv, TypeOK, OpRecord, clientVars, flagVars, syncVars
<1>4. TriesLeft' /\ BatchInUse' /\ OnlyCreated'
  BY <1>1, <1>2 DEF Inv, TriesLeft, BatchInUse, OnlyCreated, clientVars
<1>5. ~SlowWorkers /\ ~repeated' => Held'
  BY <1>1, <1>2 DEF Inv, Held, TypeOK
<1> QED BY <1>3, <1>4, <1>5 DEF Inv

-----------------------------------------------------------------------------
(* Theorems *)

LEMMA NextInv == Inv /\ [Next]_vars => Inv'
<1> SUFFICES ASSUME Inv, [Next]_vars PROVE Inv'
  OBVIOUS
<1>1. CASE Patch \/ CreateOp \/ RejectOp
  BY <1>1, PatchInv, CreateInv, RejectInv
<1>2. CASE \E o \in Op, i \in Instance : Kick(o, i) \/ LoseKick(o, i)
  BY <1>2, KickInv, LoseKickInv
<1>3. ASSUME NEW w \in Worker, Work(w) \/ ClaimLost(w) \/ FinalizeLost(w) \/ Die(w)
      PROVE  Inv'
  BY <1>3, ClaimInv, ExecuteInv, FinalizeInv, ReconcileInv, ClaimLostInv,
     FinalizeLostInv, DieInv DEF Work
<1>4. CASE \E o \in Op : ClaimAges(o)
  BY <1>4, AgesInv
<1>5. CASE Sync \/ SyncFetchPage \/ SyncFails \/ Sinks
  BY <1>5, SyncInv
<1>6. CASE UNCHANGED vars
  <2>1. TypeOK' /\ TriesLeft' /\ BatchInUse'
    BY <1>6 DEF Inv, TypeOK, TriesLeft, BatchInUse, vars, flagVars, clientVars, opVars,
       runVars, syncVars, faultVars
  <2>2. OnlyCreated' /\ (~SlowWorkers /\ ~repeated' => Held')
    BY <1>6 DEF Inv, OnlyCreated, Held, vars, clientVars, opVars, runVars, faultVars
  <2> QED BY <2>1, <2>2 DEF Inv
<1> QED BY <1>1, <1>2, <1>3, <1>4, <1>5, <1>6 DEF Next

THEOREM Invariance == Spec => []Inv
  BY InitInv, NextInv, PTL DEF Spec

\* Type correctness of the outbox: no op is tried more than MAX_ATTEMPTS times
\* and no run makes more than MAX_ROUNDS rounds, even when claims go stale under
\* a live run and finalizeOpStep is executed twice (provider-ops.ts).
THEOREM TypeCorrect == Spec => []TypeOK
<1>1. Inv => TypeOK
  BY DEF Inv
<1> QED BY <1>1, Invariance, PTL

\* "Concurrent runs cannot double-claim" (provider-ops.ts): however many runs
\* the kicks start and whichever of them die or claim twice, no two are going to
\* make the provider call of one op, as long as no run outlives its claim and
\* no finalizeOpStep is executed twice.
THEOREM ClaimIsExclusive == Spec => []ExclusiveClaim
<1>1. Inv => ExclusiveClaim
  <2> SUFFICES ASSUME Inv, ~SlowWorkers, ~repeated, NEW v \in Worker, NEW w \in Worker,
                      v # w
               PROVE  Ahead(v) \intersect Ahead(w) = {}
    BY DEF ExclusiveClaim, NoDoubleClaim
  <2>1. run[v].batch \intersect run[w].batch = {}
    BY DEF Inv, Held
  <2> QED BY <2>1 DEF Ahead
<1> QED BY <1>1, Invariance, PTL

\* Under the same conditions an op that was done or failed is never claimed or
\* written again, but for the end of its retention.
THEOREM SettledStaysSettled == Spec => SettledStays
<1> DEFINE Kept == \A o \in Op : ~SlowWorkers /\ ~repeated' =>
                     /\ ops[o].status = "failed" => ops'[o] = ops[o]
                     /\ ops[o].status = "done" => ops'[o].status \in {"done", "gone"}
                     /\ ops[o].status = "gone" => ops'[o].status = "gone"
<1>1. Inv /\ [Next]_vars => [Kept]_vars
  <2> SUFFICES ASSUME Inv, Next, NEW o \in Op, ~SlowWorkers, ~repeated'
               PROVE  /\ ops[o].status = "failed" => ops'[o] = ops[o]
                      /\ ops[o].status = "done" => ops'[o].status \in {"done", "gone"}
                      /\ ops[o].status = "gone" => ops'[o].status = "gone"
    OBVIOUS
  <2> USE WorkTyped DEF OpsKept, OpRecord
  <2>1. CASE UNCHANGED ops
    BY <2>1
  <2>2. CASE CreateOp
    <3>1. created + 1 \in Op /\ ops[created + 1].status = "none"
      BY <2>2, Bounds DEF Inv, OnlyCreated, TypeOK, CreateOp, Op
    <3> QED BY <2>2, <3>1 DEF CreateOp
  <2>3. ASSUME NEW G \in Retired, ops' = Claimed(G)
        PROVE  /\ ops[o].status = "failed" => ops'[o] = ops[o]
               /\ ops[o].status = "done" => ops'[o].status \in {"done", "gone"}
               /\ ops[o].status = "gone" => ops'[o].status = "gone"
    BY <2>3, BatchFacts DEF Claimed, Retired
  <2>4. ASSUME NEW w \in Worker, Claim(w) \/ ClaimLost(w)
        PROVE  \E G \in Retired : ops' = Claimed(G)
    BY <2>4 DEF Claim, ClaimLost, Retired
  <2>5. ASSUME NEW w \in Worker, Finalize(w)
        PROVE  ops[o].status \in {"done", "failed", "gone"} => ops'[o] = ops[o]
    <3>1. /\ pc[w] = "finalize" /\ ops' = [ops EXCEPT ![run[w].op] = Finalized(run[w])]
          /\ UNCHANGED <<created, repeated>>
      BY <2>5 DEF Finalize, clientVars, faultVars
    <3>2. run[w].op \in run[w].batch /\ \A p \in Op : p # run[w].op => ops'[p] = ops[p]
      BY <3>1, FinalizedFacts
    <3>3. ops[run[w].op].status = "processing"
      BY <3>1, <3>2 DEF Inv, Held
    <3> QED BY <3>2, <3>3
  <2>6. ASSUME NEW w \in Worker, FinalizeLost(w) PROVE FALSE
    BY <2>6 DEF FinalizeLost
  <2>7. ASSUME NEW p \in Op, ClaimAges(p)
        PROVE  ops[o].status \in {"done", "failed", "gone"} => ops'[o] = ops[o]
    BY <2>7 DEF ClaimAges
  <2>8. CASE Patch \/ RejectOp \/ Sync \/ SyncFetchPage \/ SyncFails \/ Sinks
    BY <2>8, <2>1 DEF Patch, RejectOp, Sync, SyncFetch, SyncFetchPage, SyncWrite,
       SyncFails, Sinks, opVars
  <2>9. ASSUME NEW p \in Op, NEW i \in Instance, Kick(p, i) \/ LoseKick(p, i)
        PROVE  UNCHANGED ops
    BY <2>9 DEF Kick, LoseKick
  <2>10. ASSUME NEW w \in Worker, Execute(w) \/ Reconcile(w) \/ Die(w)
         PROVE  UNCHANGED ops
    BY <2>10 DEF Execute, Reconcile, Die, opVars
  <2> QED
    BY <2>1, <2>2, <2>3, <2>4, <2>5, <2>6, <2>7, <2>8, <2>9, <2>10 DEF Next, Work
<1> QED BY <1>1, Invariance, PTL DEF Spec, SettledStays

-----------------------------------------------------------------------------
(* The lists of mail that are not in the sync store: any views, threads and *)
(* actions, of a user who stays in a view while something is under way      *)

CONSTANTS Thread, View, Marked, Act, MaxActs, MaxPolls, Roams, AutoRead
VARIABLES inbox, flagged, cache, stale, fetch, view, hidden, act, toasts,
          begun, failures, polls, spoilt, opened, untold
Lists == INSTANCE ThreadList WITH faults <- failures

Listed == [rows : SUBSET Thread, flagged : SUBSET Thread]
Fetching == [at : {"idle", "asked", "read"}, by : Act \union {"none"},
             got : Listed \union {"nothing"}]
Acting ==
  [pc : {"called", "ok", "failed", "refetching"}, kind : {"removal", "flag", "open", "undo"},
   ids : SUBSET Thread, value : BOOLEAN, key : View, snap : [View -> Listed]]

ListTypes ==
  /\ inbox \subseteq Thread /\ view \in View /\ opened \in BOOLEAN
  /\ cache \in [View -> Listed] /\ stale \in [View -> BOOLEAN]
  /\ fetch \in [View -> Fetching] /\ \A v \in View : fetch[v].at = "read" => fetch[v].got \in Listed
  /\ act \in [Act -> Acting \union {Lists!NoAct}]
  /\ toasts \subseteq [ids : SUBSET Thread, key : View]

\* What is under way is about the view on the screen.
OfTheView ==
  /\ \A a \in Act : act[a].pc # "idle" => act[a].key = view
  /\ \A v \in View : v # view => fetch[v] = Lists!NoFetch

OpenIsKnown == \A a \in Act : act[a].pc # "idle" /\ act[a].kind = "open" => opened

\* An action that will mark every list stale when it ends; one that has been
\* performed, or a flag that may have been in part, and has yet to ask for the
\* list again.
Owes(a) ==
  /\ act[a].pc # "idle" /\ act[a].kind # "open"
  /\ act[a].kind = "flag" \/ act[a].pc \in {"ok", "refetching"}
Performed(a) ==
  /\ act[a].kind # "open"
  /\ act[a].pc = "ok" \/ (act[a].pc = "failed" /\ act[a].kind = "flag")

ListsTold ==
  \/ opened \/ \E a \in Act : Owes(a)
  \/ \A v \in View : cache[v] = Lists!Listing \/ stale[v] \/ v \in untold
FetchesTold ==
  \/ opened \/ \E a \in Act : Performed(a)
  \/ \A v \in View : fetch[v].at = "read" => fetch[v].got = Lists!Listing \/ v \in untold

ListsInv == ListTypes /\ OfTheView /\ OpenIsKnown /\ ListsTold /\ FetchesTold

LEMMA ActingOf ==
  ASSUME ListTypes, NEW a \in Act, act[a].pc # "idle" PROVE act[a] \in Acting
BY DEF ListTypes, Lists!NoAct

\* What an action does to itself leaves the others as they are.
LEMMA GoesOn ==
  ASSUME ListTypes, OfTheView, OpenIsKnown, NEW a \in Act, act[a].pc # "idle",
         NEW p \in {"called", "ok", "failed", "refetching"},
         act' = [act EXCEPT ![a].pc = p], view' = view, opened' = opened
  PROVE  /\ act' \in [Act -> Acting \union {Lists!NoAct}]
         /\ \A b \in Act : act'[b].pc # "idle" => act'[b].key = view'
         /\ OpenIsKnown'
         /\ act'[a].pc = p /\ act'[a].kind = act[a].kind
         /\ \A b \in Act : b # a => act'[b] = act[b]
<1>1. act[a] \in Acting
  BY ActingOf
<1>2. act'[a] = [act[a] EXCEPT !.pc = p] /\ \A b \in Act : b # a => act'[b] = act[b]
  BY DEF ListTypes
<1>3. act'[a] \in Acting /\ act'[a].pc = p /\ act'[a].kind = act[a].kind /\ act'[a].key = act[a].key
  BY <1>1, <1>2 DEF Acting
<1>4. act' \in [Act -> Acting \union {Lists!NoAct}]
  BY <1>2, <1>3 DEF ListTypes
<1> QED BY <1>2, <1>3, <1>4 DEF OfTheView, OpenIsKnown

LEMMA HasEnded ==
  ASSUME ListTypes, OfTheView, OpenIsKnown, NEW a \in Act,
         act' = [act EXCEPT ![a] = Lists!NoAct], view' = view, opened' = opened
  PROVE  /\ act' \in [Act -> Acting \union {Lists!NoAct}]
         /\ \A b \in Act : act'[b].pc # "idle" => act'[b].key = view'
         /\ OpenIsKnown'
         /\ \A b \in Act : b # a => act'[b] = act[b]
<1>1. act'[a].pc = "idle" /\ \A b \in Act : b # a => act'[b] = act[b]
  BY DEF ListTypes, Lists!NoAct
<1>2. act' \in [Act -> Acting \union {Lists!NoAct}]
  BY DEF ListTypes
<1> QED BY <1>1, <1>2 DEF OfTheView, OpenIsKnown

LEMMA HasBegun ==
  ASSUME ListTypes, OfTheView, OpenIsKnown, NEW a \in Act,
         NEW sort \in {"removal", "flag", "open", "undo"}, NEW ids \in SUBSET Thread,
         NEW on \in BOOLEAN, Lists!Begin(a, sort, ids, on, view),
         view' = view, opened' = opened \/ opened' = TRUE, sort = "open" => opened'
  PROVE  /\ act' \in [Act -> Acting \union {Lists!NoAct}]
         /\ \A b \in Act : act'[b].pc # "idle" => act'[b].key = view'
         /\ OpenIsKnown'
         /\ act[a].pc = "idle" /\ act'[a].pc = "called" /\ act'[a].kind = sort
         /\ \A b \in Act : b # a => act'[b] = act[b]
<1> DEFINE new == [pc |-> "called", kind |-> sort, ids |-> ids, value |-> on, key |-> view, snap |-> cache]
<1>1. act' = [act EXCEPT ![a] = new] /\ act[a].pc = "idle"
  BY DEF Lists!Begin
<1>2. new \in Acting /\ new.pc = "called" /\ new.kind = sort /\ new.key = view
  BY DEF ListTypes, Acting
<1> HIDE DEF new
<1>3. act'[a] = new /\ \A b \in Act : b # a => act'[b] = act[b]
  BY <1>1 DEF ListTypes
<1>4. act' \in [Act -> Acting \union {Lists!NoAct}]
  BY <1>1, <1>2 DEF ListTypes
<1> QED BY <1>1, <1>2, <1>3, <1>4 DEF OfTheView, OpenIsKnown

\* What is about the view is fetched anew: nothing that was read is left.
LEMMA RefetchOf ==
  ASSUME ListTypes, OfTheView, NEW by \in Act \union {"none"}
  PROVE  LET f == Lists!Refetch(view, by, fetch) IN
           /\ f \in [View -> Fetching]
           /\ \A v \in View : v # view => f[v] = Lists!NoFetch
           /\ \A v \in View : f[v].at # "read"
<1> DEFINE new == [Lists!NoFetch EXCEPT !.at = "asked", !.by = by]
<1>1. new \in Fetching /\ new.at = "asked"
  BY DEF Lists!NoFetch, Fetching
<1>2. Lists!Refetch(view, by, fetch) = [fetch EXCEPT ![view] = new]
  BY DEF Lists!Refetch
<1> HIDE DEF new
<1>3. \A v \in View : v # view => fetch[v].at # "read"
  BY DEF OfTheView, Lists!NoFetch
<1> QED BY <1>1, <1>2, <1>3 DEF ListTypes, OfTheView

LEMMA NoneIsFetched ==
  /\ Lists!Cancelled \in [View -> Fetching]
  /\ \A v \in View : Lists!Cancelled[v] = Lists!NoFetch /\ Lists!Cancelled[v].at # "read"
BY DEF Lists!Cancelled, Lists!NoFetch, Fetching

LEMMA AllAreStale ==
  /\ Lists!AllStale \in [View -> BOOLEAN] /\ \A v \in View : Lists!AllStale[v]
  /\ Lists!AllFresh \in [View -> BOOLEAN]
BY DEF Lists!AllStale, Lists!AllFresh

LEMMA PatchedTypes ==
  ASSUME ListTypes, NEW ids \in SUBSET Thread, NEW on \in BOOLEAN
  PROVE  Lists!PatchAll(ids, on) \in [View -> Listed]
<1>1. ASSUME NEW v \in View PROVE Lists!Patched(cache[v], ids, on) \in Listed
  <2>1. cache[v] \in Listed
    BY DEF ListTypes
  <2> QED BY <2>1 DEF Lists!Patched, Listed
<1> QED BY <1>1 DEF Lists!PatchAll

LEMMA ScreenIsOfThreads == ASSUME ListTypes PROVE Lists!OnScreen \subseteq Thread
<1>1. cache[view] \in Listed
  BY DEF ListTypes
<1> QED BY <1>1 DEF Lists!OnScreen, Listed

LEMMA ListingTyped == ListTypes => Lists!Listing \in Listed
BY DEF ListTypes, Lists!Listing, Listed

-----------------------------------------------------------------------------

LEMMA RemoveKeeps == ASSUME ListsInv, NEW a \in Act, Lists!Remove(a) PROVE ListsInv'
<1>0. ListTypes /\ OfTheView /\ OpenIsKnown
  BY DEF ListsInv
<1>1. PICK ids \in SUBSET Lists!OnScreen : Lists!Begin(a, "removal", ids, FALSE, view)
  BY DEF Lists!Remove
<1>2. /\ fetch' = Lists!Cancelled
      /\ UNCHANGED <<inbox, flagged, cache, stale, view, toasts, opened, untold>>
  BY DEF Lists!Remove, Lists!provider, Lists!history
<1>3. /\ act' \in [Act -> Acting \union {Lists!NoAct}]
      /\ \A b \in Act : act'[b].pc # "idle" => act'[b].key = view'
      /\ OpenIsKnown' /\ act[a].pc = "idle" /\ \A b \in Act : b # a => act'[b] = act[b]
  BY <1>0, <1>1, <1>2, ScreenIsOfThreads, HasBegun
<1>4. ListTypes' /\ OfTheView'
  BY <1>0, <1>2, <1>3, NoneIsFetched DEF ListTypes, OfTheView
<1>5. (\E b \in Act : Owes(b)) => (\E b \in Act : Owes(b))'
  BY <1>3 DEF Owes
<1>6. ListsTold'
  BY <1>2, <1>5 DEF ListsInv, ListsTold, Lists!Listing
<1>7. FetchesTold'
  BY <1>2, NoneIsFetched DEF FetchesTold
<1> QED BY <1>3, <1>4, <1>6, <1>7 DEF ListsInv

LEMMA FlagKeeps == ASSUME ListsInv, NEW a \in Act, Lists!Flag(a) PROVE ListsInv'
<1>0. ListTypes /\ OfTheView /\ OpenIsKnown
  BY DEF ListsInv
<1>1. PICK ids \in SUBSET Lists!OnScreen, on \in BOOLEAN :
        Lists!Begin(a, "flag", ids, on, view) /\ cache' = Lists!PatchAll(ids, on)
  BY DEF Lists!Flag
<1>2. /\ fetch' = Lists!Cancelled /\ stale' = Lists!AllFresh
      /\ UNCHANGED <<inbox, flagged, view, toasts, opened, untold>>
  BY DEF Lists!Flag, Lists!provider, Lists!history
<1>3. /\ act' \in [Act -> Acting \union {Lists!NoAct}]
      /\ \A b \in Act : act'[b].pc # "idle" => act'[b].key = view'
      /\ OpenIsKnown' /\ act'[a].pc = "called" /\ act'[a].kind = "flag"
  BY <1>0, <1>1, <1>2, ScreenIsOfThreads, HasBegun
<1>4. cache' \in [View -> Listed]
  BY <1>0, <1>1, ScreenIsOfThreads, PatchedTypes
<1>5. ListTypes' /\ OfTheView'
  BY <1>0, <1>2, <1>3, <1>4, NoneIsFetched, AllAreStale DEF ListTypes, OfTheView
<1>6. ListsTold'
  BY <1>3 DEF ListsTold, Owes
<1>7. FetchesTold'
  BY <1>2, NoneIsFetched DEF FetchesTold
<1> QED BY <1>3, <1>5, <1>6, <1>7 DEF ListsInv

LEMMA OpenKeeps == ASSUME ListsInv, NEW a \in Act, Lists!Open(a) PROVE ListsInv'
<1>0. ListTypes /\ OfTheView /\ OpenIsKnown
  BY DEF ListsInv
<1>1. PICK t \in Lists!OnScreen :
        Lists!Begin(a, "open", {t}, FALSE, view) /\ cache' = Lists!PatchAll({t}, FALSE)
  BY DEF Lists!Open
<1>2. /\ opened' = TRUE /\ stale' = Lists!AllFresh
      /\ UNCHANGED <<inbox, flagged, fetch, view, toasts, untold>>
  BY DEF Lists!Open, Lists!provider
<1>3. /\ act' \in [Act -> Acting \union {Lists!NoAct}]
      /\ \A b \in Act : act'[b].pc # "idle" => act'[b].key = view'
      /\ OpenIsKnown'
  BY <1>0, <1>1, <1>2, ScreenIsOfThreads, HasBegun
<1>4. cache' \in [View -> Listed]
  BY <1>0, <1>1, ScreenIsOfThreads, PatchedTypes
<1>5. ListTypes' /\ OfTheView'
  BY <1>0, <1>2, <1>3, <1>4, AllAreStale DEF ListTypes, OfTheView
<1> QED BY <1>2, <1>3, <1>5 DEF ListsInv, ListsTold, FetchesTold

LEMMA UndoKeeps ==
  ASSUME ListsInv, NEW a \in Act, Lists!Undo(a), ~Roams PROVE ListsInv'
<1>0. ListTypes /\ OfTheView /\ OpenIsKnown
  BY DEF ListsInv
<1>1. PICK toast \in toasts :
        toast.key = view /\ Lists!Begin(a, "undo", toast.ids, FALSE, toast.key)
  BY DEF Lists!Undo
<1>2. toasts' \subseteq toasts /\ UNCHANGED <<inbox, flagged, cache, stale, fetch, view, opened, untold>>
  BY DEF Lists!Undo, Lists!provider, Lists!lists, Lists!history
<1>3. toast.ids \in SUBSET Thread
  BY <1>0 DEF ListTypes
<1>4. /\ act' \in [Act -> Acting \union {Lists!NoAct}]
      /\ \A b \in Act : act'[b].pc # "idle" => act'[b].key = view'
      /\ OpenIsKnown' /\ act[a].pc = "idle" /\ \A b \in Act : b # a => act'[b] = act[b]
  BY <1>0, <1>1, <1>2, <1>3, HasBegun
<1>5. ListTypes' /\ OfTheView'
  BY <1>0, <1>2, <1>4 DEF ListTypes, OfTheView
<1>6. /\ (\E b \in Act : Owes(b)) => (\E b \in Act : Owes(b))'
      /\ (\E b \in Act : Performed(b)) => (\E b \in Act : Performed(b))'
  BY <1>4 DEF Owes, Performed
<1> QED BY <1>2, <1>4, <1>5, <1>6 DEF ListsInv, ListsTold, FetchesTold, Lists!Listing

LEMMA LooksKeep ==
  ASSUME ListsInv, ~Roams, Lists!ToastGoes \/ Lists!Switch \/ Lists!Announce PROVE ListsInv'
<1>0. ListTypes /\ OfTheView /\ OpenIsKnown
  BY DEF ListsInv
<1>1. CASE Lists!ToastGoes
  <2>1. toasts' \subseteq toasts /\ UNCHANGED <<inbox, flagged, cache, stale, fetch, view, act, opened, untold>>
    BY <1>1 DEF Lists!ToastGoes, Lists!provider, Lists!lists, Lists!history
  <2>2. ListTypes'
    BY <1>0, <2>1 DEF ListTypes
  <2> QED
    BY <2>1, <2>2 DEF ListsInv, OfTheView, OpenIsKnown, ListsTold, FetchesTold, Owes, Performed, Lists!Listing
<1>2. CASE Lists!Switch
  <2>1. /\ \A a \in Act : act[a].pc = "idle"
        /\ fetch = Lists!Cancelled
        /\ UNCHANGED <<inbox, flagged, cache, stale, act, toasts, opened, untold>>
    BY <1>2 DEF Lists!Switch, Lists!AllIdle, Lists!provider, Lists!history
  <2>2. PICK v \in View :
          view' = v /\ (fetch' = [fetch EXCEPT ![v] = IF @.at = "idle" THEN [@ EXCEPT !.at = "asked"] ELSE @]
                        \/ fetch' = fetch)
    BY <1>2 DEF Lists!Switch
  <2>3. fetch[v] = Lists!NoFetch
    BY <2>1, NoneIsFetched
  <2> DEFINE new == [Lists!NoFetch EXCEPT !.at = "asked"]
  <2>4. new \in Fetching /\ new.at = "asked" /\ Lists!NoFetch.at = "idle"
    BY DEF Lists!NoFetch, Fetching
  <2>5. fetch' = [fetch EXCEPT ![v] = new] \/ fetch' = fetch
    BY <2>2, <2>3, <2>4
  <2> HIDE DEF new
  <2>6. fetch' \in [View -> Fetching] /\ \A w \in View : (w # v => fetch'[w] = Lists!NoFetch) /\ fetch'[w].at # "read"
    BY <1>0, <2>1, <2>4, <2>5, NoneIsFetched DEF ListTypes
  <2>7. ListTypes' /\ OfTheView'
    BY <1>0, <2>1, <2>2, <2>6 DEF ListTypes, OfTheView
  <2> QED
    BY <2>1, <2>6, <2>7 DEF ListsInv, OpenIsKnown, ListsTold, FetchesTold, Owes, Lists!Listing
<1>3. CASE Lists!Announce
  <2>1. /\ stale' = Lists!AllStale /\ fetch' = Lists!Refetch(view, "none", fetch)
        /\ UNCHANGED <<inbox, flagged, cache, view, act, toasts, opened, untold>>
    BY <1>3 DEF Lists!Announce, Lists!provider, Lists!history
  <2>2. /\ fetch' \in [View -> Fetching] /\ \A v \in View : v # view => fetch'[v] = Lists!NoFetch
        /\ \A v \in View : fetch'[v].at # "read"
    BY <1>0, <2>1, RefetchOf
  <2>3. ListTypes' /\ OfTheView'
    BY <1>0, <2>1, <2>2, AllAreStale DEF ListTypes, OfTheView
  <2> QED
    BY <2>1, <2>2, <2>3, AllAreStale DEF ListsInv, OpenIsKnown, ListsTold, FetchesTold
<1> QED BY <1>1, <1>2, <1>3

-----------------------------------------------------------------------------

\* Whatever part of an action is done, the folder is one of threads.
LEMMA EffectTyped ==
  ASSUME ListTypes, NEW a \in Act, NEW done \in SUBSET Thread, Lists!Effect(a, done)
  PROVE  inbox' \subseteq Thread
BY DEF Lists!Effect, ListTypes

LEMMA PerformKeeps == ASSUME ListsInv, NEW a \in Act, Lists!Perform(a) PROVE ListsInv'
<1>0. ListTypes /\ OfTheView /\ OpenIsKnown
  BY DEF ListsInv
<1>1. /\ act[a].pc = "called" /\ act' = [act EXCEPT ![a].pc = "ok"]
      /\ UNCHANGED <<cache, stale, fetch, view, toasts, opened, untold>>
  BY DEF Lists!Perform, Lists!To, Lists!lists, Lists!history
<1>2. act[a] \in Acting
  BY <1>0, <1>1, ActingOf
<1>3. /\ act' \in [Act -> Acting \union {Lists!NoAct}]
      /\ \A b \in Act : act'[b].pc # "idle" => act'[b].key = view'
      /\ OpenIsKnown' /\ act'[a].pc = "ok" /\ act'[a].kind = act[a].kind
  BY <1>0, <1>1, GoesOn
<1>4. inbox' \subseteq Thread
  <2>1. PICK done \in SUBSET act[a].ids : Lists!Effect(a, done)
    BY DEF Lists!Perform
  <2> QED BY <1>0, <1>2, <2>1, EffectTyped DEF Acting
<1>5. ListTypes' /\ OfTheView'
  BY <1>0, <1>1, <1>3, <1>4 DEF ListTypes, OfTheView
<1>6. opened' \/ act[a].kind # "open"
  BY <1>0, <1>1 DEF OpenIsKnown
<1>7. opened' \/ (Owes(a)' /\ Performed(a)')
  BY <1>3, <1>6 DEF Owes, Performed
<1> QED BY <1>3, <1>5, <1>7 DEF ListsInv, ListsTold, FetchesTold

\* A flag that fails will mark every list stale, whatever part of it was done; of a
\* removal and of an undo with a part done no view has been told.
LEMMA RefuseKeeps == ASSUME ListsInv, NEW a \in Act, Lists!Refuse(a) PROVE ListsInv'
<1>0. ListTypes /\ OfTheView /\ OpenIsKnown
  BY DEF ListsInv
<1>1. /\ act[a].pc = "called" /\ act' = [act EXCEPT ![a].pc = "failed"]
      /\ UNCHANGED <<cache, stale, fetch, view, toasts, opened>>
  BY DEF Lists!Refuse, Lists!To, Lists!lists
<1>2. act[a] \in Acting
  BY <1>0, <1>1, ActingOf
<1>3. /\ act' \in [Act -> Acting \union {Lists!NoAct}]
      /\ \A b \in Act : act'[b].pc # "idle" => act'[b].key = view'
      /\ OpenIsKnown' /\ act'[a].pc = "failed" /\ act'[a].kind = act[a].kind
      /\ \A b \in Act : b # a => act'[b] = act[b]
  BY <1>0, <1>1, GoesOn
<1>4. PICK done \in SUBSET act[a].ids :
        /\ Lists!Effect(a, done)
        /\ untold' = IF act[a].kind \in {"removal", "undo"} /\ done # {} THEN View ELSE untold
  BY DEF Lists!Refuse
<1>5. done \in SUBSET Thread
  BY <1>2, <1>4 DEF Acting
<1>6. ListTypes' /\ OfTheView'
  BY <1>0, <1>1, <1>3, <1>4, <1>5, EffectTyped DEF ListTypes, OfTheView
<1>7. \A b \in Act : (Owes(b) => Owes(b)') /\ (Performed(b) => Performed(b)')
  BY <1>1, <1>3 DEF Owes, Performed
<1>8. CASE act[a].kind = "open"
  BY <1>0, <1>1, <1>3, <1>6, <1>8 DEF ListsInv, OpenIsKnown, ListsTold, FetchesTold
<1>9. CASE act[a].kind = "flag"
  <2>1. Owes(a)' /\ Performed(a)'
    BY <1>3, <1>9 DEF Owes, Performed
  <2> QED BY <1>3, <1>6, <2>1 DEF ListsInv, ListsTold, FetchesTold
<1>10. CASE act[a].kind \in {"removal", "undo"} /\ done # {}
  <2>1. untold' = View
    BY <1>4, <1>10
  <2>2. ListsTold' /\ FetchesTold'
    BY <2>1 DEF ListsTold, FetchesTold
  <2> QED BY <1>3, <1>6, <2>2 DEF ListsInv
<1>11. CASE act[a].kind \in {"removal", "undo"} /\ done = {}
  <2>1. UNCHANGED <<inbox, flagged, untold>>
    BY <1>4, <1>11 DEF Lists!Effect
  <2>2. ListsTold' /\ FetchesTold'
    BY <1>1, <1>7, <2>1 DEF ListsInv, ListsTold, FetchesTold, Lists!Listing
  <2> QED BY <1>3, <1>6, <2>2 DEF ListsInv
<1> QED BY <1>2, <1>8, <1>9, <1>10, <1>11 DEF Acting

\* An action that was performed asks for the list of its view, and owes the end.
LEMMA AsksKeeps ==
  ASSUME ListsInv, NEW a \in Act, Lists!Removed(a) \/ Lists!Undone(a) PROVE ListsInv'
<1>0. ListTypes /\ OfTheView /\ OpenIsKnown
  BY DEF ListsInv
<1>1. /\ act[a].pc = "ok" /\ act[a].kind \in {"removal", "undo"}
      /\ act' = [act EXCEPT ![a].pc = "refetching"]
      /\ stale' = [stale EXCEPT ![act[a].key] = TRUE]
      /\ fetch' = Lists!Refetch(act[a].key, a, fetch)
      /\ toasts' = toasts \/ toasts' = toasts \union {[ids |-> act[a].ids, key |-> act[a].key]}
      /\ UNCHANGED <<inbox, flagged, cache, view, opened, untold>>
  BY DEF Lists!Removed, Lists!Undone, Lists!Is, Lists!To, Lists!provider, Lists!history
<1>2. act[a] \in Acting /\ act[a].key = view
  BY <1>0, <1>1, ActingOf DEF OfTheView
<1>3. /\ act' \in [Act -> Acting \union {Lists!NoAct}]
      /\ \A b \in Act : act'[b].pc # "idle" => act'[b].key = view'
      /\ OpenIsKnown' /\ act'[a].pc = "refetching" /\ act'[a].kind = act[a].kind
  BY <1>0, <1>1, GoesOn
<1>4. /\ fetch' \in [View -> Fetching] /\ \A v \in View : v # view => fetch'[v] = Lists!NoFetch
      /\ \A v \in View : fetch'[v].at # "read"
  BY <1>0, <1>1, <1>2, RefetchOf
<1>5. toasts' \subseteq [ids : SUBSET Thread, key : View]
  BY <1>0, <1>1, <1>2 DEF ListTypes, Acting
<1>6. stale' \in [View -> BOOLEAN]
  BY <1>0, <1>1 DEF ListTypes
<1>7. ListTypes' /\ OfTheView'
  BY <1>0, <1>1, <1>3, <1>4, <1>5, <1>6 DEF ListTypes, OfTheView
<1>8. Owes(a)'
  BY <1>1, <1>3 DEF Owes
<1> QED BY <1>3, <1>4, <1>7, <1>8 DEF ListsInv, ListsTold, FetchesTold

LEMMA RefetchedKeeps == ASSUME ListsInv, NEW a \in Act, Lists!Refetched(a) PROVE ListsInv'
<1>0. ListTypes /\ OfTheView /\ OpenIsKnown
  BY DEF ListsInv
<1>1. /\ act[a].pc = "refetching" /\ act' = [act EXCEPT ![a] = Lists!NoAct]
      /\ stale' = Lists!AllStale
      /\ UNCHANGED <<inbox, flagged, cache, fetch, view, toasts, opened, untold>>
  BY DEF Lists!Refetched, Lists!Ends, Lists!OthersStale, Lists!provider, Lists!history
<1>2. /\ act' \in [Act -> Acting \union {Lists!NoAct}]
      /\ \A b \in Act : act'[b].pc # "idle" => act'[b].key = view'
      /\ OpenIsKnown' /\ \A b \in Act : b # a => act'[b] = act[b]
  BY <1>0, <1>1, HasEnded
<1>3. ListTypes' /\ OfTheView'
  BY <1>0, <1>1, <1>2, AllAreStale DEF ListTypes, OfTheView
<1>4. \A b \in Act : Performed(b) => Performed(b)'
  BY <1>1, <1>2 DEF Performed
<1>5. FetchesTold'
  BY <1>1, <1>4 DEF ListsInv, FetchesTold, Lists!Listing
<1> QED BY <1>1, <1>2, <1>3, <1>5, AllAreStale DEF ListsInv, ListsTold

LEMMA FailedKeeps ==
  ASSUME ListsInv, NEW a \in Act, Lists!NotRemoved(a) \/ Lists!NotUndone(a) PROVE ListsInv'
<1>0. ListTypes /\ OfTheView /\ OpenIsKnown
  BY DEF ListsInv
<1>1. /\ act[a].pc = "failed" /\ act[a].kind \in {"removal", "undo"}
      /\ act' = [act EXCEPT ![a] = Lists!NoAct]
      /\ UNCHANGED <<inbox, flagged, cache, stale, fetch, view, toasts, opened, untold>>
  BY DEF Lists!NotRemoved, Lists!NotUndone, Lists!Is, Lists!Ends, Lists!provider, Lists!lists,
         Lists!history
<1>2. /\ act' \in [Act -> Acting \union {Lists!NoAct}]
      /\ \A b \in Act : act'[b].pc # "idle" => act'[b].key = view'
      /\ OpenIsKnown' /\ \A b \in Act : b # a => act'[b] = act[b]
  BY <1>0, <1>1, HasEnded
<1>3. ListTypes' /\ OfTheView'
  BY <1>0, <1>1, <1>2 DEF ListTypes, OfTheView
<1>4. \A b \in Act : (Owes(b) => Owes(b)') /\ (Performed(b) => Performed(b)')
  BY <1>1, <1>2 DEF Owes, Performed
<1> QED BY <1>1, <1>2, <1>3, <1>4 DEF ListsInv, ListsTold, FetchesTold, Lists!Listing

LEMMA FlagSettlesKeeps ==
  ASSUME ListsInv, NEW a \in Act, Lists!FlagSettles(a) PROVE ListsInv'
<1>0. ListTypes /\ OfTheView /\ OpenIsKnown
  BY DEF ListsInv
<1>1. /\ act[a].pc \in {"ok", "failed"} /\ act' = [act EXCEPT ![a] = Lists!NoAct]
      /\ cache' = act[a].snap \/ cache' = cache
      /\ stale' = Lists!AllStale /\ fetch' = Lists!Refetch(act[a].key, "none", fetch)
      /\ UNCHANGED <<inbox, flagged, view, toasts, opened, untold>>
  BY DEF Lists!FlagSettles, Lists!Is, Lists!Ends, Lists!AfterFlag, Lists!provider, Lists!history
<1>2. act[a] \in Acting /\ act[a].key = view
  BY <1>0, <1>1, ActingOf DEF OfTheView
<1>3. /\ act' \in [Act -> Acting \union {Lists!NoAct}]
      /\ \A b \in Act : act'[b].pc # "idle" => act'[b].key = view'
      /\ OpenIsKnown'
  BY <1>0, <1>1, HasEnded
<1>4. /\ fetch' \in [View -> Fetching] /\ \A v \in View : v # view => fetch'[v] = Lists!NoFetch
      /\ \A v \in View : fetch'[v].at # "read"
  BY <1>0, <1>1, <1>2, RefetchOf
<1>5. cache' \in [View -> Listed]
  BY <1>0, <1>1, <1>2 DEF ListTypes, Acting
<1>6. ListTypes' /\ OfTheView'
  BY <1>0, <1>1, <1>3, <1>4, <1>5, AllAreStale DEF ListTypes, OfTheView
<1> QED BY <1>1, <1>3, <1>4, <1>6, AllAreStale DEF ListsInv, ListsTold, FetchesTold

LEMMA OpenSettlesKeeps ==
  ASSUME ListsInv, NEW a \in Act, Lists!OpenSettles(a) PROVE ListsInv'
<1>0. ListTypes /\ OfTheView /\ OpenIsKnown
  BY DEF ListsInv
<1>1. /\ act[a].pc \in {"ok", "failed"} /\ act[a].kind = "open"
      /\ act' = [act EXCEPT ![a] = Lists!NoAct]
      /\ \/ UNCHANGED <<cache, stale>>
         \/ cache' = Lists!PatchAll(act[a].ids, TRUE) /\ stale' = Lists!AllFresh
      /\ UNCHANGED <<inbox, flagged, fetch, view, toasts, opened, untold>>
  BY DEF Lists!OpenSettles, Lists!Is, Lists!Ends, Lists!provider, Lists!history
<1>2. act[a].ids \in SUBSET Thread
  BY <1>0, <1>1, ActingOf DEF Acting
<1>3. /\ act' \in [Act -> Acting \union {Lists!NoAct}]
      /\ \A b \in Act : act'[b].pc # "idle" => act'[b].key = view'
      /\ OpenIsKnown'
  BY <1>0, <1>1, HasEnded
<1>4. cache' \in [View -> Listed] /\ stale' \in [View -> BOOLEAN]
  BY <1>0, <1>1, <1>2, PatchedTypes, AllAreStale DEF ListTypes
<1>5. ListTypes' /\ OfTheView'
  BY <1>0, <1>1, <1>3, <1>4 DEF ListTypes, OfTheView
<1>6. opened'
  BY <1>0, <1>1 DEF OpenIsKnown
<1> QED BY <1>3, <1>5, <1>6 DEF ListsInv, ListsTold, FetchesTold

LEMMA FetchKeeps == ASSUME ListsInv, NEW v \in View, Lists!Fetch(v) PROVE ListsInv'
<1>0. ListTypes /\ OfTheView /\ OpenIsKnown
  BY DEF ListsInv
<1>1. /\ UNCHANGED <<inbox, flagged, view, act, toasts, opened>>
      /\ fetch[v].at \in {"asked", "read"}
  BY DEF Lists!Fetch, Lists!Read, Lists!Land, Lists!FetchFails, Lists!provider, Lists!history
<1>2. v = view
  BY <1>0, <1>1 DEF OfTheView, Lists!NoFetch
<1>3. Lists!NoFetch \in Fetching /\ Lists!NoFetch.at = "idle"
  BY DEF Lists!NoFetch, Fetching
<1>4. CASE Lists!Read(v)
  <2> DEFINE new == [fetch[v] EXCEPT !.at = "read", !.got = Lists!Listing]
  <2>1. fetch' = [fetch EXCEPT ![v] = new] /\ UNCHANGED <<cache, stale, untold>>
    BY <1>0, <1>4 DEF Lists!Read, Lists!history, ListTypes
  <2>2. fetch[v] \in Fetching /\ Lists!Listing \in Listed
    BY <1>0, ListingTyped DEF ListTypes
  <2>3. new \in Fetching /\ new.got = Lists!Listing
    BY <2>2 DEF Fetching
  <2> HIDE DEF new
  <2>4. fetch' \in [View -> Fetching] /\ \A w \in View : fetch'[w] = IF w = v THEN new ELSE fetch[w]
    BY <1>0, <2>1, <2>3 DEF ListTypes
  <2>5. ListTypes' /\ OfTheView' /\ OpenIsKnown'
    <3>1. new.got \in Listed
      BY <2>2, <2>3
    <3>2. ListTypes'
      BY <1>0, <1>1, <2>1, <2>4, <3>1 DEF ListTypes
    <3> QED BY <1>0, <1>1, <1>2, <2>4, <3>2 DEF OfTheView, OpenIsKnown
  <2>6. ListsTold'
    BY <1>1, <2>1 DEF ListsInv, ListsTold, Owes, Lists!Listing
  <2>7. Lists!Listing' = Lists!Listing
    BY <1>1 DEF Lists!Listing
  <2>8. \A w \in View : w # v => fetch'[w].at # "read"
    BY <1>0, <1>2, <1>3, <2>4 DEF OfTheView
  <2>9. FetchesTold'
    BY <2>3, <2>4, <2>7, <2>8 DEF FetchesTold
  <2> QED BY <2>5, <2>6, <2>9 DEF ListsInv
<1>5. CASE Lists!FetchFails(v)
  <2>1. fetch' = [fetch EXCEPT ![v] = Lists!NoFetch] /\ UNCHANGED <<cache, stale, untold>>
    BY <1>5 DEF Lists!FetchFails
  <2>2. fetch' \in [View -> Fetching] /\ \A w \in View : fetch'[w] = Lists!NoFetch
    BY <1>0, <1>2, <1>3, <2>1 DEF ListTypes, OfTheView
  <2>3. ListTypes' /\ OfTheView' /\ OpenIsKnown'
    BY <1>0, <1>1, <1>3, <2>1, <2>2 DEF ListTypes, OfTheView, OpenIsKnown
  <2>4. ListsTold' /\ FetchesTold'
    BY <1>1, <1>3, <2>1, <2>2 DEF ListsInv, ListsTold, FetchesTold, Owes, Lists!Listing
  <2> QED BY <2>3, <2>4 DEF ListsInv
<1>6. CASE Lists!Land(v)
  <2>1. /\ fetch[v].at = "read" /\ fetch' = [fetch EXCEPT ![v] = Lists!NoFetch]
        /\ cache' = [cache EXCEPT ![v] = fetch[v].got] /\ stale' = [stale EXCEPT ![v] = FALSE]
        /\ untold' = IF fetch[v].got = Lists!Listing THEN untold \ {v} ELSE untold
    BY <1>6 DEF Lists!Land
  <2>2. fetch' \in [View -> Fetching] /\ \A w \in View : fetch'[w] = Lists!NoFetch
    BY <1>0, <1>2, <1>3, <2>1 DEF ListTypes, OfTheView
  <2>3. fetch[v].got \in Listed
    BY <1>0, <2>1 DEF ListTypes
  <2>4. /\ cache' \in [View -> Listed] /\ stale' \in [View -> BOOLEAN]
        /\ cache'[v] = fetch[v].got /\ \A w \in View : w # v => cache'[w] = cache[w] /\ stale'[w] = stale[w]
    BY <1>0, <2>1, <2>3 DEF ListTypes
  <2>5. ListTypes' /\ OfTheView' /\ OpenIsKnown'
    BY <1>0, <1>1, <1>3, <2>2, <2>4 DEF ListTypes, OfTheView, OpenIsKnown
  <2>6. Lists!Listing' = Lists!Listing
    BY <1>1 DEF Lists!Listing
  <2>7. ASSUME opened \/ \E a \in Act : Owes(a) PROVE ListsTold'
    BY <1>1, <2>7 DEF ListsTold, Owes
  <2>8. ASSUME ~opened /\ ~\E a \in Act : Owes(a) PROVE ListsTold'
    <3>1. ~\E a \in Act : Performed(a)
      BY <2>8 DEF Owes, Performed
    <3>2. fetch[v].got = Lists!Listing \/ (v \in untold /\ untold' = untold)
      BY <2>1, <2>8, <3>1 DEF ListsInv, FetchesTold
    <3>3. \A w \in View : cache[w] = Lists!Listing \/ stale[w] \/ w \in untold
      BY <2>8 DEF ListsInv, ListsTold
    <3>4. \A w \in View : w # v /\ w \in untold => w \in untold'
      BY <2>1
    <3>5. \A w \in View : cache'[w] = Lists!Listing' \/ stale'[w] \/ w \in untold'
      BY <2>4, <2>6, <3>2, <3>3, <3>4
    <3> QED BY <3>5 DEF ListsTold
  <2>9. FetchesTold'
    BY <1>3, <2>2 DEF FetchesTold
  <2> QED BY <2>5, <2>7, <2>8, <2>9 DEF ListsInv
<1> QED BY <1>4, <1>5, <1>6 DEF Lists!Fetch

-----------------------------------------------------------------------------

\* A user opens one of their views: there is one.
LEMMA ListsInitInv == ASSUME View # {}, Lists!Init PROVE ListsInv
<1>1. view \in View
  BY DEF Lists!Init
<1>2. Lists!NoAct.pc = "idle" /\ Lists!NoFetch.at = "idle"
  BY DEF Lists!NoAct, Lists!NoFetch
<1>3. /\ act \in [Act -> Acting \union {Lists!NoAct}] /\ \A a \in Act : act[a] = Lists!NoAct
      /\ fetch = Lists!Cancelled
  BY DEF Lists!Init
<1>4. inbox \subseteq Thread /\ opened \in BOOLEAN /\ toasts = {}
  BY DEF Lists!Init
<1>5. Lists!Listing \in Listed
  BY <1>4 DEF Lists!Listing, Listed
<1>6. /\ cache \in [View -> Listed] /\ \A v \in View : cache[v] = Lists!Listing
      /\ stale \in [View -> BOOLEAN]
  BY <1>5, AllAreStale DEF Lists!Init
<1>7. ListTypes
  BY <1>1, <1>3, <1>4, <1>6, NoneIsFetched DEF ListTypes
<1> QED
  BY <1>2, <1>3, <1>6, <1>7, NoneIsFetched
  DEF ListsInv, OfTheView, OpenIsKnown, ListsTold, FetchesTold

LEMMA ListsNextInv == ASSUME ListsInv, ~Roams, Lists!Next PROVE ListsInv'
<1>1. ASSUME Lists!User PROVE ListsInv'
  BY <1>1, RemoveKeeps, FlagKeeps, OpenKeeps, UndoKeeps, LooksKeep DEF Lists!User
<1>2. ASSUME NEW a \in Act, Lists!Settle(a) PROVE ListsInv'
  BY <1>2, PerformKeeps, RefuseKeeps, AsksKeeps, RefetchedKeeps, FailedKeeps, FlagSettlesKeeps,
     OpenSettlesKeeps DEF Lists!Settle
<1> QED BY <1>1, <1>2, LooksKeep, FetchKeeps DEF Lists!Next

LEMMA ListsStutter == ASSUME ListsInv, UNCHANGED Lists!vars PROVE ListsInv'
BY DEF Lists!vars, ListsInv, ListTypes, OfTheView, OpenIsKnown, ListsTold, FetchesTold, Owes,
       Performed, Lists!Listing

\* use-thread-actions.ts, markOtherCachesStale: as long as no thread was marked
\* read by being opened, a list that mounting would not refetch shows what the
\* provider has whenever no action is under way, or has not been fetched since a
\* removal or an undo failed with a part of it done: whatever actions overlap, do
\* their work in part, fail, are undone, and whichever fetches they overtake; for
\* a user who stays in a view meanwhile.
THEOREM FreshListsAreTrue ==
  View # {} /\ ~Roams => (Lists!Spec => []Lists!FreshIsTrue)
<1> SUFFICES ASSUME View # {}, ~Roams PROVE Lists!Spec => []Lists!FreshIsTrue
  OBVIOUS
<1>1. Lists!Init => ListsInv
  BY ListsInitInv
<1>2. ListsInv /\ [Lists!Next]_(Lists!vars) => ListsInv'
  BY ListsNextInv, ListsStutter
<1>3. ListsInv => Lists!FreshIsTrue
  BY DEF ListsInv, ListsTold, Owes, Lists!FreshIsTrue, Lists!AllIdle
<1> QED BY <1>1, <1>2, <1>3, PTL DEF Lists!Spec
=============================================================================
