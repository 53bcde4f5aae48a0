----------------------------- MODULE Scheduler -----------------------------
(***************************************************************************)
(* The durable sync loop of a connection: scheduleSyncConnection and the   *)
(* one-shot syncConnection of server/workflows/sync-connection.ts.         *)
(*                                                                         *)
(* A run is one execution of either workflow.  A loop is a chain of runs,  *)
(* each started by the one before with the same scheduler id; sync_state   *)
(* names the id that owns the connection and the age of its last claim.    *)
(* A cycle, detailed in SyncCycle, is here what the rest of the system     *)
(* sees of it: it loads the connection, publishes records about its mail   *)
(* and publishes its status.  Connections come and go (module Accounts).   *)
(***************************************************************************)
EXTENDS Integers, FiniteSets

CONSTANTS
  MaxConn,     \* bound: connections ever created
  Run,         \* slots for workflow runs
  SchedulerId, \* scheduler ids; one not in use stands for a fresh UUID
  NoId,
  MaxFaults,   \* bound: deaths, lost results, failed publications
  SlowLoops,   \* may a live loop leave its heartbeat for SCHEDULER_STALE_MS?
  Loops        \* bound: do loops start, or one-shot runs only?

Conn == 1..MaxConn

ASSUME SchedulerAssumption ==
  /\ MaxConn \in Nat \ {0} /\ MaxFaults \in Nat
  /\ IsFiniteSet(SchedulerId) /\ NoId \notin SchedulerId
  /\ IsFiniteSet(Run)
  \* there is always a fresh UUID
  /\ Cardinality(SchedulerId) > MaxConn + Cardinality(Run)
  /\ SlowLoops \in BOOLEAN /\ Loops \in BOOLEAN

VARIABLES
  row,        \* the connection rows: "none", "live" or "gone" (never reused)
  owner,      \* sync_state.schedulerRunId
  beat,       \* sync_state.schedulerHeartbeatAt
  run,        \* the workflow runs
  mailRecs,   \* connections with Label, ThreadPreview or Message records
  statusRecs, \* connections with a ConnectionSyncStatus record
  faults,     \* faults so far
  forked      \* history: connections whose reschedule was executed twice

stateVars == <<owner, beat>>
recVars == <<mailRecs, statusRecs>>
schedVars == <<stateVars, run, recVars, forked>>

\* A free slot.  loop: scheduleSyncConnection, else syncConnection.
NoRun == [pc |-> "idle", conn |-> 0, id |-> NoId, loop |-> FALSE]

SchedInit ==
  /\ row = [c \in Conn |-> "none"]
  /\ owner = [c \in Conn |-> NoId] /\ beat = [c \in Conn |-> "never"]
  /\ run = [r \in Run |-> NoRun]
  /\ mailRecs = {} /\ statusRecs = {}
  /\ faults = 0 /\ forked = {}

Live == {c \in Conn : row[c] = "live"}

Fault == faults < MaxFaults /\ faults' = faults + 1

IdleRuns == {r \in Run : run[r].pc = "idle"}

\* start(): a new run of a workflow, in a free slot.
Started(r, c, id, loop) ==
  [run EXCEPT ![r] = [pc |-> IF loop THEN "exists" ELSE "load",
                      conn |-> c, id |-> id, loop |-> loop]]

Goto(r, step) == run' = [run EXCEPT ![r].pc = step]
End(r) == run' = [run EXCEPT ![r] = NoRun]

\* After a cycle that returned; the interval it chooses has no other effect.
Returned(r) == IF run[r].loop THEN Goto(r, "sleep") ELSE End(r)

\* After a cycle that threw: the loop records the error, a one-shot run ends.
Thrown(r) == IF run[r].loop THEN Goto(r, "error") ELSE End(r)

-----------------------------------------------------------------------------

\* connectionExistsStep
Exists(r) ==
  /\ run[r].pc = "exists"
  /\ IF row[run[r].conn] = "live" THEN Goto(r, "claim") ELSE End(r)
  /\ UNCHANGED <<row, stateVars, recVars, faults, forked>>

\* Ids of the loops there are: crypto.randomUUID() draws another.
InUse == {owner[c] : c \in Conn} \union {run[r].id : r \in Run}
FreshIds == SchedulerId \ InUse

\* Variant: the age of the heartbeat is not looked at...
ClaimableOnce(c, given) == owner[c] = NoId \/ given = owner[c]

\* ... or any heartbeat is taken for an old one.
ClaimableAny(c, given) == owner[c] = NoId \/ beat[c] # "never"

\* The conditions of the claim's UPDATE.
Claimable(c, given) ==
  \/ owner[c] = NoId
  \/ beat[c] \in {"never", "stale"}
  \/ given # NoId /\ owner[c] = given

\* The id a claim writes: the one the run was given, or a fresh one.
IdFor(given) == IF given = NoId THEN CHOOSE id \in FreshIds : TRUE ELSE given

\* claimSchedulerStep.  sync_state refers to the connection: without it the
\* insert fails, and the run with it.
Claim(r) ==
  LET c == run[r].conn
      given == run[r].id
  IN /\ run[r].pc = "claim"
     /\ IF row[c] = "live" /\ Claimable(c, given)
        THEN /\ owner' = [owner EXCEPT ![c] = IdFor(given)]
             /\ beat' = [beat EXCEPT ![c] = "fresh"]
             /\ run' = [run EXCEPT ![r].id = IdFor(given), ![r].pc = "load"]
        ELSE End(r) /\ UNCHANGED stateVars
     /\ UNCHANGED <<row, recVars, faults, forked>>

\* The claim commits, its result is lost, the step is executed again: it draws
\* another id.
ClaimLost(r) ==
  LET c == run[r].conn
  IN /\ run[r].pc = "claim" /\ row[c] = "live" /\ Claimable(c, run[r].id)
     /\ Fault
     /\ owner' = [owner EXCEPT ![c] = IdFor(run[r].id)]
     /\ beat' = [beat EXCEPT ![c] = "fresh"]
     /\ UNCHANGED <<row, run, recVars, forked>>

\* loadSyncStateStep and the claim of the cycle lock: without a connection it
\* throws, when another cycle holds the lock this one is skipped.
Load(r) ==
  /\ run[r].pc = "load"
  /\ IF row[run[r].conn] = "live"
     THEN Returned(r) \/ Goto(r, "fetch")
     ELSE Thrown(r)
  /\ UNCHANGED <<row, stateVars, recVars, faults, forked>>

\* The provider is asked, and the rows of the connection are written: both
\* need the connection.
Fetch(r) ==
  /\ run[r].pc = "fetch"
  /\ \/ row[run[r].conn] = "live" /\ Goto(r, "publish")
     \/ Goto(r, "failed")
  /\ UNCHANGED <<row, stateVars, recVars, faults, forked>>

\* upsertThreadsStep and syncLabelsStep publish records: no key refers to the
\* connection.
Publish(r) ==
  /\ run[r].pc = "publish"
  /\ mailRecs' = mailRecs \union {run[r].conn}
  /\ Goto(r, "status")
  /\ UNCHANGED <<row, stateVars, statusRecs, faults, forked>>

\* releaseSyncLockStep publishes the status when it is news.
Status(r) ==
  /\ run[r].pc \in {"status", "failed"}
  /\ \E news \in BOOLEAN :
       statusRecs' = IF news THEN statusRecs \union {run[r].conn} ELSE statusRecs
  /\ IF run[r].pc = "status" THEN Returned(r) ELSE Thrown(r)
  /\ UNCHANGED <<row, stateVars, mailRecs, faults, forked>>

\* recordSyncErrorStep: an UPDATE, of no row when the connection is gone.
RecordError(r) ==
  /\ run[r].pc = "error"
  /\ Goto(r, "sleep")
  /\ UNCHANGED <<row, stateVars, recVars, faults, forked>>

\* The sleep ends; rescheduleSelfStep starts the next run of the chain, in the
\* slot this one leaves.
Reschedule(r) ==
  /\ run[r].pc = "sleep"
  /\ run' = Started(r, run[r].conn, run[r].id, TRUE)
  /\ UNCHANGED <<row, stateVars, recVars, faults, forked>>

\* The next run is started, the step's result is lost: it will start another.
RescheduleLost(r) ==
  /\ run[r].pc = "sleep" /\ Fault
  /\ \E s \in IdleRuns : run' = Started(s, run[r].conn, run[r].id, TRUE)
  /\ forked' = forked \union {run[r].conn}
  /\ UNCHANGED <<row, stateVars, recVars>>

\* A run is gone for good, a workflow that does not recover.
Die(r) ==
  /\ run[r].pc # "idle" /\ Fault
  /\ End(r)
  /\ UNCHANGED <<row, stateVars, recVars, forked>>

\* SCHEDULER_STALE_MS pass without a claim.
HeartbeatAges(c) ==
  /\ beat[c] = "fresh"
  /\ SlowLoops \/ \A r \in Run : run[r].id # owner[c]
  /\ beat' = [beat EXCEPT ![c] = "stale"]
  /\ UNCHANGED <<row, owner, run, recVars, faults, forked>>

\* ensureSchedulersForUser, startSyncSchedulerForConnection: a sign-in or a
\* socket starts a loop for a connection.
StartLoop(c) ==
  /\ Loops /\ c \in Live
  /\ \E r \in IdleRuns : run' = Started(r, c, NoId, TRUE)
  /\ UNCHANGED <<row, stateVars, recVars, faults, forked>>

\* syncConnectionNow, and what stands in for a loop without the workflow
\* runtime: a one-shot run.
StartCycle(c) ==
  /\ c \in Live
  /\ \E r \in IdleRuns : run' = Started(r, c, NoId, FALSE)
  /\ UNCHANGED <<row, stateVars, recVars, faults, forked>>

Step(r) ==
  \/ Exists(r) \/ Claim(r) \/ Load(r) \/ Fetch(r) \/ Publish(r) \/ Status(r)
  \/ RecordError(r) \/ Reschedule(r)

SchedNext ==
  \/ \E r \in Run : Step(r) \/ ClaimLost(r) \/ RescheduleLost(r) \/ Die(r)
  \/ \E c \in Conn : HeartbeatAges(c) \/ StartLoop(c) \/ StartCycle(c)

\* A connection is linked, or deleted with its sync_state: module Accounts.
Appear(c) ==
  /\ row[c] = "none" /\ row' = [row EXCEPT ![c] = "live"]
  /\ UNCHANGED <<schedVars, faults>>
Vanish(c) ==
  /\ row[c] = "live" /\ row' = [row EXCEPT ![c] = "gone"]
  /\ owner' = [owner EXCEPT ![c] = NoId] /\ beat' = [beat EXCEPT ![c] = "never"]
  /\ UNCHANGED <<run, recVars, faults, forked>>

SchedAlone == SchedNext \/ \E c \in Conn : Appear(c) \/ Vanish(c)

svars == <<row, schedVars, faults>>
SchedSpec == SchedInit /\ [][SchedAlone]_svars

\* The workflow runtime resumes runs; time passes; the user comes back and a
\* loop is started again and again.
SchedFairness ==
  /\ \A r \in Run : WF_svars(Step(r))
  /\ \A c \in Conn : WF_svars(HeartbeatAges(c)) /\ SF_svars(StartLoop(c))
SchedFairSpec == SchedSpec /\ SchedFairness

-----------------------------------------------------------------------------
(* Properties *)

SchedTypeOK ==
  /\ row \in [Conn -> {"none", "live", "gone"}]
  /\ owner \in [Conn -> SchedulerId \union {NoId}]
  /\ beat \in [Conn -> {"never", "fresh", "stale"}]
  /\ run \in [Run -> [pc : {"idle", "exists", "claim", "load", "fetch", "publish",
                            "failed", "status", "error", "sleep"},
                      conn : Conn \union {0}, id : SchedulerId \union {NoId},
                      loop : BOOLEAN]]
  /\ \A r \in Run :
       /\ ~run[r].loop => run[r].pc \notin {"exists", "claim", "error", "sleep"}
       /\ run[r].loop /\ run[r].pc \notin {"exists", "claim"} => run[r].id # NoId
  /\ mailRecs \subseteq Conn /\ statusRecs \subseteq Conn
  /\ faults \in 0..MaxFaults /\ forked \subseteq Conn

\* A run that has claimed the loop of c and has not yet handed it on.
Looping(r, c) ==
  /\ run[r].conn = c /\ run[r].loop
  /\ run[r].pc \notin {"idle", "exists", "claim"}

\* "Safe to start more than once": a connection never has two loops at work,
\* whatever is started, dies and is taken over, unless a rescheduleSelfStep was
\* executed twice (the two chains then share an id for ever).
OneLoop ==
  \A c \in Conn \ forked : Cardinality({r \in Run : Looping(r, c)}) <= 1

\* "A dead loop's slot is taken over": as long as a connection exists its
\* cycles recur, whatever died or lost its claim.
LoopRecurs ==
  \A c \in Conn :
    []<>(c \notin Live \/ \E r \in Run : run[r].pc = "load" /\ run[r].conn = c)
=============================================================================
