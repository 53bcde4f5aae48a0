--------------------------- MODULE AccountsProofs ---------------------------
(***************************************************************************)
(* Proofs about Scheduler and about Accounts, which extends it, for any    *)
(* numbers of connections, requests, runs, ids and faults, and any mixture *)
(* of requests: type correctness of both, that a connection has one loop,  *)
(* also when it is linked and deleted while loops start and die, and that  *)
(* what a deletion removes stays removed.  At the end, about Sessions:     *)
(* that a browser holds its user's mail only.                              *)
(***************************************************************************)
EXTENDS Accounts, FiniteSetTheorems, TLAPS

-----------------------------------------------------------------------------
(* The loops of the scheduler *)

Pcs == {"idle", "exists", "claim", "load", "fetch", "publish", "failed", "status",
        "error", "sleep"}
RunRecord == [pc : Pcs, conn : Conn \union {0}, id : SchedulerId \union {NoId}, loop : BOOLEAN]

\* The locals of a run: a one-shot run has no id, a loop has one once it has
\* claimed, and whatever runs belongs to a connection.
Proper(l) ==
  /\ l \in RunRecord
  /\ l.pc # "idle" => l.conn \in Conn
  /\ l.pc = "idle" => l = NoRun
  /\ ~l.loop => l.id = NoId /\ l.pc \notin {"exists", "claim", "error", "sleep"}
  /\ l.loop /\ l.pc \notin {"exists", "claim"} => l.id # NoId

RunsProper == run \in [Run -> RunRecord] /\ \A r \in Run : Proper(run[r])

\* Two runs with one id are of one connection, whose reschedule was repeated.
IdsApart ==
  \A r, s \in Run :
    r # s /\ run[r].id # NoId /\ run[r].id = run[s].id =>
      run[r].conn = run[s].conn /\ run[r].conn \in forked

\* A run at work on the loop of a connection that exists owns it, by a
\* heartbeat that is fresh; and there is one.
LoopOwns ==
  \A c \in Conn \ forked : \A r \in Run : Looping(r, c) =>
    /\ \/ row[c] = "gone"
       \/ row[c] = "live" /\ owner[c] = run[r].id /\ beat[c] = "fresh"
    /\ \A s \in Run : Looping(s, c) => s = r

SchedInv == SchedTypeOK /\ RunsProper /\ IdsApart /\ (~SlowLoops => LoopOwns)

-----------------------------------------------------------------------------
(* Fresh ids and the locals of a run *)

LEMMA SchedBounds ==
  /\ MaxConn \in Nat \ {0} /\ MaxFaults \in Nat /\ Conn \subseteq Nat \ {0}
  /\ NoId \notin SchedulerId
  BY SchedulerAssumption DEF Conn

\* A fresh id exists and is no one's: there are more of them than owners and runs.
LEMMA FreshId ==
  ASSUME SchedTypeOK
  PROVE  /\ IdFor(NoId) \in SchedulerId
         /\ \A r \in Run : run[r].id # IdFor(NoId)
         /\ \A given : given # NoId => IdFor(given) = given
<1> DEFINE Owners == {owner[c] : c \in Conn}
           Ids == {run[r].id : r \in Run}
<1>1. IsFiniteSet(Conn) /\ Cardinality(Conn) = MaxConn
  BY SchedBounds, FS_Interval DEF Conn
<1>2. IsFiniteSet(Owners) /\ Cardinality(Owners) <= MaxConn
  <2>1. [c \in Conn |-> owner[c]] \in Surjection(Conn, Owners)
    BY DEF Surjection
  <2> HIDE DEF Owners
  <2> QED BY <1>1, <2>1, FS_Surjection
<1>3. IsFiniteSet(Ids) /\ Cardinality(Ids) <= Cardinality(Run)
  <2>1. [r \in Run |-> run[r].id] \in Surjection(Run, Ids)
    BY DEF Surjection
  <2> HIDE DEF Ids
  <2> QED BY <2>1, SchedulerAssumption, FS_Surjection
<1>4. /\ Cardinality(Owners) \in Nat /\ Cardinality(Ids) \in Nat
      /\ Cardinality(Run) \in Nat /\ Cardinality(SchedulerId) \in Nat
  BY <1>2, <1>3, SchedulerAssumption, FS_CardinalityType
<1>5. InUse = Owners \union Ids
  BY DEF InUse
<1> HIDE DEF Owners, Ids
<1>6. IsFiniteSet(Owners \intersect Ids) /\ Cardinality(Owners \intersect Ids) \in Nat
  BY <1>2, FS_Intersection, FS_CardinalityType
<1>7. /\ IsFiniteSet(InUse) /\ Cardinality(InUse) \in Nat
      /\ Cardinality(InUse) <= MaxConn + Cardinality(Run)
  <2>1. /\ IsFiniteSet(InUse)
        /\ Cardinality(InUse) =
             Cardinality(Owners) + Cardinality(Ids) - Cardinality(Owners \intersect Ids)
    BY <1>2, <1>3, <1>5, FS_Union
  <2>2. Cardinality(InUse) \in Nat
    BY <2>1, FS_CardinalityType
  <2> QED BY <1>2, <1>3, <1>4, <1>6, <2>1, <2>2, SchedBounds
<1>8. FreshIds # {}
  <2> SUFFICES ASSUME FreshIds = {} PROVE FALSE
    OBVIOUS
  <2>1. SchedulerId \subseteq InUse
    BY DEF FreshIds
  <2>2. Cardinality(SchedulerId) <= Cardinality(InUse)
    BY <1>7, <2>1, FS_Subset
  <2> QED BY <1>4, <1>7, <2>2, SchedBounds, SchedulerAssumption
<1>9. IdFor(NoId) \in FreshIds
  BY <1>8 DEF IdFor
<1>10. \A r \in Run : run[r].id \in InUse
  BY DEF InUse
<1> QED BY <1>9, <1>10 DEF FreshIds, IdFor

LEMMA NoRunProper == Proper(NoRun) /\ NoRun.pc = "idle" /\ NoRun.id = NoId
  BY DEF NoRun, Proper, RunRecord, Pcs

LEMMA SetRun ==
  ASSUME RunsProper, NEW r \in Run, NEW l, Proper(l), run' = [run EXCEPT ![r] = l]
  PROVE  /\ RunsProper' /\ run'[r] = l
         /\ \A s \in Run : s # r => run'[s] = run[s]
  BY DEF RunsProper, Proper

\* A run that goes to another step keeps the rest of its locals.
LEMMA GotoFacts ==
  ASSUME RunsProper, NEW r \in Run, NEW step \in Pcs, Goto(r, step)
  PROVE  LET l == [run[r] EXCEPT !.pc = step]
         IN /\ run' = [run EXCEPT ![r] = l]
            /\ l \in RunRecord /\ l.pc = step
            /\ l.conn = run[r].conn /\ l.id = run[r].id /\ l.loop = run[r].loop
  BY DEF RunsProper, RunRecord, Goto

\* A loop that is started, by a user or by the run before.
LEMMA StartedFacts ==
  ASSUME NEW r \in Run, NEW c \in Conn, NEW id \in SchedulerId \union {NoId},
         NEW loop \in BOOLEAN, loop \/ id = NoId, run' = Started(r, c, id, loop)
  PROVE  LET l == [pc |-> IF loop THEN "exists" ELSE "load",
                   conn |-> c, id |-> id, loop |-> loop]
         IN run' = [run EXCEPT ![r] = l] /\ Proper(l)
  BY DEF Started, Proper, RunRecord, Pcs

LEMMA TypesOfRuns ==
  ASSUME RunsProper',
         row' \in [Conn -> {"none", "live", "gone"}],
         owner' \in [Conn -> SchedulerId \union {NoId}],
         beat' \in [Conn -> {"never", "fresh", "stale"}],
         mailRecs' \subseteq Conn, statusRecs' \subseteq Conn,
         faults' \in 0..MaxFaults, forked' \subseteq Conn
  PROVE  SchedTypeOK'
  BY DEF RunsProper, Proper, RunRecord, Pcs, SchedTypeOK

LEMMA SchedFaultCounted ==
  ASSUME faults \in 0..MaxFaults, Fault PROVE faults' \in 0..MaxFaults
  BY SchedBounds DEF Fault

-----------------------------------------------------------------------------
(* Steps that leave the claims alone *)

LEMMA SchedInitInv == SchedInit => SchedInv
<1> SUFFICES ASSUME SchedInit PROVE SchedInv
  OBVIOUS
<1>1. RunsProper /\ \A r \in Run : run[r] = NoRun
  BY NoRunProper DEF SchedInit, RunsProper, Proper
<1>2. 0 \in 0..MaxFaults
  BY SchedBounds
<1>3. SchedTypeOK
  BY <1>1, <1>2 DEF SchedInit, SchedTypeOK, RunsProper, Proper, RunRecord, Pcs
<1>4. IdsApart /\ LoopOwns
  BY <1>1, NoRunProper DEF IdsApart, LoopOwns, Looping
<1> QED BY <1>1, <1>3, <1>4 DEF SchedInv

\* A run moves on to locals that bring in no id and no loop at work.
Tame(r, l) ==
  /\ Proper(l)
  /\ l.id # NoId => l.id = run[r].id /\ l.conn = run[r].conn
  /\ l.loop /\ l.pc \notin {"idle", "exists", "claim"} => Looping(r, l.conn)

LEMMA TameInv ==
  ASSUME SchedInv, NEW r \in Run, NEW l, Tame(r, l), run' = [run EXCEPT ![r] = l],
         UNCHANGED <<row, owner, beat, forked>>,
         mailRecs' \subseteq Conn, statusRecs' \subseteq Conn, faults' \in 0..MaxFaults
  PROVE  SchedInv'
<1>1. /\ RunsProper' /\ run'[r] = l
      /\ \A s \in Run : s # r => run'[s] = run[s]
  BY SetRun DEF SchedInv, Tame
<1>2. SchedTypeOK'
  <2>1. /\ row' \in [Conn -> {"none", "live", "gone"}]
        /\ owner' \in [Conn -> SchedulerId \union {NoId}]
        /\ beat' \in [Conn -> {"never", "fresh", "stale"}] /\ forked' \subseteq Conn
    BY DEF SchedInv, SchedTypeOK
  <2> QED BY <1>1, <2>1, TypesOfRuns
<1>3. IdsApart'
  BY <1>1 DEF SchedInv, IdsApart, Tame
<1>4. ASSUME NEW c \in Conn, NEW s \in Run, Looping(s, c)'
      PROVE  Looping(s, c) /\ run'[s].id = run[s].id
  <2>1. CASE s = r
    <3>1. l.loop /\ l.pc \notin {"idle", "exists", "claim"} /\ l.conn = c
      BY <1>1, <1>4, <2>1 DEF Looping
    <3> QED BY <1>1, <2>1, <3>1 DEF Tame, Proper
  <2>2. CASE s # r
    BY <1>1, <1>4, <2>2 DEF Looping
  <2> QED BY <2>1, <2>2
<1>5. ~SlowLoops => LoopOwns'
  BY <1>4 DEF SchedInv, LoopOwns
<1> QED BY <1>1, <1>2, <1>3, <1>5 DEF SchedInv

\* What is recorded is about a connection.
LEMMA GotoTame ==
  ASSUME SchedInv, NEW r \in Run, NEW step \in Pcs, Goto(r, step),
         run[r].pc # "idle", step # "idle",
         step \in {"exists", "claim"} => run[r].loop,
         step \in {"error", "sleep"} => run[r].loop,
         run[r].pc \in {"exists", "claim"} => step \in {"exists", "claim"}
  PROVE  \E l : Tame(r, l) /\ run' = [run EXCEPT ![r] = l]
<1> DEFINE l == [run[r] EXCEPT !.pc = step]
<1>1. /\ run' = [run EXCEPT ![r] = l] /\ l \in RunRecord /\ l.pc = step
      /\ l.conn = run[r].conn /\ l.id = run[r].id /\ l.loop = run[r].loop
  BY GotoFacts DEF SchedInv
<1>2. Proper(run[r])
  BY DEF SchedInv, RunsProper
<1> HIDE DEF l
<1>3. Proper(l)
  BY <1>1, <1>2 DEF Proper
<1>4. Tame(r, l)
  BY <1>1, <1>3 DEF Tame, Looping
<1> QED BY <1>1, <1>4

LEMMA EndTame ==
  ASSUME NEW r \in Run, End(r)
  PROVE  \E l : Tame(r, l) /\ run' = [run EXCEPT ![r] = l]
<1>1. Tame(r, NoRun)
  BY NoRunProper DEF Tame
<1> QED BY <1>1 DEF End

LEMMA ReturnTame ==
  ASSUME SchedInv, NEW r \in Run, run[r].pc \in {"load", "fetch", "publish", "failed", "status"},
         Returned(r) \/ Thrown(r)
  PROVE  \E l : Tame(r, l) /\ run' = [run EXCEPT ![r] = l]
  BY GotoTame, EndTame DEF Returned, Thrown, Pcs

\* The steps of a run that neither claim nor lose a result.
LEMMA StepInv ==
  ASSUME SchedInv, NEW r \in Run, Step(r), ~Claim(r) PROVE SchedInv'
<1>1. /\ UNCHANGED <<row, owner, beat, forked, faults>>
      /\ mailRecs' \subseteq mailRecs \union {run[r].conn}
      /\ statusRecs' \subseteq statusRecs \union {run[r].conn}
      /\ run[r].pc # "idle"
  BY DEF Step, Exists, Load, Fetch, Publish, Status, RecordError, Reschedule,
     stateVars, recVars
<1>2. Proper(run[r])
  BY DEF SchedInv, RunsProper
<1>3. mailRecs' \subseteq Conn /\ statusRecs' \subseteq Conn /\ faults' \in 0..MaxFaults
  BY <1>1, <1>2 DEF SchedInv, SchedTypeOK, Proper
<1>4. \E l : Tame(r, l) /\ run' = [run EXCEPT ![r] = l]
  <2>1. CASE Exists(r)
    BY <1>2, <2>1, GotoTame, EndTame DEF Exists, Pcs, Proper
  <2>2. CASE Load(r)
    BY <2>2, GotoTame, ReturnTame DEF Load, Pcs
  <2>3. CASE Fetch(r)
    BY <2>3, GotoTame DEF Fetch, Pcs
  <2>4. CASE Publish(r)
    BY <2>4, GotoTame DEF Publish, Pcs
  <2>5. CASE Status(r)
    BY <2>5, ReturnTame DEF Status
  <2>6. CASE RecordError(r)
    BY <1>2, <2>6, GotoTame DEF RecordError, Pcs, Proper
  <2>7. CASE Reschedule(r)
    <3> DEFINE l == [pc |-> "exists", conn |-> run[r].conn, id |-> run[r].id, loop |-> TRUE]
    <3>1. run[r].conn \in Conn /\ run[r].id \in SchedulerId \union {NoId}
      BY <1>2, <2>7 DEF Reschedule, Proper, RunRecord
    <3>2. run' = [run EXCEPT ![r] = l] /\ Proper(l)
      BY <2>7, <3>1, StartedFacts DEF Reschedule
    <3>3. Tame(r, l)
      BY <3>2 DEF Tame
    <3> QED BY <3>2, <3>3
  <2> QED BY <2>1, <2>2, <2>3, <2>4, <2>5, <2>6, <2>7 DEF Step
<1> QED BY <1>1, <1>3, <1>4, TameInv

LEMMA DieInv == ASSUME SchedInv, NEW r \in Run, Die(r) PROVE SchedInv'
<1>1. faults' \in 0..MaxFaults
  BY SchedFaultCounted DEF Die, SchedInv, SchedTypeOK
<1>2. UNCHANGED <<row, owner, beat, forked, mailRecs, statusRecs>> /\ End(r)
  BY DEF Die, stateVars, recVars
<1> QED BY <1>1, <1>2, EndTame, TameInv DEF SchedInv, SchedTypeOK

\* A new run without an id, whoever starts it.
LEMMA StartedInv ==
  ASSUME SchedInv, NEW c \in Conn, NEW r \in Run, NEW loop \in BOOLEAN,
         run' = Started(r, c, NoId, loop),
         UNCHANGED <<row, stateVars, recVars, faults, forked>>
  PROVE  SchedInv'
<1> DEFINE l == [pc |-> IF loop THEN "exists" ELSE "load",
                 conn |-> c, id |-> NoId, loop |-> loop]
<1>1. UNCHANGED <<row, owner, beat, forked, mailRecs, statusRecs, faults>>
  BY DEF stateVars, recVars
<1>2. run' = [run EXCEPT ![r] = l] /\ Proper(l)
  BY StartedFacts
<1>3. Tame(r, l)
  BY <1>2 DEF Tame
<1> QED BY <1>1, <1>2, <1>3, TameInv DEF SchedInv, SchedTypeOK

LEMMA StartInv ==
  ASSUME SchedInv, NEW c \in Conn, StartLoop(c) \/ StartCycle(c) PROVE SchedInv'
<1>1. PICK r \in Run, loop \in BOOLEAN : run' = Started(r, c, NoId, loop)
  BY DEF StartLoop, StartCycle, IdleRuns
<1> QED BY <1>1, StartedInv DEF StartLoop, StartCycle

\* Records, and faults, that others than runs bring about or remove.
LEMMA RecordsInv ==
  ASSUME SchedInv, UNCHANGED <<row, stateVars, run, forked>>,
         mailRecs' \subseteq Conn, statusRecs' \subseteq Conn, faults' \in 0..MaxFaults
  PROVE  SchedInv'
<1>1. RunsProper' /\ IdsApart' /\ (~SlowLoops => LoopOwns')
  BY DEF SchedInv, RunsProper, IdsApart, LoopOwns, Looping, stateVars
<1>2. SchedTypeOK'
  BY <1>1, TypesOfRuns DEF SchedInv, SchedTypeOK, stateVars
<1> QED BY <1>1, <1>2 DEF SchedInv

-----------------------------------------------------------------------------
(* Claims, forks and the connections themselves *)

\* A claim is made of a connection that has no loop at work, by a run that is
\* the only one with the id it writes: nobody else's claim is taken.
LEMMA ClaimFacts ==
  ASSUME SchedInv, NEW r \in Run, run[r].pc = "claim", row[run[r].conn] = "live",
         Claimable(run[r].conn, run[r].id)
  PROVE  /\ run[r].conn \in Conn /\ run[r].loop
         /\ IdFor(run[r].id) \in SchedulerId
         /\ \A s \in Run : run[s].id = IdFor(run[r].id) => run[s].id = run[r].id
         /\ ~SlowLoops /\ run[r].conn \notin forked => \A s \in Run : ~Looping(s, run[r].conn)
<1> DEFINE c == run[r].conn
<1>1. Proper(run[r])
  BY DEF SchedInv, RunsProper
<1>2. run[r].conn \in Conn /\ run[r].loop /\ run[r].id \in SchedulerId \union {NoId}
  BY <1>1 DEF Proper, RunRecord
<1>3. /\ IdFor(run[r].id) \in SchedulerId
      /\ \A s \in Run : run[s].id = IdFor(run[r].id) => run[s].id = run[r].id
  BY <1>2, FreshId DEF SchedInv
<1>4. ASSUME ~SlowLoops, c \notin forked, NEW s \in Run, Looping(s, c) PROVE FALSE
  <2>1. owner[c] = run[s].id /\ beat[c] = "fresh"
    BY <1>2, <1>4 DEF SchedInv, LoopOwns
  <2>2. run[s].id # NoId /\ s # r
    BY <1>4 DEF Looping, SchedInv, RunsProper, Proper
  <2>3. run[r].id = run[s].id
    BY <2>1, <2>2 DEF Claimable
  <2> QED BY <1>4, <2>2, <2>3 DEF SchedInv, IdsApart
<1> QED BY <1>2, <1>3, <1>4

LEMMA ClaimInv == ASSUME SchedInv, NEW r \in Run, Claim(r) PROVE SchedInv'
<1> DEFINE c == run[r].conn
           id == IdFor(run[r].id)
           l == [run[r] EXCEPT !.id = id, !.pc = "load"]
<1>1. UNCHANGED <<row, mailRecs, statusRecs, faults, forked>> /\ run[r].pc = "claim"
  BY DEF Claim, recVars
<1>2. CASE ~(row[c] = "live" /\ Claimable(c, run[r].id))
  <2>1. End(r) /\ UNCHANGED <<owner, beat>>
    BY <1>2 DEF Claim, stateVars
  <2> QED BY <1>1, <2>1, EndTame, TameInv DEF SchedInv, SchedTypeOK
<1>3. CASE row[c] = "live" /\ Claimable(c, run[r].id)
  <2>1. /\ owner' = [owner EXCEPT ![c] = id] /\ beat' = [beat EXCEPT ![c] = "fresh"]
        /\ run' = [run EXCEPT ![r].id = id, ![r].pc = "load"]
    BY <1>3 DEF Claim
  <2>2. /\ c \in Conn /\ run[r].loop /\ id \in SchedulerId
        /\ \A s \in Run : run[s].id = id => run[s].id = run[r].id
        /\ ~SlowLoops /\ c \notin forked => \A s \in Run : ~Looping(s, c)
    BY <1>1, <1>3, ClaimFacts
  <2>3. run[r] \in RunRecord /\ run \in [Run -> RunRecord]
    BY DEF SchedInv, RunsProper
  <2> HIDE DEF id
  <2>4. /\ l \in RunRecord /\ l.id = id /\ l.pc = "load" /\ l.conn = c /\ l.loop
        /\ run' = [run EXCEPT ![r] = l]
    BY <2>1, <2>2, <2>3 DEF RunRecord, Pcs
  <2> HIDE DEF l
  <2>5. Proper(l)
    BY <2>2, <2>4, SchedBounds DEF Proper
  <2>6. /\ RunsProper' /\ run'[r] = l
        /\ \A s \in Run : s # r => run'[s] = run[s]
    BY <2>4, <2>5, SetRun DEF SchedInv
  <2>7. /\ owner' \in [Conn -> SchedulerId \union {NoId}] /\ owner'[c] = id
        /\ beat' \in [Conn -> {"never", "fresh", "stale"}] /\ beat'[c] = "fresh"
        /\ \A d \in Conn : d # c => owner'[d] = owner[d] /\ beat'[d] = beat[d]
    BY <2>1, <2>2 DEF SchedInv, SchedTypeOK
  <2>8. SchedTypeOK'
    BY <1>1, <2>6, <2>7, TypesOfRuns DEF SchedInv, SchedTypeOK
  <2>9. IdsApart'
    BY <1>1, <2>2, <2>4, <2>6 DEF SchedInv, IdsApart
  <2>10. \A s \in Run, d \in Conn : Looping(s, d)' => Looping(s, d) \/ (s = r /\ d = c)
    BY <2>4, <2>6 DEF Looping
  <2>11. \A s \in Run : s # r => run'[s].id = run[s].id
    BY <2>6
  <2>12. \A d \in Conn : ~Looping(r, d)
    BY <1>1 DEF Looping
  <2>13. ASSUME ~SlowLoops, NEW d \in Conn \ forked, NEW s \in Run, Looping(s, d)'
         PROVE  /\ \/ row'[d] = "gone"
                   \/ row'[d] = "live" /\ owner'[d] = run'[s].id /\ beat'[d] = "fresh"
                /\ \A t \in Run : Looping(t, d)' => t = s
    <3>1. CASE d = c
      <4>1. \A t \in Run : ~Looping(t, c)
        BY <2>2, <2>13, <3>1
      <4> QED BY <1>1, <1>3, <2>4, <2>6, <2>7, <2>10, <2>13, <3>1, <4>1
    <3>2. CASE d # c
      <4>1. Looping(s, d) /\ s # r
        BY <2>10, <2>12, <2>13, <3>2
      <4> QED BY <1>1, <2>7, <2>10, <2>11, <2>13, <3>2, <4>1 DEF SchedInv, LoopOwns
    <3> QED BY <3>1, <3>2
  <2>14. ~SlowLoops => LoopOwns'
    BY <1>1, <2>13 DEF LoopOwns
  <2> QED BY <2>6, <2>8, <2>9, <2>14 DEF SchedInv
<1> QED BY <1>2, <1>3

\* The claim whose result is lost leaves an owner that no run is: the
\* connection has no loop at work until the heartbeat ages.
LEMMA ClaimLostInv == ASSUME SchedInv, NEW r \in Run, ClaimLost(r) PROVE SchedInv'
<1> DEFINE c == run[r].conn
           id == IdFor(run[r].id)
<1>1. /\ owner' = [owner EXCEPT ![c] = id] /\ beat' = [beat EXCEPT ![c] = "fresh"]
      /\ UNCHANGED <<row, run, mailRecs, statusRecs, forked>>
      /\ run[r].pc = "claim" /\ row[c] = "live" /\ Claimable(c, run[r].id)
  BY DEF ClaimLost, recVars
<1>2. /\ c \in Conn /\ id \in SchedulerId
      /\ ~SlowLoops /\ c \notin forked => \A s \in Run : ~Looping(s, c)
  BY <1>1, ClaimFacts
<1>3. faults' \in 0..MaxFaults
  BY SchedFaultCounted DEF ClaimLost, SchedInv, SchedTypeOK
<1> HIDE DEF c, id
<1>4. /\ owner' \in [Conn -> SchedulerId \union {NoId}]
      /\ beat' \in [Conn -> {"never", "fresh", "stale"}]
      /\ \A d \in Conn : d # c => owner'[d] = owner[d] /\ beat'[d] = beat[d]
  BY <1>1, <1>2 DEF SchedInv, SchedTypeOK
<1>5. RunsProper' /\ IdsApart'
  BY <1>1 DEF SchedInv, RunsProper, IdsApart
<1>6. SchedTypeOK'
  BY <1>1, <1>3, <1>4, <1>5, TypesOfRuns DEF SchedInv, SchedTypeOK
<1>7. \A s \in Run, d \in Conn : Looping(s, d)' <=> Looping(s, d)
  BY <1>1 DEF Looping
<1>8. ~SlowLoops => LoopOwns'
  BY <1>1, <1>2, <1>4, <1>7 DEF SchedInv, LoopOwns
<1> QED BY <1>5, <1>6, <1>8 DEF SchedInv

\* Two chains with one id: the connection counts as forked from here on.
LEMMA RescheduleLostInv == ASSUME SchedInv, NEW r \in Run, RescheduleLost(r) PROVE SchedInv'
<1> DEFINE c == run[r].conn
<1>1. /\ run[r].pc = "sleep" /\ forked' = forked \union {c}
      /\ UNCHANGED <<row, owner, beat, mailRecs, statusRecs>>
  BY DEF RescheduleLost, stateVars, recVars
<1>2. PICK s \in Run : run[s].pc = "idle" /\ run' = Started(s, c, run[r].id, TRUE)
  BY DEF RescheduleLost, IdleRuns
<1>3. Proper(run[r])
  BY DEF SchedInv, RunsProper
<1>4. c \in Conn /\ run[r].id \in SchedulerId \union {NoId}
  BY <1>1, <1>3 DEF Proper, RunRecord
<1> DEFINE l == [pc |-> "exists", conn |-> c, id |-> run[r].id, loop |-> TRUE]
<1>5. run' = [run EXCEPT ![s] = l] /\ Proper(l)
  BY <1>2, <1>4, StartedFacts
<1>6. faults' \in 0..MaxFaults
  BY SchedFaultCounted DEF RescheduleLost, SchedInv, SchedTypeOK
<1>7. /\ RunsProper' /\ run'[s] = l
      /\ \A t \in Run : t # s => run'[t] = run[t]
  BY <1>5, SetRun DEF SchedInv
<1>8. SchedTypeOK'
  BY <1>1, <1>4, <1>6, <1>7, TypesOfRuns DEF SchedInv, SchedTypeOK
<1>9. IdsApart'
  <2> SUFFICES ASSUME NEW t \in Run, NEW u \in Run, t # u, run'[t].id # NoId,
                      run'[t].id = run'[u].id
               PROVE  run'[t].conn = run'[u].conn /\ run'[t].conn \in forked'
    BY DEF IdsApart
  <2>1. CASE t # s /\ u # s
    BY <1>1, <1>7, <2>1 DEF SchedInv, IdsApart
  <2>2. ASSUME NEW v \in Run, v # s, run[v].id = run[r].id, run[v].id # NoId
        PROVE  run[v].conn = c
    BY <2>2 DEF SchedInv, IdsApart
  <2>3. CASE t = s \/ u = s
    BY <1>1, <1>7, <2>2, <2>3
  <2> QED BY <2>1, <2>3
<1>10. \A t \in Run, d \in Conn : Looping(t, d)' => Looping(t, d) /\ run'[t] = run[t]
  BY <1>7 DEF Looping
<1>11. ~SlowLoops => LoopOwns'
  BY <1>1, <1>10 DEF SchedInv, LoopOwns
<1> QED BY <1>7, <1>8, <1>9, <1>11 DEF SchedInv

\* The heartbeat of a loop at work does not age: that is what ~SlowLoops says.
LEMMA AgesInv == ASSUME SchedInv, NEW c \in Conn, HeartbeatAges(c) PROVE SchedInv'
<1>1. /\ beat' = [beat EXCEPT ![c] = "stale"]
      /\ UNCHANGED <<row, owner, run, mailRecs, statusRecs, faults, forked>>
      /\ ~SlowLoops => \A r \in Run : run[r].id # owner[c]
  BY DEF HeartbeatAges, recVars
<1>2. /\ beat' \in [Conn -> {"never", "fresh", "stale"}]
      /\ \A d \in Conn : d # c => beat'[d] = beat[d]
  BY <1>1 DEF SchedInv, SchedTypeOK
<1>3. RunsProper' /\ IdsApart'
  BY <1>1 DEF SchedInv, RunsProper, IdsApart
<1>4. SchedTypeOK'
  BY <1>1, <1>2, <1>3, TypesOfRuns DEF SchedInv, SchedTypeOK
<1>5. \A r \in Run, d \in Conn : Looping(r, d)' <=> Looping(r, d)
  BY <1>1 DEF Looping
<1>6. ~SlowLoops => LoopOwns'
  BY <1>1, <1>2, <1>5 DEF SchedInv, LoopOwns
<1> QED BY <1>3, <1>4, <1>6 DEF SchedInv

\* A connection is linked, for the first time or again; nothing runs for one
\* that has never been there.
LEMMA LinkedInv ==
  ASSUME SchedInv, NEW c \in Conn, row[c] # "gone", row' = [row EXCEPT ![c] = "live"],
         UNCHANGED <<schedVars, faults>>
  PROVE  SchedInv'
<1>1. UNCHANGED <<owner, beat, run, mailRecs, statusRecs, faults, forked>>
  BY DEF schedVars, stateVars, recVars
<1>2. /\ row' \in [Conn -> {"none", "live", "gone"}]
      /\ \A d \in Conn : d # c => row'[d] = row[d]
  BY DEF SchedInv, SchedTypeOK
<1>3. RunsProper' /\ IdsApart'
  BY <1>1 DEF SchedInv, RunsProper, IdsApart
<1>4. SchedTypeOK'
  BY <1>1, <1>2, <1>3, TypesOfRuns DEF SchedInv, SchedTypeOK
<1>5. \A r \in Run, d \in Conn : Looping(r, d)' <=> Looping(r, d)
  BY <1>1 DEF Looping
<1>6. ~SlowLoops => LoopOwns'
  BY <1>1, <1>2, <1>5 DEF SchedInv, LoopOwns, SchedTypeOK
<1> QED BY <1>3, <1>4, <1>6 DEF SchedInv

\* It is deleted, and sync_state with it.
LEMMA DeletedInv ==
  ASSUME SchedInv, NEW c \in Conn, row' = [row EXCEPT ![c] = "gone"],
         owner' = [owner EXCEPT ![c] = NoId], beat' = [beat EXCEPT ![c] = "never"],
         UNCHANGED <<run, recVars, faults, forked>>
  PROVE  SchedInv'
<1>1. UNCHANGED <<run, mailRecs, statusRecs, faults, forked>>
  BY DEF recVars
<1>2. /\ row' \in [Conn -> {"none", "live", "gone"}] /\ row'[c] = "gone"
      /\ owner' \in [Conn -> SchedulerId \union {NoId}]
      /\ beat' \in [Conn -> {"never", "fresh", "stale"}]
      /\ \A d \in Conn : d # c => row'[d] = row[d] /\ owner'[d] = owner[d] /\ beat'[d] = beat[d]
  BY DEF SchedInv, SchedTypeOK
<1>3. RunsProper' /\ IdsApart'
  BY <1>1 DEF SchedInv, RunsProper, IdsApart
<1>4. SchedTypeOK'
  BY <1>1, <1>2, <1>3, TypesOfRuns DEF SchedInv, SchedTypeOK
<1>5. \A r \in Run, d \in Conn : Looping(r, d)' <=> Looping(r, d)
  BY <1>1 DEF Looping
<1>6. ~SlowLoops => LoopOwns'
  BY <1>1, <1>2, <1>5 DEF SchedInv, LoopOwns
<1> QED BY <1>3, <1>4, <1>6 DEF SchedInv

-----------------------------------------------------------------------------
(* Theorems *)

LEMMA SchedNextInv == SchedInv /\ SchedNext => SchedInv'
  BY StepInv, ClaimInv, ClaimLostInv, RescheduleLostInv, DieInv, AgesInv, StartInv
  DEF SchedNext

LEMMA SchedAloneInv == SchedInv /\ [SchedAlone]_svars => SchedInv'
<1> SUFFICES ASSUME SchedInv, [SchedAlone]_svars PROVE SchedInv'
  OBVIOUS
<1>1. CASE SchedNext
  BY <1>1, SchedNextInv
<1>2. ASSUME NEW c \in Conn, Appear(c) PROVE SchedInv'
  BY <1>2, LinkedInv DEF Appear
<1>3. ASSUME NEW c \in Conn, Vanish(c) PROVE SchedInv'
  BY <1>3, DeletedInv DEF Vanish
<1>4. CASE UNCHANGED svars
  BY <1>4 DEF SchedInv, SchedTypeOK, RunsProper, IdsApart, LoopOwns, Looping, svars,
     schedVars, stateVars, recVars
<1> QED BY <1>1, <1>2, <1>3, <1>4 DEF SchedAlone

LEMMA LoopsAreOne == SchedInv /\ ~SlowLoops => OneLoop
<1> SUFFICES ASSUME SchedInv, ~SlowLoops, NEW c \in Conn \ forked
             PROVE  Cardinality({r \in Run : Looping(r, c)}) <= 1
  BY DEF OneLoop
<1>1. CASE \A r \in Run : ~Looping(r, c)
  <2>1. {r \in Run : Looping(r, c)} = {}
    BY <1>1
  <2>2. Cardinality({}) = 0
    BY FS_EmptySet
  <2> QED BY <2>1, <2>2
<1>2. ASSUME NEW s \in Run, Looping(s, c)
      PROVE  Cardinality({r \in Run : Looping(r, c)}) <= 1
  <2>1. {r \in Run : Looping(r, c)} = {s}
    BY <1>2 DEF SchedInv, LoopOwns
  <2>2. Cardinality({s}) = 1
    BY FS_Singleton
  <2> QED BY <2>1, <2>2
<1> QED BY <1>1, <1>2

THEOREM SchedInvariance == SchedSpec => []SchedInv
  BY SchedInitInv, SchedAloneInv, PTL DEF SchedSpec

\* Type correctness of the workflow runs, slow loops and lost results included:
\* only a loop claims, and past its claim it has an id (sync-connection.ts).
THEOREM SchedTypeCorrect == SchedSpec => []SchedTypeOK
<1>1. SchedInv => SchedTypeOK
  BY DEF SchedInv
<1> QED BY <1>1, SchedInvariance, PTL

\* scheduleSyncConnection is "safe to start more than once": however many loops
\* sign-ins and sockets start, whichever runs die and whatever claims are taken
\* over, a connection has at most one loop at work, when a live loop's heartbeat
\* does not reach SCHEDULER_STALE_MS and its rescheduleSelfStep ran once.
THEOREM OneLoopEach == ~SlowLoops => (SchedSpec => []OneLoop)
<1> SUFFICES ASSUME ~SlowLoops PROVE SchedSpec => []OneLoop
  OBVIOUS
<1>1. SchedInv => OneLoop
  BY LoopsAreOne
<1> QED BY <1>1, SchedInvariance, PTL

-----------------------------------------------------------------------------
(* The requests beside them *)

ReqPcs ==
  {"idle", "first", "setFirst", "activate", "kick", "prime", "choose", "clear", "revoke",
   "wasDefault", "remaining", "promote", "remove", "merge", "unset", "sign"}
Request ==
  [pc : ReqPcs,
   op : {"none", "link", "connect", "setDefault", "active", "delete", "save", "sign"},
   conn : Conn \union {0}, sig : SUBSET Sig, had : BOOLEAN,
   field : SUBSET Field, todo : SUBSET Parts, user : Conn \union {0},
   settings : [Field -> BOOLEAN], conns : SUBSET Conn]

\* Between the deletion of its row and the removal of its records, deleteConnection
\* is about a connection whose row is gone.
RowGone == {"wasDefault", "remaining", "promote", "remove"}

\* The locals of a request: its steps about a connection have one.
ReqOK(l) ==
  /\ l \in Request
  /\ l.pc \in {"first", "setFirst", "activate", "kick", "choose", "revoke", "unset", "sign"}
       \union RowGone => l.conn \in Conn

\* The types of the database, of the published records and of the history.
DbOK ==
  /\ default \in Conn \union {0} /\ settings \in [Field -> BOOLEAN]
  /\ sigs \in [Sig -> [conn : Live \union {0}, dflt : BOOLEAN]]
  /\ profile \in Conn \union {0} /\ setRec \in [Field -> BOOLEAN] /\ connRecs \subseteq Conn
  /\ made \in 0..MaxReq /\ mix \in Mixes
  /\ deleted \subseteq Conn /\ carried \subseteq Conn /\ saved \subseteq Field
  /\ overlap \subseteq {"setDefault", "delete", "save", "sign"}

ReqsOK == req \in [Req -> Request] /\ \A q \in Req : ReqOK(req[q])

\* A removal is about a connection whose row is gone for good...
RemovesGone ==
  /\ \A q \in Req : req[q].pc \in RowGone => row[req[q].conn] = "gone"
  /\ \A c \in deleted : row[c] = "gone"

\* ... and what nobody carried when the row went, nobody takes up any more.
NobodyCarries == \A c \in Conn : row[c] = "gone" /\ Carriers(c) => c \in carried

AcctInv ==
  SchedInv /\ DbOK /\ ReqsOK /\ RemovesGone /\ NobodyCarries /\ DeletedStaysRemoved

-----------------------------------------------------------------------------
(* Requests *)

LEMMA AcctTyped == SchedTypeOK /\ DbOK /\ ReqsOK => TypeOK
  BY DEF TypeOK, DbOK, ReqsOK, Request, ReqPcs

LEMMA NoReqOK ==
  ReqOK(NoReq) /\ NoReq \in Request /\ NoReq.pc = "idle" /\ NoReq.conns = {}
<1>1. NoSettings \in [Field -> BOOLEAN]
  BY DEF NoSettings
<1> QED BY <1>1 DEF NoReq, ReqOK, Request, ReqPcs, RowGone

LEMMA LiveFacts == Live \subseteq Conn /\ \A c \in Conn : c \in Live <=> row[c] = "live"
  BY DEF Live

LEMMA RequestOf ==
  ASSUME AcctInv, NEW q \in Req
  PROVE  /\ req[q] \in Request /\ ReqOK(req[q]) /\ req \in [Req -> Request]
         /\ req[q].pc \in RowGone => row[req[q].conn] = "gone"
  BY DEF AcctInv, ReqsOK, RemovesGone

\* The step of one request that changes neither connections nor runs: it takes
\* up no connection but those that exist, and publishes what it has taken up.
LEMMA RequestInv ==
  ASSUME AcctInv, NEW q \in Req, NEW l, ReqOK(l), req' = [req EXCEPT ![q] = l],
         l.pc \in RowGone => row[l.conn] = "gone",
         l.conns \subseteq req[q].conns \union Live,
         connRecs' \subseteq connRecs \union req[q].conns,
         SchedInv', DbOK', UNCHANGED <<row, run, mailRecs, statusRecs, deleted, carried>>
  PROVE  AcctInv'
<1>1. /\ req' \in [Req -> Request] /\ req'[q] = l
      /\ \A p \in Req : p # q => req'[p] = req[p]
  BY DEF AcctInv, ReqsOK, ReqOK
<1>2. ReqsOK'
  BY <1>1 DEF AcctInv, ReqsOK, ReqOK
<1>3. RemovesGone'
  BY <1>1 DEF AcctInv, RemovesGone
<1>4. ASSUME NEW c \in Conn, row[c] = "gone", NEW p \in Req, c \in req'[p].conns
      PROVE  c \in carried
  <2>1. c \in req[p].conns
    BY <1>1, <1>4, LiveFacts
  <2> QED BY <1>4, <2>1 DEF AcctInv, NobodyCarries, Carriers
<1>5. NobodyCarries'
  BY <1>4 DEF AcctInv, NobodyCarries, Carriers
<1>6. DeletedStaysRemoved'
  <2> SUFFICES ASSUME NEW c \in deleted, c \in connRecs' \union mailRecs \union statusRecs
               PROVE  c \in carried
    BY DEF DeletedStaysRemoved, Shown
  <2>1. CASE c \in Shown
    BY <2>1 DEF AcctInv, DeletedStaysRemoved
  <2>2. CASE c \notin Shown
    <3>1. c \in req[q].conns /\ c \in Conn /\ row[c] = "gone"
      BY <2>2 DEF Shown, AcctInv, RemovesGone, DbOK
    <3> QED BY <3>1 DEF AcctInv, NobodyCarries, Carriers
  <2> QED BY <2>1, <2>2
<1> QED BY <1>2, <1>3, <1>5, <1>6 DEF AcctInv

\* What most steps leave alone stays as it was.
LEMMA ElsewhereFacts ==
  ASSUME AcctInv, Elsewhere
  PROVE  /\ SchedInv' /\ Live' = Live /\ mix' = mix
         /\ UNCHANGED <<row, run, mailRecs, statusRecs>>
  BY DEF AcctInv, Elsewhere, Live, schedVars, recVars, stateVars, SchedInv, SchedTypeOK, RunsProper,
     IdsApart, LoopOwns, Looping

LEMMA TroubleFacts ==
  ASSUME AcctInv, Trouble, UNCHANGED <<row, schedVars, mix>>
  PROVE  /\ SchedInv' /\ Live' = Live
         /\ UNCHANGED <<run, mailRecs, statusRecs>>
<1>1. faults' \in 0..MaxFaults
  BY SchedFaultCounted DEF AcctInv, SchedInv, SchedTypeOK, Trouble
<1>2. SchedInv'
  BY <1>1, RecordsInv DEF AcctInv, SchedInv, SchedTypeOK, schedVars, recVars
<1> QED BY <1>2 DEF Live, schedVars, recVars

LEMMA DbKept ==
  ASSUME AcctInv, Live' = Live,
         UNCHANGED <<dbVars, shellVars, histVars, mix>>, made' \in 0..MaxReq
  PROVE  DbOK'
  BY DEF AcctInv, DbOK, dbVars, shellVars, histVars

\* A request that goes on to another step keeps the rest of its locals...
LEMMA ThenFacts ==
  ASSUME AcctInv, NEW q \in Req, NEW step \in ReqPcs
  PROVE  LET l == [req[q] EXCEPT !.pc = step]
         IN /\ l \in Request /\ l.pc = step /\ l.conn = req[q].conn
            /\ l.conns = req[q].conns
            /\ step \in {"prime", "clear", "merge", "idle"} \/ req[q].conn \in Conn => ReqOK(l)
<1> DEFINE l == [req[q] EXCEPT !.pc = step]
<1>1. l \in Request /\ l.pc = step /\ l.conn = req[q].conn /\ l.conns = req[q].conns
  BY RequestOf DEF Request
<1> HIDE DEF l
<1>2. step \in {"prime", "clear", "merge", "idle"} \/ req[q].conn \in Conn => ReqOK(l)
  BY <1>1 DEF ReqOK, RowGone
<1> QED BY <1>1, <1>2 DEF l

\* ... and so does one that begins to prime.
LEMMA PrimingFacts ==
  ASSUME NEW l \in Request
  PROVE  ReqOK(Priming(l)) /\ Priming(l).pc = "prime" /\ Priming(l).conns = l.conns
<1>1. /\ Priming(l) \in Request /\ Priming(l).pc = "prime" /\ Priming(l).conns = l.conns
  BY DEF Priming, Parts, Request, ReqPcs
<1> QED BY <1>1 DEF ReqOK, RowGone

\* A request that only looks: at the database, and for what it does next.
Looks(q) ==
  \/ ReadFirst(q) \/ PrimeRead(q) \/ WasDefault(q) \/ ReadRemaining(q)
  \/ Connect(q) \/ FindActive(q)

\* The oldest of some connections is one of them.
LEMMA OldestIn == ASSUME NEW C \in SUBSET Conn PROVE Oldest(C) \in Conn \union {0}
<1>1. CASE C = {}
  BY <1>1 DEF Oldest
<1>2. CASE C # {}
  <2> DEFINE Upto == {1..c : c \in C}
             R == StrictSubsetOrdering(Conn)
  <2>1. IsWellFoundedOn(R, FiniteSubsetsOf(Conn))
    BY FS_StrictSubsetOrderingWellFounded
  <2>2. Upto \subseteq FiniteSubsetsOf(Conn) /\ Upto # {}
    <3>1. \A c \in C : c \in Nat /\ c <= MaxConn
      BY SchedBounds DEF Conn
    <3>2. \A c \in C : 1..c \subseteq Conn /\ IsFiniteSet(1..c)
      BY <3>1, SchedBounds, FS_Interval DEF Conn
    <3> QED BY <1>2, <3>2 DEF FiniteSubsetsOf
  <2>3. PICK U \in Upto : \A V \in Upto : <<V, U>> \notin R
    <3> HIDE DEF Upto, R
    <3> QED BY <2>1, <2>2, WFMin
  <2>4. PICK c \in C : U = 1..c
    OBVIOUS
  <2>5. ASSUME NEW d \in C PROVE c <= d
    <3>1. c \in Nat /\ d \in Nat
      BY SchedBounds
    <3>2. <<1..d, 1..c>> \notin R
      BY <2>3, <2>4
    <3>3. 1..d \subseteq Conn /\ 1..c \subseteq Conn
      BY <3>1, SchedBounds DEF Conn
    <3>4. ~(1..d \subseteq 1..c /\ 1..d # 1..c)
      BY <3>2, <3>3 DEF StrictSubsetOrdering
    <3>5. ASSUME d < c PROVE FALSE
      <4>1. 1..d \subseteq 1..c /\ c \in 1..c /\ c \notin 1..d
        BY <3>1, <3>5, SchedBounds
      <4> QED BY <3>4, <4>1
    <3> QED BY <3>1, <3>5
  <2> QED BY <2>4, <2>5 DEF Oldest
<1> QED BY <1>1, <1>2

LEMMA LooksInv == ASSUME AcctInv, NEW q \in Req, Looks(q) PROVE AcctInv'
<1>1. Elsewhere /\ UNCHANGED <<dbVars, shellVars, made, histVars>>
  BY DEF Looks, ReadFirst, PrimeRead, WasDefault, ReadRemaining, Connect, FindActive
<1>2. /\ SchedInv' /\ Live' = Live /\ mix' = mix
      /\ UNCHANGED <<row, run, mailRecs, statusRecs>>
  BY <1>1, ElsewhereFacts
<1>3. DbOK'
  BY <1>1, <1>2, DbKept DEF AcctInv, DbOK
<1>4. UNCHANGED <<deleted, carried, connRecs>>
  BY <1>1 DEF histVars, shellVars
<1>5. /\ req[q] \in Request /\ ReqOK(req[q])
      /\ req[q].pc \in RowGone => row[req[q].conn] = "gone"
  BY RequestOf
<1>6. \E l : /\ ReqOK(l) /\ req' = [req EXCEPT ![q] = l]
             /\ l.pc \in RowGone => row[l.conn] = "gone"
             /\ l.conns \subseteq req[q].conns \union Live
  <2>1. CASE ReadFirst(q)
    <3> DEFINE step == IF default = 0 THEN "setFirst" ELSE "activate"
               l == [req[q] EXCEPT !.pc = step]
    <3>1. req' = [req EXCEPT ![q] = l]
      BY <2>1, RequestOf DEF ReadFirst, Then
    <3>2. req[q].conn \in Conn /\ step \in ReqPcs /\ step \notin RowGone
      BY <1>5, <2>1 DEF ReqOK, ReadFirst, At, ReqPcs, RowGone
    <3> HIDE DEF step
    <3>3. ReqOK(l) /\ l.pc = step /\ l.conns = req[q].conns
      BY <3>2, ThenFacts
    <3> QED BY <3>1, <3>2, <3>3
  <2>2. CASE PrimeRead(q)
    <3>1. PICK part \in req[q].todo :
            req' = [req EXCEPT ![q].todo = @ \ {part},
                               ![q].user = IF part = "user" THEN default ELSE @,
                               ![q].settings = IF part = "user" THEN settings ELSE @,
                               ![q].conns = IF part = "connections" THEN Live ELSE @]
      BY <2>2 DEF PrimeRead
    <3> DEFINE user == IF part = "user" THEN default ELSE req[q].user
               saves == IF part = "user" THEN settings ELSE req[q].settings
               conns == IF part = "connections" THEN Live ELSE req[q].conns
               l == [req[q] EXCEPT !.todo = @ \ {part}, !.user = user,
                                   !.settings = saves, !.conns = conns]
    <3>2. req' = [req EXCEPT ![q] = l]
      BY <1>5, <3>1, RequestOf DEF Request
    <3>3. /\ user \in Conn \union {0} /\ saves \in [Field -> BOOLEAN]
          /\ conns \subseteq req[q].conns \union Live /\ conns \subseteq Conn
      BY <1>5, LiveFacts DEF AcctInv, DbOK, Request
    <3> HIDE DEF user, saves, conns
    <3>4. l \in Request /\ l.pc = req[q].pc /\ l.conn = req[q].conn /\ l.conns = conns
      BY <1>5, <3>3 DEF Request
    <3>5. ReqOK(l)
      BY <1>5, <3>4 DEF ReqOK
    <3>6. l.pc \notin RowGone
      BY <2>2, <3>4 DEF PrimeRead, At, RowGone
    <3> QED BY <3>2, <3>3, <3>4, <3>5, <3>6
  <2>3. CASE WasDefault(q)
    <3> DEFINE step == IF default = req[q].conn THEN "remaining" ELSE "remove"
               l == [req[q] EXCEPT !.pc = step]
    <3>1. req' = [req EXCEPT ![q] = l]
      BY <2>3, RequestOf DEF WasDefault, Then
    <3>2. req[q].conn \in Conn /\ step \in ReqPcs /\ row[req[q].conn] = "gone"
      BY <1>5, <2>3 DEF ReqOK, WasDefault, At, ReqPcs, RowGone
    <3> HIDE DEF step
    <3>3. ReqOK(l) /\ l.conn = req[q].conn /\ l.conns = req[q].conns
      BY <3>2, ThenFacts
    <3> QED BY <3>1, <3>2, <3>3
  <2>4. CASE ReadRemaining(q)
    <3> DEFINE user == Oldest(Live)
               l == [req[q] EXCEPT !.user = user, !.pc = "promote"]
    <3>1. req' = [req EXCEPT ![q] = l]
      BY <1>5, <2>4, RequestOf DEF ReadRemaining, Request
    <3>2. user \in Conn \union {0}
      BY OldestIn, LiveFacts
    <3> HIDE DEF user
    <3>3. l \in Request /\ l.conn = req[q].conn /\ l.conns = req[q].conns
      BY <1>5, <3>2 DEF Request, ReqPcs
    <3>4. req[q].conn \in Conn /\ row[req[q].conn] = "gone"
      BY <1>5, <2>4 DEF ReqOK, ReadRemaining, At, RowGone
    <3> QED BY <3>1, <3>3, <3>4 DEF ReqOK
  <2>5. CASE Connect(q)
    <3> DEFINE l == Priming([NoReq EXCEPT !.op = "connect"])
    <3>1. req' = [req EXCEPT ![q] = l]
      BY <2>5 DEF Connect
    <3>2. l \in Request /\ l.pc = "prime" /\ l.conns = {}
      BY NoReqOK DEF Priming, Parts, Request, ReqPcs
    <3> QED BY <3>1, <3>2 DEF ReqOK, RowGone
  <2>6. CASE FindActive(q)
    <3> DEFINE l == [NoReq EXCEPT !.op = "active", !.pc = "clear"]
    <3>1. req' = [req EXCEPT ![q] = l]
      BY <2>6 DEF FindActive
    <3>2. l \in Request /\ l.pc = "clear" /\ l.conns = {}
      BY NoReqOK DEF Request, ReqPcs
    <3> QED BY <3>1, <3>2 DEF ReqOK, RowGone
  <2> QED BY <2>1, <2>2, <2>3, <2>4, <2>5, <2>6 DEF Looks
<1> QED BY <1>2, <1>3, <1>4, <1>6, RequestInv

-----------------------------------------------------------------------------
(* Requests that arrive, write or fail *)

LEMMA ArriveInv ==
  ASSUME AcctInv, NEW q \in Req, NEW op \in {"setDefault", "delete", "save", "sign"},
         NEW l \in Request, Arrive(q, op, l), l.conns = {}, l.pc \notin RowGone,
         l.pc \in {"choose", "revoke", "unset"} => l.conn \in Conn,
         l.pc \in {"choose", "revoke", "unset", "merge"}
  PROVE  AcctInv'
<1> DEFINE m == [l EXCEPT !.op = op]
<1>1. req' = [req EXCEPT ![q] = m]
  BY DEF Arrive
<1>2. m \in Request /\ m.pc = l.pc /\ m.conns = {} /\ m.conn = l.conn
  BY DEF Request
<1>3. /\ SchedInv' /\ Live' = Live /\ mix' = mix
      /\ UNCHANGED <<row, run, mailRecs, statusRecs>>
  BY ElsewhereFacts DEF Arrive
<1>4. UNCHANGED <<deleted, carried, saved>> /\ UNCHANGED <<dbVars, shellVars>>
  BY DEF Arrive
<1>5. made' \in 0..MaxReq /\ overlap' \subseteq {"setDefault", "delete", "save", "sign"}
  BY AccountsAssumption DEF Arrive, AcctInv, DbOK
<1>6. DbOK'
  BY <1>3, <1>4, <1>5 DEF AcctInv, DbOK, dbVars, shellVars
<1>7. ReqOK(m) /\ m.pc \notin RowGone
  BY <1>2 DEF ReqOK, RowGone
<1> HIDE DEF m
<1> QED BY <1>1, <1>2, <1>3, <1>4, <1>6, <1>7, RequestInv DEF shellVars

LEMMA AskInv ==
  ASSUME AcctInv, NEW q \in Req, Ask(q), ~\E oauth \in BOOLEAN : Link(q, oauth)
  PROVE  AcctInv'
<1>1. ASSUME NEW c \in Conn, SetDefault(q, c) PROVE AcctInv'
  <2> DEFINE l == [NoReq EXCEPT !.pc = "choose", !.conn = c]
  <2>1. l \in Request /\ l.pc = "choose" /\ l.conn = c /\ l.conns = {}
    BY NoReqOK DEF Request, ReqPcs
  <2>2. Arrive(q, "setDefault", l)
    BY <1>1 DEF SetDefault
  <2> HIDE DEF l
  <2> QED BY <2>1, <2>2, ArriveInv DEF RowGone
<1>2. ASSUME NEW c \in Conn, Delete(q, c) PROVE AcctInv'
  <2> DEFINE l == [NoReq EXCEPT !.pc = "revoke", !.conn = c]
  <2>1. l \in Request /\ l.pc = "revoke" /\ l.conn = c /\ l.conns = {}
    BY NoReqOK DEF Request, ReqPcs
  <2>2. Arrive(q, "delete", l)
    BY <1>2 DEF Delete
  <2> HIDE DEF l
  <2> QED BY <2>1, <2>2, ArriveInv DEF RowGone
<1>3. ASSUME NEW f \in Field, Save(q, f) PROVE AcctInv'
  <2> DEFINE l == [NoReq EXCEPT !.pc = "merge", !.field = {f}, !.settings = settings]
  <2>1. l \in Request /\ l.pc = "merge" /\ l.conns = {}
    BY NoReqOK DEF Request, ReqPcs, AcctInv, DbOK
  <2>2. Arrive(q, "save", l)
    BY <1>3 DEF Save
  <2> HIDE DEF l
  <2> QED BY <2>1, <2>2, ArriveInv DEF RowGone
<1>4. ASSUME NEW s \in Sig, NEW c \in Conn, SignDefault(q, s, c) PROVE AcctInv'
  <2> DEFINE had == sigs[s].conn = c
             l == [NoReq EXCEPT !.pc = "unset", !.sig = {s}, !.conn = c, !.had = had]
  <2>1. had \in BOOLEAN
    OBVIOUS
  <2>2. Arrive(q, "sign", l)
    BY <1>4 DEF SignDefault
  <2> HIDE DEF had
  <2>3. l \in Request /\ l.pc = "unset" /\ l.conn = c /\ l.conns = {}
    BY <2>1, NoReqOK DEF Request, ReqPcs
  <2> HIDE DEF l
  <2> QED BY <2>2, <2>3, ArriveInv DEF RowGone
<1> QED BY <1>1, <1>2, <1>3, <1>4 DEF Ask

\* A request that writes the database.
Writes(q) ==
  \/ SetFirst(q) \/ Choose(q) \/ ClearDefault(q) \/ Promote(q) \/ Merge(q)
  \/ Unset(q) \/ Sign(q)

LEMMA WritesDbOK == ASSUME AcctInv, NEW q \in Req, Writes(q) PROVE DbOK'
<1>1. Elsewhere /\ UNCHANGED <<shellVars, made, deleted, carried, overlap>>
  BY DEF Writes, SetFirst, Choose, ClearDefault, Promote, Merge, Unset, Sign, histVars
<1>2. Live' = Live /\ mix' = mix /\ UNCHANGED row
  BY <1>1, ElsewhereFacts
<1>3. req[q] \in Request /\ ReqOK(req[q])
  BY RequestOf
<1>4. default' \in Conn \union {0}
  BY <1>3 DEF Writes, SetFirst, Choose, ClearDefault, Promote, Merge, Unset, Sign,
     Request, AcctInv, DbOK
<1>5. settings' \in [Field -> BOOLEAN] /\ saved' \subseteq Field
  <2>1. CASE Merge(q)
    <3>1. \A f \in Field : (f \in req[q].field \/ req[q].settings[f]) \in BOOLEAN
      OBVIOUS
    <3>2. settings' \in [Field -> BOOLEAN]
      BY <2>1, <3>1 DEF Merge
    <3>3. saved' \subseteq Field
      BY <1>3, <2>1 DEF Merge, Request, AcctInv, DbOK
    <3> QED BY <3>2, <3>3
  <2>2. CASE ~Merge(q)
    BY <2>2 DEF Writes, SetFirst, Choose, ClearDefault, Promote, Unset, Sign, histVars,
       AcctInv, DbOK
  <2> QED BY <2>1, <2>2
<1>6. sigs' \in [Sig -> [conn : Live \union {0}, dflt : BOOLEAN]]
  <2>0. sigs \in [Sig -> [conn : Live \union {0}, dflt : BOOLEAN]]
    BY DEF AcctInv, DbOK
  <2>1. CASE Unset(q)
    <3>1. \A s \in Sig : [sigs[s] EXCEPT !.dflt = FALSE] \in [conn : Live \union {0}, dflt : BOOLEAN]
      BY <2>0
    <3> QED BY <2>0, <2>1, <3>1 DEF Unset
  <2>2. CASE Sign(q)
    <3> DEFINE c == req[q].conn
    <3>1. c \in Conn
      BY <1>3, <2>2 DEF Sign, At, ReqOK
    <3>2. \A s \in Sig : sigs[s].conn = c \/ row[c] = "live" => c \in Live
      BY <2>0, <3>1, LiveFacts, SchedBounds
    <3>3. ASSUME NEW s \in Sig
          PROVE  sigs'[s] = sigs[s] \/ (c \in Live /\ sigs'[s] = [conn |-> c, dflt |-> TRUE])
      <4>1. sigs'[s] = IF s \in req[q].sig /\ (IF req[q].had THEN sigs[s].conn = c
                                                            ELSE row[c] = "live")
                       THEN [conn |-> c, dflt |-> TRUE] ELSE sigs[s]
        BY <2>2 DEF Sign
      <4> HIDE DEF c
      <4> QED BY <3>2, <4>1
    <3>4. ASSUME NEW s \in Sig PROVE sigs'[s] \in [conn : Live \union {0}, dflt : BOOLEAN]
      <4>1. CASE sigs'[s] = sigs[s]
        BY <2>0, <4>1
      <4>2. CASE c \in Live /\ sigs'[s] = [conn |-> c, dflt |-> TRUE]
        <5> HIDE DEF c
        <5> QED BY <4>2
      <4> QED BY <3>3, <4>1, <4>2
    <3>5. sigs' = [s \in Sig |-> sigs'[s]]
      BY <2>2 DEF Sign
    <3> QED BY <3>4, <3>5
  <2>3. CASE UNCHANGED sigs
    BY <2>0, <2>3
  <2> QED BY <2>1, <2>2, <2>3 DEF Writes, SetFirst, Choose, ClearDefault, Promote, Merge
<1> QED BY <1>1, <1>2, <1>4, <1>5, <1>6 DEF AcctInv, DbOK, shellVars

LEMMA WritesInv == ASSUME AcctInv, NEW q \in Req, Writes(q) PROVE AcctInv'
<1>1. Elsewhere /\ UNCHANGED <<shellVars, deleted, carried>>
  BY DEF Writes, SetFirst, Choose, ClearDefault, Promote, Merge, Unset, Sign, histVars
<1>2. /\ req[q] \in Request /\ ReqOK(req[q]) /\ req \in [Req -> Request]
      /\ req[q].pc \in RowGone => row[req[q].conn] = "gone"
  BY RequestOf
<1>3. \E l : /\ ReqOK(l) /\ req' = [req EXCEPT ![q] = l]
             /\ l.pc \in RowGone => row[l.conn] = "gone"
             /\ l.conns \subseteq req[q].conns \union Live
  <2>1. ASSUME NEW step \in {"activate", "remove", "sign"}, Then(q, step), req[q].conn \in Conn,
               step = "remove" => row[req[q].conn] = "gone"
        PROVE  \E l : /\ ReqOK(l) /\ req' = [req EXCEPT ![q] = l]
                      /\ l.pc \in RowGone => row[l.conn] = "gone"
                      /\ l.conns \subseteq req[q].conns \union Live
    <3> DEFINE l == [req[q] EXCEPT !.pc = step]
    <3>1. req' = [req EXCEPT ![q] = l]
      BY <1>2, <2>1 DEF Then
    <3>2. step \in ReqPcs
      BY DEF ReqPcs
    <3>3. ReqOK(l) /\ l.pc = step /\ l.conn = req[q].conn /\ l.conns = req[q].conns
      BY <2>1, <3>2, ThenFacts
    <3> HIDE DEF l
    <3> QED BY <2>1, <3>1, <3>3 DEF RowGone
  <2>2. CASE ToPrime(q)
    <3>1. req' = [req EXCEPT ![q] = Priming(req[q])]
      BY <1>2, <2>2 DEF ToPrime
    <3> QED BY <1>2, <3>1, PrimingFacts DEF RowGone
  <2>3. CASE Done(q)
    BY <2>3, NoReqOK DEF Done, RowGone
  <2>4. CASE SetFirst(q)
    BY <1>2, <2>1, <2>4 DEF SetFirst, At, ReqOK
  <2>5. CASE Promote(q)
    BY <1>2, <2>1, <2>5 DEF Promote, At, ReqOK, RowGone
  <2>6. CASE Unset(q)
    BY <1>2, <2>1, <2>6 DEF Unset, At, ReqOK
  <2>7. CASE Choose(q) \/ Merge(q)
    BY <2>2, <2>7 DEF Choose, Merge
  <2>8. CASE ClearDefault(q) \/ Sign(q)
    BY <2>3, <2>8 DEF ClearDefault, Sign
  <2> QED BY <2>4, <2>5, <2>6, <2>7, <2>8 DEF Writes
<1> QED BY <1>1, <1>3, ElsewhereFacts, WritesDbOK, RequestInv DEF shellVars

LEMMA PrimePublishInv == ASSUME AcctInv, NEW q \in Req, PrimePublish(q) PROVE AcctInv'
<1>1. /\ Elsewhere /\ UNCHANGED <<dbVars, made, histVars>> /\ req' = [req EXCEPT ![q] = NoReq]
      /\ profile' = req[q].user /\ setRec' = req[q].settings
      /\ connRecs' = connRecs \union req[q].conns
  BY DEF PrimePublish, Done
<1>2. req[q] \in Request
  BY RequestOf
<1>3. profile' \in Conn \union {0} /\ setRec' \in [Field -> BOOLEAN] /\ connRecs' \subseteq Conn
  BY <1>1, <1>2 DEF Request, AcctInv, DbOK
<1>4. DbOK'
  BY <1>1, <1>3, ElsewhereFacts DEF AcctInv, DbOK, dbVars, histVars
<1> QED BY <1>1, <1>4, ElsewhereFacts, NoReqOK, RequestInv DEF histVars, RowGone

LEMMA FailsInv ==
  ASSUME AcctInv, NEW q \in Req, PrimeFails(q) \/ RemoveFails(q) \/ Stop(q) PROVE AcctInv'
<1>1. /\ Trouble /\ req' = [req EXCEPT ![q] = NoReq]
      /\ UNCHANGED <<row, schedVars, dbVars, shellVars, made, histVars, mix>>
  BY DEF PrimeFails, RemoveFails, Stop, Done
<1>2. /\ SchedInv' /\ Live' = Live
      /\ UNCHANGED <<row, run, mailRecs, statusRecs, deleted, carried, connRecs>>
  BY <1>1, TroubleFacts DEF histVars, shellVars
<1>3. DbOK'
  BY <1>1, <1>2, DbKept DEF AcctInv, DbOK
<1> QED BY <1>1, <1>2, <1>3, NoReqOK, RequestInv DEF RowGone

LEMMA DeleteSignatureInv == ASSUME AcctInv, NEW s \in Sig, DeleteSignature(s) PROVE AcctInv'
<1>1. /\ Elsewhere /\ UNCHANGED <<default, settings, shellVars, req, made, histVars>>
      /\ sigs' = [sigs EXCEPT ![s] = [conn |-> 0, dflt |-> FALSE]]
  BY DEF DeleteSignature
<1>2. /\ SchedInv' /\ Live' = Live /\ mix' = mix
      /\ UNCHANGED <<row, run, mailRecs, statusRecs>>
  BY <1>1, ElsewhereFacts
<1>3. DbOK'
  BY <1>1, <1>2 DEF AcctInv, DbOK, shellVars, histVars
<1>4. ReqsOK' /\ RemovesGone' /\ NobodyCarries' /\ DeletedStaysRemoved'
  BY <1>1, <1>2 DEF AcctInv, ReqsOK, RemovesGone, NobodyCarries, Carriers,
     DeletedStaysRemoved, Shown, histVars, shellVars
<1> QED BY <1>2, <1>3, <1>4 DEF AcctInv

-----------------------------------------------------------------------------
(* Connections that come and go, and the runs *)

LEMMA LinkInv == ASSUME AcctInv, NEW q \in Req, NEW oauth \in BOOLEAN, Link(q, oauth) PROVE AcctInv'
<1>1. PICK c \in Live \union {d \in Conn : row[d] = "none" /\ \A e \in 1..(d - 1) : row[e] # "none"} :
        /\ made < MaxReq /\ made' = made + 1
        /\ row' = [row EXCEPT ![c] = "live"]
        /\ req' = [req EXCEPT ![q] = [NoReq EXCEPT !.op = "link", !.conn = c,
                                        !.pc = IF oauth THEN "first" ELSE "activate"]]
        /\ UNCHANGED <<schedVars, faults, dbVars, shellVars, histVars, mix>>
  BY DEF Link
<1>2. c \in Conn /\ row[c] # "gone"
  BY <1>1, LiveFacts
<1>3. SchedInv'
  BY <1>1, <1>2, LinkedInv DEF AcctInv
<1>4. row \in [Conn -> {"none", "live", "gone"}]
  BY DEF AcctInv, SchedInv, SchedTypeOK
<1>5. /\ \A d \in Conn : row'[d] = "gone" <=> row[d] = "gone"
      /\ Live \subseteq Live'
  BY <1>1, <1>2, <1>4 DEF Live
<1>6. UNCHANGED <<run, mailRecs, statusRecs, connRecs, deleted, carried>>
  BY <1>1 DEF schedVars, recVars, shellVars, histVars
<1>7. DbOK'
  <2>1. made' \in 0..MaxReq
    BY <1>1, AccountsAssumption DEF AcctInv, DbOK
  <2>2. sigs' \in [Sig -> [conn : Live' \union {0}, dflt : BOOLEAN]]
    BY <1>1, <1>5 DEF AcctInv, DbOK, dbVars
  <2> QED BY <1>1, <2>1, <2>2 DEF AcctInv, DbOK, dbVars, shellVars, histVars
<1> DEFINE pc == IF oauth THEN "first" ELSE "activate"
           l == [NoReq EXCEPT !.op = "link", !.conn = c, !.pc = pc]
<1>8. l \in Request /\ l.pc \in {"first", "activate"} /\ l.conn = c /\ l.conns = {}
  BY <1>2, NoReqOK DEF Request, ReqPcs
<1>9. /\ req' \in [Req -> Request] /\ req'[q] = l
      /\ \A p \in Req : p # q => req'[p] = req[p]
  BY <1>1, <1>8 DEF AcctInv, ReqsOK
<1> HIDE DEF l
<1>10. ReqsOK'
  BY <1>2, <1>8, <1>9 DEF AcctInv, ReqsOK, ReqOK
<1>11. RemovesGone'
  <2>1. \A p \in Req : req'[p].pc \in RowGone => row'[req'[p].conn] = "gone"
    BY <1>5, <1>8, <1>9 DEF AcctInv, RemovesGone, ReqsOK, ReqOK, RowGone
  <2> QED BY <1>5, <1>6, <2>1 DEF AcctInv, RemovesGone, DbOK
<1>12. NobodyCarries'
  BY <1>5, <1>6, <1>8, <1>9 DEF AcctInv, NobodyCarries, Carriers
<1>13. DeletedStaysRemoved'
  BY <1>6 DEF AcctInv, DeletedStaysRemoved, Shown
<1> QED BY <1>3, <1>7, <1>10, <1>11, <1>12, <1>13 DEF AcctInv

\* The steps of a run at which it carries records of its connection, which it
\* reaches only while the connection exists.
Carrying(l) == l.pc \in {"fetch", "publish", "failed", "status"}

LEMMA CarriersKept ==
  ASSUME AcctInv, UNCHANGED <<row, carried>>,
         \A q \in Req : req'[q].conns = req[q].conns,
         \A s \in Run : Carrying(run'[s]) =>
           /\ run'[s].conn = run[s].conn
           /\ Carrying(run[s]) \/ row[run[s].conn] = "live"
  PROVE  NobodyCarries'
  BY DEF AcctInv, NobodyCarries, Carriers, Carrying

LEMMA ActivateInv ==
  ASSUME AcctInv, NEW q \in Req, ActivateLoop(q) \/ ActivateCycle(q) PROVE AcctInv'
<1>1. PICK loop \in BOOLEAN : TryStart(req[q].conn, loop)
  BY DEF ActivateLoop, ActivateCycle
<1>2. /\ UNCHANGED <<row, stateVars, mailRecs, statusRecs, faults, forked, mix>>
      /\ UNCHANGED <<dbVars, shellVars, made, histVars>>
  BY DEF ActivateLoop, ActivateCycle, recVars
<1>3. req[q] \in Request /\ ReqOK(req[q]) /\ req \in [Req -> Request] /\ req[q].conn \in Conn
  BY RequestOf DEF ActivateLoop, ActivateCycle, At, ReqOK
<1>4. /\ SchedInv'
      /\ \A s \in Run : Carrying(run'[s]) => run'[s] = run[s]
  <2>1. CASE run' = run
    BY <1>2, <2>1, RecordsInv DEF AcctInv, SchedInv, SchedTypeOK
  <2>2. ASSUME NEW r \in Run, run' = Started(r, req[q].conn, NoId, loop)
        PROVE  /\ SchedInv'
               /\ \A s \in Run : Carrying(run'[s]) => run'[s] = run[s]
    <3>1. SchedInv'
      BY <1>2, <1>3, <2>2, StartedInv DEF AcctInv, recVars
    <3>2. \A s \in Run : s # r => run'[s] = run[s]
      BY <2>2 DEF Started, AcctInv, SchedInv, RunsProper
    <3>3. run'[r].pc \in {"exists", "load"}
      BY <2>2 DEF Started, AcctInv, SchedInv, RunsProper
    <3> QED BY <3>1, <3>2, <3>3 DEF Carrying
  <2> QED BY <1>1, <2>1, <2>2 DEF TryStart, IdleRuns
<1>5. PICK l : /\ ReqOK(l) /\ req' = [req EXCEPT ![q] = l] /\ l.pc \notin RowGone
               /\ l.conns = req[q].conns
  <2>1. CASE ActivateLoop(q)
    <3>1. req' = [req EXCEPT ![q] = [req[q] EXCEPT !.pc = "kick"]]
      BY <1>3, <2>1 DEF ActivateLoop, Then
    <3>2. LET l == [req[q] EXCEPT !.pc = "kick"]
          IN ReqOK(l) /\ l.pc = "kick" /\ l.conns = req[q].conns
      BY <1>3, ThenFacts DEF ReqPcs
    <3> QED BY <3>1, <3>2 DEF RowGone
  <2>2. CASE ActivateCycle(q)
    <3>1. req' = [req EXCEPT ![q] = Priming(req[q])]
      BY <1>3, <2>2 DEF ActivateCycle, ToPrime
    <3> QED BY <1>3, <3>1, PrimingFacts DEF RowGone
  <2> QED BY <2>1, <2>2
<1>6. /\ req' \in [Req -> Request] /\ req'[q] = l
      /\ \A p \in Req : p # q => req'[p] = req[p]
  BY <1>3, <1>5 DEF ReqOK
<1>7. ReqsOK' /\ RemovesGone'
  BY <1>2, <1>5, <1>6 DEF AcctInv, ReqsOK, RemovesGone, histVars
<1>8. NobodyCarries'
  BY <1>2, <1>4, <1>5, <1>6, CarriersKept DEF histVars
<1>9. DbOK'
  BY <1>2, DbKept DEF AcctInv, DbOK, Live
<1>10. DeletedStaysRemoved'
  BY <1>2 DEF AcctInv, DeletedStaysRemoved, Shown, histVars, shellVars
<1> QED BY <1>4, <1>7, <1>8, <1>9, <1>10 DEF AcctInv

\* The row goes: who carries records of the connection at this moment is noted.
LEMMA DeleteRowInv == ASSUME AcctInv, NEW q \in Req, DeleteRow(q) PROVE AcctInv'
<1> DEFINE c == req[q].conn
           l == [req[q] EXCEPT !.pc = "wasDefault"]
<1>1. /\ row' = [row EXCEPT ![c] = "gone"]
      /\ owner' = [owner EXCEPT ![c] = NoId] /\ beat' = [beat EXCEPT ![c] = "never"]
      /\ sigs' = [s \in Sig |-> IF sigs[s].conn = c THEN [conn |-> 0, dflt |-> FALSE] ELSE sigs[s]]
      /\ carried' = (IF Carriers(c) THEN carried \union {c} ELSE carried)
      /\ UNCHANGED <<run, recVars, forked, faults, default, settings, shellVars, made,
                     deleted, saved, overlap, mix>>
  BY DEF DeleteRow
<1>2. c \in Conn /\ req[q] \in Request /\ req \in [Req -> Request]
  BY RequestOf DEF DeleteRow, At, ReqOK
<1>3. SchedInv'
  BY <1>1, <1>2, DeletedInv DEF AcctInv
<1>4. row \in [Conn -> {"none", "live", "gone"}]
  BY DEF AcctInv, SchedInv, SchedTypeOK
<1>5. /\ row'[c] = "gone"
      /\ \A d \in Conn : d # c => row'[d] = row[d]
      /\ Live' = Live \ {c}
  BY <1>1, <1>2, <1>4 DEF Live
<1>6. UNCHANGED <<mailRecs, statusRecs, connRecs, profile, setRec>>
  BY <1>1 DEF recVars, shellVars
<1>7. req' = [req EXCEPT ![q] = l]
  BY <1>2 DEF DeleteRow, Then
<1>8. ReqOK(l) /\ l.pc = "wasDefault" /\ l.conn = c /\ l.conns = req[q].conns
  BY <1>2, ThenFacts DEF ReqPcs
<1> HIDE DEF l
<1>9. /\ req' \in [Req -> Request] /\ req'[q] = l
      /\ \A p \in Req : p # q => req'[p] = req[p]
  BY <1>2, <1>7, <1>8 DEF ReqOK
<1>10. DbOK'
  <2>1. sigs' \in [Sig -> [conn : Live' \union {0}, dflt : BOOLEAN]]
    <3>1. \A s \in Sig : sigs[s] \in [conn : Live \union {0}, dflt : BOOLEAN]
      BY DEF AcctInv, DbOK
    <3>2. \A s \in Sig : sigs'[s] \in [conn : Live' \union {0}, dflt : BOOLEAN]
      <4> HIDE DEF c
      <4> QED BY <1>1, <1>5, <3>1
    <3> QED BY <1>1, <3>2
  <2>2. carried' \subseteq Conn
    BY <1>1, <1>2 DEF AcctInv, DbOK
  <2> QED BY <1>1, <1>6, <2>1, <2>2 DEF AcctInv, DbOK
<1>11. ReqsOK'
  BY <1>8, <1>9 DEF AcctInv, ReqsOK
<1>12. RemovesGone'
  <2>1. \A p \in Req : req'[p].pc \in RowGone => row'[req'[p].conn] = "gone"
    <3> SUFFICES ASSUME NEW p \in Req, req'[p].pc \in RowGone PROVE row'[req'[p].conn] = "gone"
      OBVIOUS
    <3>1. CASE p = q
      BY <1>5, <1>8, <1>9, <3>1
    <3>2. CASE p # q
      <4>1. req'[p] = req[p] /\ row[req[p].conn] = "gone" /\ req[p].conn \in Conn
        BY <1>9, <3>2, RequestOf DEF ReqOK
      <4> QED BY <1>5, <4>1
    <3> QED BY <3>1, <3>2
  <2>2. \A d \in deleted : row'[d] = "gone"
    BY <1>5 DEF AcctInv, RemovesGone, DbOK
  <2> QED BY <1>1, <2>1, <2>2 DEF RemovesGone
<1>13. NobodyCarries'
  <2> SUFFICES ASSUME NEW d \in Conn, row'[d] = "gone", Carriers(d)' PROVE d \in carried'
    BY DEF NobodyCarries
  <2>1. Carriers(d)
    BY <1>1, <1>8, <1>9 DEF Carriers
  <2>2. CASE d = c
    BY <1>1, <2>1, <2>2
  <2>3. CASE d # c
    BY <1>1, <1>5, <2>1, <2>3 DEF AcctInv, NobodyCarries
  <2> QED BY <2>2, <2>3
<1>14. DeletedStaysRemoved'
  BY <1>1, <1>6 DEF AcctInv, DeletedStaysRemoved, Shown
<1> QED BY <1>3, <1>10, <1>11, <1>12, <1>13, <1>14 DEF AcctInv

LEMMA RemoveInv == ASSUME AcctInv, NEW q \in Req, Remove(q) PROVE AcctInv'
<1> DEFINE c == req[q].conn
           l == Priming(req[q])
<1>1. /\ mailRecs' = mailRecs \ {c} /\ statusRecs' = statusRecs \ {c}
      /\ connRecs' = connRecs \ {c} /\ deleted' = deleted \union {c}
      /\ UNCHANGED <<row, stateVars, run, forked, faults, dbVars, profile, setRec, made,
                     carried, saved, overlap, mix>>
  BY DEF Remove
<1>2. c \in Conn /\ row[c] = "gone" /\ req[q] \in Request /\ req \in [Req -> Request]
  BY RequestOf DEF Remove, At, ReqOK, RowGone
<1>3. SchedInv'
  BY <1>1, RecordsInv DEF AcctInv, SchedInv, SchedTypeOK
<1>4. ReqOK(l) /\ l.pc = "prime" /\ l.conns = req[q].conns
  BY <1>2, PrimingFacts
<1>5. req' = [req EXCEPT ![q] = l]
  BY <1>2 DEF Remove, ToPrime
<1> HIDE DEF l
<1>6. /\ req' \in [Req -> Request] /\ req'[q] = l
      /\ \A p \in Req : p # q => req'[p] = req[p]
  BY <1>2, <1>4, <1>5 DEF ReqOK
<1>7. DbOK'
  BY <1>1, <1>2 DEF AcctInv, DbOK, Live, dbVars
<1>8. ReqsOK'
  BY <1>4, <1>6 DEF AcctInv, ReqsOK
<1>9. RemovesGone'
  BY <1>1, <1>2, <1>4, <1>6 DEF AcctInv, RemovesGone, RowGone
<1>10. NobodyCarries'
  BY <1>1, <1>4, <1>6 DEF AcctInv, NobodyCarries, Carriers
<1>11. DeletedStaysRemoved'
  BY <1>1 DEF AcctInv, DeletedStaysRemoved, Shown
<1> QED BY <1>3, <1>7, <1>8, <1>9, <1>10, <1>11 DEF AcctInv

\* A run takes up records only of a connection that exists, and publishes what
\* it carries.
LEMMA StepCarries ==
  ASSUME SchedInv, NEW r \in Run, Step(r)
  PROVE  /\ UNCHANGED row
         /\ \A s \in Run : Carrying(run'[s]) =>
              /\ run'[s].conn = run[s].conn
              /\ Carrying(run[s]) \/ row[run[s].conn] = "live"
         /\ \/ mailRecs' = mailRecs /\ statusRecs' = statusRecs
            \/ /\ Carrying(run[r])
               /\ mailRecs' \subseteq mailRecs \union {run[r].conn}
               /\ statusRecs' \subseteq statusRecs \union {run[r].conn}
<1> DEFINE Kept == \A s \in Run : Carrying(run'[s]) =>
                     /\ run'[s].conn = run[s].conn
                     /\ Carrying(run[s]) \/ row[run[s].conn] = "live"
<1>0. run \in [Run -> RunRecord]
  BY DEF SchedInv, RunsProper
<1>1. UNCHANGED row
  BY DEF Step, Exists, Claim, Load, Fetch, Publish, Status, RecordError, Reschedule
<1>2. ASSUME NEW step \in Pcs, Goto(r, step),
             step \in {"fetch", "publish", "failed", "status"}
               => Carrying(run[r]) \/ row[run[r].conn] = "live"
      PROVE  Kept
  BY <1>0, <1>2, GotoFacts DEF Goto, Carrying, SchedInv
<1>3. ASSUME End(r) PROVE Kept
  BY <1>0, <1>3 DEF End, NoRun, Carrying
<1>4. ASSUME Returned(r) \/ Thrown(r) PROVE Kept
  BY <1>2, <1>3, <1>4 DEF Returned, Thrown, Pcs
<1>5. Kept
  <2>1. CASE Exists(r)
    BY <1>2, <1>3, <2>1 DEF Exists, Pcs
  <2>2. CASE Claim(r)
    <3>1. CASE End(r)
      BY <1>3, <3>1
    <3>2. CASE run' = [run EXCEPT ![r].id = IdFor(run[r].id), ![r].pc = "load"]
      BY <1>0, <3>2 DEF Carrying, RunRecord
    <3> QED BY <2>2, <3>1, <3>2 DEF Claim
  <2>3. CASE Load(r)
    BY <1>2, <1>4, <2>3 DEF Load, Pcs
  <2>4. CASE Fetch(r)
    BY <1>2, <2>4 DEF Fetch, Pcs, Carrying
  <2>5. CASE Publish(r)
    BY <1>2, <2>5 DEF Publish, Pcs, Carrying
  <2>6. CASE Status(r)
    BY <1>4, <2>6 DEF Status
  <2>7. CASE RecordError(r)
    BY <1>2, <2>7 DEF RecordError, Pcs
  <2>8. CASE Reschedule(r)
    BY <1>0, <2>8 DEF Reschedule, Started, Carrying
  <2> QED BY <2>1, <2>2, <2>3, <2>4, <2>5, <2>6, <2>7, <2>8 DEF Step
<1>6. \/ mailRecs' = mailRecs /\ statusRecs' = statusRecs
      \/ /\ Carrying(run[r])
         /\ mailRecs' \subseteq mailRecs \union {run[r].conn}
         /\ statusRecs' \subseteq statusRecs \union {run[r].conn}
  BY DEF Step, Exists, Claim, Load, Fetch, Publish, Status, RecordError, Reschedule,
     recVars, Carrying
<1> QED BY <1>1, <1>5, <1>6

LEMMA OtherRunsCarry ==
  ASSUME SchedInv,
         \/ \E c \in Conn : StartLoop(c) \/ StartCycle(c) \/ HeartbeatAges(c)
         \/ \E r \in Run : ClaimLost(r) \/ RescheduleLost(r) \/ Die(r)
  PROVE  /\ UNCHANGED <<row, mailRecs, statusRecs>>
         /\ \A s \in Run : Carrying(run'[s]) => run'[s] = run[s]
<1>0. run \in [Run -> RunRecord]
  BY DEF SchedInv, RunsProper
<1>1. UNCHANGED <<row, mailRecs, statusRecs>>
  BY DEF StartLoop, StartCycle, HeartbeatAges, ClaimLost, RescheduleLost, Die, recVars
<1>2. ASSUME NEW r \in Run, NEW c, NEW id, NEW loop, run' = Started(r, c, id, loop)
      PROVE  \A s \in Run : Carrying(run'[s]) => run'[s] = run[s]
  BY <1>0, <1>2 DEF Started, Carrying
<1>3. ASSUME NEW r \in Run, End(r)
      PROVE  \A s \in Run : Carrying(run'[s]) => run'[s] = run[s]
  BY <1>0, <1>3 DEF End, NoRun, Carrying
<1> QED BY <1>1, <1>2, <1>3 DEF StartLoop, StartCycle, HeartbeatAges, ClaimLost,
        RescheduleLost, Die, IdleRuns

LEMMA RunsInv == ASSUME AcctInv, Runs, UNCHANGED acctVars PROVE AcctInv'
<1>1. SchedInv'
  BY SchedNextInv DEF AcctInv, Runs, SchedNext
<1>2. UNCHANGED <<dbVars, shellVars, req, made, histVars, mix>>
  BY DEF acctVars
<1>3. /\ UNCHANGED row
      /\ \A s \in Run : Carrying(run'[s]) =>
           /\ run'[s].conn = run[s].conn
           /\ Carrying(run[s]) \/ row[run[s].conn] = "live"
      /\ \A c \in mailRecs' \union statusRecs' :
           \/ c \in mailRecs \union statusRecs
           \/ \E r \in Run : Carrying(run[r]) /\ run[r].conn = c
  <2>1. ASSUME NEW r \in Run, Step(r)
        PROVE  \A c \in mailRecs' \union statusRecs' :
                 \/ c \in mailRecs \union statusRecs
                 \/ \E s \in Run : Carrying(run[s]) /\ run[s].conn = c
    BY <2>1, StepCarries DEF AcctInv
  <2>2. CASE \E r \in Run : Step(r)
    BY <2>1, <2>2, StepCarries DEF AcctInv
  <2>3. CASE ~\E r \in Run : Step(r)
    BY <2>3, OtherRunsCarry DEF Runs, AcctInv
  <2> QED BY <2>2, <2>3
<1>4. DbOK'
  BY <1>2, <1>3, DbKept DEF AcctInv, DbOK, Live
<1>5. ReqsOK' /\ RemovesGone'
  BY <1>2, <1>3 DEF AcctInv, ReqsOK, RemovesGone, histVars
<1>6. NobodyCarries'
  BY <1>2, <1>3, CarriersKept DEF histVars
<1>7. DeletedStaysRemoved'
  <2> SUFFICES ASSUME NEW c \in deleted, c \in connRecs \union mailRecs' \union statusRecs'
               PROVE  c \in carried
    BY <1>2 DEF DeletedStaysRemoved, Shown, histVars, shellVars
  <2>1. CASE c \in Shown
    BY <2>1 DEF AcctInv, DeletedStaysRemoved
  <2>2. CASE c \notin Shown
    <3>1. PICK r \in Run : Carrying(run[r]) /\ run[r].conn = c
      BY <1>3, <2>2 DEF Shown
    <3>2. c \in Conn /\ row[c] = "gone"
      BY DEF AcctInv, RemovesGone, DbOK
    <3> QED BY <3>1, <3>2 DEF AcctInv, NobodyCarries, Carriers, Carrying
  <2> QED BY <2>1, <2>2
<1> QED BY <1>1, <1>4, <1>5, <1>6, <1>7 DEF AcctInv

-----------------------------------------------------------------------------
(* Theorems *)

LEMMA AcctInitInv == Init => AcctInv
<1> SUFFICES ASSUME Init PROVE AcctInv
  OBVIOUS
<1>1. row \in [Conn -> {"none", "live", "gone"}] /\ \A c \in Conn : row[c] # "gone"
  BY DEF Init
<1>2. RunsProper /\ \A r \in Run : run[r] = NoRun
  BY NoRunProper DEF Init, RunsProper, Proper
<1>3. 0 \in 0..MaxFaults /\ 0 \in 0..MaxReq
  BY SchedBounds, AccountsAssumption
<1>4. SchedTypeOK
  BY <1>1, <1>2, <1>3, LiveFacts DEF Init, SchedTypeOK, RunsProper, Proper, RunRecord, Pcs
<1>5. IdsApart /\ LoopOwns
  BY <1>2, NoRunProper DEF IdsApart, LoopOwns, Looping
<1>6. DbOK
  <2>1. NoSettings \in [Field -> BOOLEAN]
    BY DEF NoSettings
  <2>2. sigs \in [Sig -> [conn : Live \union {0}, dflt : BOOLEAN]]
    BY DEF Init
  <2> QED BY <1>3, <2>1, <2>2, LiveFacts DEF Init, DbOK
<1>7. ReqsOK /\ RemovesGone
  BY NoReqOK DEF Init, ReqsOK, RemovesGone, RowGone
<1>8. NobodyCarries /\ DeletedStaysRemoved
  BY <1>1 DEF Init, NobodyCarries, DeletedStaysRemoved
<1> QED BY <1>2, <1>4, <1>5, <1>6, <1>7, <1>8 DEF AcctInv, SchedInv

LEMMA AcctNextInv == AcctInv /\ [Next]_vars => AcctInv'
<1> SUFFICES ASSUME AcctInv, [Next]_vars PROVE AcctInv'
  OBVIOUS
<1>1. ASSUME NEW q \in Req, Ask(q) \/ Visit(q) PROVE AcctInv'
  BY <1>1, AskInv, LinkInv, LooksInv DEF Visit, Looks
<1>2. ASSUME NEW q \in Req, Serve(q) PROVE AcctInv'
  BY <1>2, LooksInv, WritesInv, ActivateInv, PrimePublishInv, DeleteRowInv, RemoveInv
  DEF Serve, Looks, Writes
<1>3. ASSUME NEW q \in Req, PrimeFails(q) \/ RemoveFails(q) \/ Stop(q) PROVE AcctInv'
  BY <1>3, FailsInv
<1>4. ASSUME NEW s \in Sig, DeleteSignature(s) PROVE AcctInv'
  BY <1>4, DeleteSignatureInv
<1>5. CASE Runs /\ UNCHANGED acctVars
  BY <1>5, RunsInv
<1>6. CASE UNCHANGED vars
  <2>1. UNCHANGED <<row, owner, beat, run, mailRecs, statusRecs, forked, faults>>
    BY <1>6 DEF vars, schedVars, stateVars, recVars
  <2>2. UNCHANGED <<dbVars, shellVars, req, made, histVars, mix>>
    BY <1>6 DEF vars, acctVars
  <2>3. SchedInv'
    BY <2>1, RecordsInv DEF AcctInv, SchedInv, SchedTypeOK, stateVars
  <2>4. DbOK' /\ ReqsOK' /\ RemovesGone'
    BY <2>1, <2>2, DbKept DEF AcctInv, DbOK, Live, ReqsOK, RemovesGone, histVars
  <2>5. NobodyCarries' /\ DeletedStaysRemoved'
    BY <2>1, <2>2 DEF AcctInv, NobodyCarries, Carriers, DeletedStaysRemoved, Shown,
       histVars, shellVars
  <2> QED BY <2>3, <2>4, <2>5 DEF AcctInv
<1> QED BY <1>1, <1>2, <1>3, <1>4, <1>5, <1>6 DEF Next

THEOREM AcctInvariance == Spec => []AcctInv
  BY AcctInitInv, AcctNextInv, PTL DEF Spec

\* Type correctness of the account; in particular no signature is ever that of
\* a connection whose row is gone (the foreign key of server/db/schema.ts).
THEOREM AccountTypeCorrect == Spec => []TypeOK
<1>1. AcctInv => TypeOK
  BY AcctTyped DEF AcctInv, SchedInv
<1> QED BY <1>1, AcctInvariance, PTL

\* Once deleteConnection (connections.ts) has removed a connection's records,
\* nothing brings one back, whatever is linked, primed, synchronised or fails at
\* the same time, but what a prime or a cycle carried when the row went.
THEOREM RemovalStays == Spec => []DeletedStaysRemoved
<1>1. AcctInv => DeletedStaysRemoved
  BY DEF AcctInv
<1> QED BY <1>1, AcctInvariance, PTL

\* A connection has one loop also when connections are linked, linked again and
\* deleted under their loops, each link starting one more.
THEOREM OneLoopPerAccount == ~SlowLoops => (Spec => []OneLoop)
<1> SUFFICES ASSUME ~SlowLoops PROVE Spec => []OneLoop
  OBVIOUS
<1>1. AcctInv => OneLoop
  BY LoopsAreOne DEF AcctInv
<1> QED BY <1>1, AcctInvariance, PTL

-----------------------------------------------------------------------------
(* Whose mail a browser holds: any users, any number of tabs *)

CONSTANTS User, Tab, None, Login, MaxTurns
VARIABLES cookies, alive, tab, blob, store, turns, failures, gone, lapsed
Sessions == INSTANCE Sessions WITH faults <- failures

NobodyIsAUser == None \notin User /\ Login \notin User /\ None # Login

Stored == [owner : User \union {None}, mail : SUBSET User]
Documents ==
  [page : User \union {None, Login}, mem : SUBSET User,
   restore : {"done", "start", "read"}, read : Stored \union {None},
   phase : {"open", "entering", "signedOut", "failed", "kept", "ended", "returning", "leaving"},
   fetch : User \union {None}, check : {"none", "ended", "leave"}]

\* A closed tab has nothing, and only pages of users sign out.
DocumentOK(d) ==
  /\ d.page = None => d.phase = "open" /\ d.restore = "done" /\ d.mem = {} /\ d.fetch = None
  /\ d.phase \notin {"open", "entering"} => d.page \in User
  /\ d.phase = "entering" => d.page = Login

SessionTypes ==
  /\ cookies \in [token : User \union {None}, data : User \union {None}, owner : User \union {None}]
  /\ alive \in BOOLEAN /\ lapsed \in BOOLEAN /\ gone \subseteq User
  /\ tab \in [Tab -> Documents] /\ \A t \in Tab : DocumentOK(tab[t])
  /\ blob \in Stored \union {None} /\ store \in [User -> SUBSET User]

\* The cookie cache is of the session, and whoever has one has not signed out.
CookiesAgree == cookies.data \in {None, cookies.token} /\ cookies.token \notin gone

\* What a document holds and waits for is of its user; what one holds that is
\* being left is nothing.
HoldsOwn(d) ==
  /\ d.mem \subseteq {d.page} /\ (d.fetch # None => d.page = d.fetch)
  /\ d.read # None => d.read.mail \subseteq {d.read.owner}
  /\ d.phase \in {"ended", "leaving"} => d.mem = {} /\ d.fetch = None

\* The copy that is stored is its owner's, and not of a user who has signed out,
\* or is about to have.
BlobIsOwn ==
  blob # None =>
    /\ blob.mail \subseteq {blob.owner} /\ blob.mail \intersect gone = {}
    /\ cookies.token = None => \A t \in Tab : tab[t].phase = "ended" => tab[t].page \notin blob.mail

StoresAreOwn == \A u \in User : store[u] \subseteq {u} /\ (u \in gone => store[u] = {})

Own ==
  /\ CookiesAgree /\ BlobIsOwn /\ StoresAreOwn
  /\ \A t \in Tab : HoldsOwn(tab[t]) /\ ~Sessions!Astray(t)

SessionInv == SessionTypes /\ (~lapsed => Own)

\* Who a request passes as is whom the cookies name.
LEMMA WhomIs ==
  ASSUME SessionTypes PROVE Sessions!Whom \in User \union {None}
BY DEF SessionTypes, Sessions!Whom

LEMMA ProxiedCookies ==
  ASSUME SessionTypes, NEW u \in User \union {None}, Sessions!Proxied(u)
  PROVE  /\ cookies' \in [token : User \union {None}, data : User \union {None}, owner : User \union {None}]
         /\ cookies'.token = cookies.token /\ cookies'.owner = u
         /\ cookies'.data = IF u = None THEN cookies.data ELSE u
         /\ u = None \/ u = Sessions!Whom
BY DEF SessionTypes, Sessions!Proxied

LEMMA DocumentTyped ==
  ASSUME NobodyIsAUser, NEW u \in User \union {None}
  PROVE  /\ Sessions!Document(u) \in Documents /\ DocumentOK(Sessions!Document(u))
         /\ Sessions!Document(u).page = (IF u = None THEN Login ELSE u)
         /\ Sessions!Document(u).mem = {} /\ Sessions!Document(u).fetch = None
         /\ Sessions!Document(u).read = None /\ Sessions!Document(u).phase = "open"
         /\ Sessions!Document(u).restore = "start"
BY DEF Sessions!Document, Sessions!Closed, Documents, DocumentOK, NobodyIsAUser

LEMMA ClosedTyped ==
  /\ Sessions!Closed \in Documents /\ DocumentOK(Sessions!Closed)
  /\ Sessions!Closed.page = None /\ Sessions!Closed.mem = {} /\ Sessions!Closed.fetch = None
  /\ Sessions!Closed.read = None /\ Sessions!Closed.phase = "open" /\ Sessions!Closed.restore = "done"
BY DEF Sessions!Closed, Documents, DocumentOK

\* A step that puts a sound document into one tab keeps the tabs sound.
LEMMA OneDocument ==
  ASSUME SessionTypes, NEW t \in Tab, NEW d \in Documents, DocumentOK(d),
         tab' = [tab EXCEPT ![t] = d]
  PROVE  tab' \in [Tab -> Documents] /\ \A x \in Tab : DocumentOK(tab'[x])
BY DEF SessionTypes

\* Types, step by step: what a page does in the background ...
LEMMA BrowserTypes ==
  ASSUME NobodyIsAUser, SessionTypes, NEW t \in Tab, Sessions!Browser(t), lapsed' \in BOOLEAN
  PROVE  SessionTypes'
<1>0. tab[t] \in Documents /\ DocumentOK(tab[t])
  BY DEF SessionTypes
<1>1. CASE Sessions!Load(t)
  <2>1. PICK u \in User \union {None} :
          Sessions!Proxied(u) /\ tab' = [tab EXCEPT ![t] = Sessions!Document(u)]
    BY <1>1 DEF Sessions!Load, Sessions!Arrive
  <2> QED BY <1>1, <2>1, ProxiedCookies, DocumentTyped, OneDocument DEF Sessions!Load, SessionTypes
<1>2. CASE Sessions!Close(t)
  BY <1>2, ClosedTyped, OneDocument DEF Sessions!Close, SessionTypes
<1>3. CASE Sessions!RestoreReads(t)
  <2> DEFINE d == [tab[t] EXCEPT !.restore = "read", !.read = blob]
  <2>1. d \in Documents /\ DocumentOK(d)
    BY <1>0, <1>3 DEF Sessions!RestoreReads, SessionTypes, Documents, DocumentOK
  <2>2. tab' = [tab EXCEPT ![t] = d]
    BY <1>3 DEF Sessions!RestoreReads, SessionTypes
  <2> QED BY <1>3, <2>1, <2>2, OneDocument DEF Sessions!RestoreReads, SessionTypes
<1>4. CASE Sessions!RestoreEnds(t)
  <2> DEFINE own == tab[t].read # None /\ Sessions!Owned(tab[t].read)
             d == [tab[t] EXCEPT !.restore = "done", !.read = None,
                                 !.mem = IF own THEN tab[t].read.mail ELSE @]
  <2>1. tab[t].read # None => tab[t].read.mail \in SUBSET User
    BY <1>0 DEF Documents, Stored
  <2>2. d \in Documents /\ DocumentOK(d)
    BY <1>0, <1>4, <2>1 DEF Sessions!RestoreEnds, Documents, DocumentOK
  <2>3. tab' = [tab EXCEPT ![t] = d] /\ blob' \in {None, blob}
    BY <1>4 DEF Sessions!RestoreEnds, SessionTypes
  <2> QED BY <1>4, <2>2, <2>3, OneDocument DEF Sessions!RestoreEnds, SessionTypes
<1>5. CASE Sessions!Navigate(t)
  <2>1. PICK u \in User \union {None} : /\ Sessions!Proxied(u)
          /\ tab' = [tab EXCEPT ![t].page = IF u = None THEN Login ELSE @, ![t].check = "none"]
    BY <1>5 DEF Sessions!Navigate, Sessions!Go
  <2> DEFINE d == [tab[t] EXCEPT !.page = IF u = None THEN Login ELSE @, !.check = "none"]
  <2>2. d \in Documents /\ DocumentOK(d)
    BY <1>0, <1>5 DEF Sessions!Navigate, Sessions!InApp, Sessions!Signed, Documents, DocumentOK, NobodyIsAUser
  <2>3. tab' = [tab EXCEPT ![t] = d]
    BY <2>1 DEF SessionTypes
  <2> QED BY <1>5, <2>1, <2>2, <2>3, ProxiedCookies, OneDocument DEF Sessions!Navigate, SessionTypes
<1>6. CASE Sessions!Ask(t)
  <2>1. PICK u \in User \union {None} :
          Sessions!Proxied(u) /\ tab' = [tab EXCEPT ![t].fetch = u]
    BY <1>6 DEF Sessions!Ask
  <2> DEFINE d == [tab[t] EXCEPT !.fetch = u]
  <2>2. d \in Documents /\ DocumentOK(d)
    BY <1>0, <1>6 DEF Sessions!Ask, Sessions!Signed, Documents, DocumentOK, NobodyIsAUser
  <2>3. tab' = [tab EXCEPT ![t] = d]
    BY <2>1 DEF SessionTypes
  <2> QED BY <1>6, <2>1, <2>2, <2>3, ProxiedCookies, OneDocument DEF Sessions!Ask, SessionTypes
<1>7. CASE Sessions!Answered(t)
  <2> DEFINE mem == tab[t].mem \union {tab[t].fetch}
             d == [tab[t] EXCEPT !.fetch = None, !.mem = mem]
  <2>1. mem \in SUBSET User /\ tab[t].fetch # None
    BY <1>0, <1>7 DEF Sessions!Answered, Documents
  <2>2. d \in Documents /\ DocumentOK(d)
    BY <1>0, <2>1 DEF Documents, DocumentOK
  <2>3. tab' = [tab EXCEPT ![t] = d] /\ blob' = [owner |-> cookies.owner, mail |-> mem]
    BY <1>7 DEF Sessions!Answered, Sessions!Saved, SessionTypes
  <2> QED BY <1>7, <2>1, <2>2, <2>3, OneDocument DEF Sessions!Answered, SessionTypes, Stored
<1>8. CASE Sessions!Persist(t)
  BY <1>0, <1>8 DEF Sessions!Persist, Sessions!Saved, SessionTypes, Stored, Documents
<1>9. CASE Sessions!Connect(t)
  BY <1>0, <1>9, WhomIs DEF Sessions!Connect, SessionTypes
<1> QED BY <1>1, <1>2, <1>3, <1>4, <1>5, <1>6, <1>7, <1>8, <1>9 DEF Sessions!Browser

\* ... signing in and out ...
LEMMA SigningTypes ==
  ASSUME NobodyIsAUser, SessionTypes, NEW t \in Tab, Sessions!Signing(t), lapsed' \in BOOLEAN
  PROVE  SessionTypes'
<1>0. tab[t] \in Documents /\ DocumentOK(tab[t])
  BY DEF SessionTypes
<1>1. ASSUME NEW u \in User, Sessions!SignIn(t, u) PROVE SessionTypes'
  <2> DEFINE d == [tab[t] EXCEPT !.phase = "entering"]
  <2>1. d \in Documents /\ DocumentOK(d)
    BY <1>0, <1>1 DEF Sessions!SignIn, Documents, DocumentOK, NobodyIsAUser
  <2>2. tab' = [tab EXCEPT ![t] = d]
    BY <1>1 DEF Sessions!SignIn, SessionTypes
  <2> QED BY <1>1, <2>1, <2>2, OneDocument DEF Sessions!SignIn, Sessions!NewSession, SessionTypes
<1>2. ASSUME NEW u \in User, Sessions!SignInByProvider(t, u) PROVE SessionTypes'
  BY <1>2, DocumentTyped, OneDocument DEF Sessions!SignInByProvider, Sessions!NewSession, SessionTypes
<1>3. CASE Sessions!Enter(t)
  <2>1. PICK u \in User \union {None} : /\ Sessions!Proxied(u)
          /\ tab' = [tab EXCEPT ![t].phase = "open", ![t].page = IF u = None THEN Login ELSE u]
    BY <1>3 DEF Sessions!Enter
  <2> DEFINE d == [tab[t] EXCEPT !.phase = "open", !.page = IF u = None THEN Login ELSE u]
  <2>2. d \in Documents /\ DocumentOK(d)
    BY <1>0 DEF Documents, DocumentOK, NobodyIsAUser
  <2>3. tab' = [tab EXCEPT ![t] = d]
    BY <2>1 DEF SessionTypes
  <2> QED BY <1>3, <2>1, <2>2, <2>3, ProxiedCookies, OneDocument DEF Sessions!Enter, SessionTypes
<1>4. CASE Sessions!SignOut(t)
  <2>1. PICK phase \in {"signedOut", "failed"} : tab' = [tab EXCEPT ![t].phase = phase]
    BY <1>4 DEF Sessions!SignOut
  <2> DEFINE d == [tab[t] EXCEPT !.phase = phase]
  <2>2. d \in Documents /\ DocumentOK(d)
    BY <1>0, <1>4 DEF Sessions!SignOut, Sessions!InApp, Sessions!Signed, Documents, DocumentOK, NobodyIsAUser
  <2>3. tab' = [tab EXCEPT ![t] = d] /\ alive' \in BOOLEAN
    BY <1>4, <2>1 DEF Sessions!SignOut, SessionTypes
  <2> QED BY <1>4, <2>2, <2>3, OneDocument DEF Sessions!SignOut, SessionTypes
<1>5. CASE Sessions!Clear(t)
  <2> DEFINE d == [Sessions!Cleared(tab[t]) EXCEPT !.phase = IF tab[t].phase = "failed" THEN "kept" ELSE "ended"]
  <2>1. d \in Documents /\ DocumentOK(d)
    BY <1>0, <1>5 DEF Sessions!Clear, Sessions!Cleared, Documents, DocumentOK, NobodyIsAUser
  <2>2. tab' = [tab EXCEPT ![t] = d]
    BY <1>5 DEF Sessions!Clear, SessionTypes
  <2> QED BY <1>5, <2>1, <2>2, OneDocument DEF Sessions!Clear, SessionTypes
<1>6. CASE Sessions!Purge(t)
  <2> DEFINE d == [tab[t] EXCEPT !.phase = IF @ = "kept" THEN "returning" ELSE "leaving"]
  <2>1. d \in Documents /\ DocumentOK(d) /\ tab[t].page \in User
    BY <1>0, <1>6 DEF Sessions!Purge, Documents, DocumentOK, NobodyIsAUser
  <2>2. tab' = [tab EXCEPT ![t] = d]
    BY <1>6 DEF Sessions!Purge, SessionTypes
  <2>3. store' \in [User -> SUBSET User] /\ gone' \subseteq User
    BY <1>6, <2>1 DEF Sessions!Purge, SessionTypes
  <2> QED BY <1>6, <2>1, <2>2, <2>3, OneDocument DEF Sessions!Purge, SessionTypes
<1>7. CASE Sessions!LoadLogin(t)
  <2>1. PICK u \in User \union {None} :
          Sessions!Proxied(u) /\ tab' = [tab EXCEPT ![t] = Sessions!Document(u)]
    BY <1>7 DEF Sessions!LoadLogin, Sessions!Arrive
  <2> QED BY <1>7, <2>1, ProxiedCookies, DocumentTyped, OneDocument DEF Sessions!LoadLogin, SessionTypes
<1> QED BY <1>1, <1>2, <1>3, <1>4, <1>5, <1>6, <1>7 DEF Sessions!Signing

\* ... and the check in the background.
LEMMA CheckTypes ==
  ASSUME NobodyIsAUser, SessionTypes, NEW t \in Tab, Sessions!Check(t), lapsed' \in BOOLEAN
  PROVE  SessionTypes'
<1>0. tab[t] \in Documents /\ DocumentOK(tab[t])
  BY DEF SessionTypes
<1>1. CASE Sessions!CheckAsked(t)
  <2>1. PICK check \in {tab[t].check, "ended"} : tab' = [tab EXCEPT ![t].check = check]
    BY <1>1 DEF Sessions!CheckAsked
  <2> DEFINE d == [tab[t] EXCEPT !.check = check]
  <2>2. d \in Documents /\ DocumentOK(d)
    BY <1>0 DEF Documents, DocumentOK
  <2>3. tab' = [tab EXCEPT ![t] = d] /\ cookies' = [cookies EXCEPT !.data = Sessions!Whom]
    BY <1>1, <2>1 DEF Sessions!CheckAsked, SessionTypes
  <2> QED BY <1>1, <2>2, <2>3, WhomIs, OneDocument DEF Sessions!CheckAsked, SessionTypes
<1>2. CASE Sessions!CheckAnswered(t)
  <2> DEFINE d == [Sessions!Cleared(tab[t]) EXCEPT !.check = "leave"]
             e == [tab[t] EXCEPT !.check = "none"]
  <2>1. d \in Documents /\ DocumentOK(d) /\ e \in Documents /\ DocumentOK(e)
    BY <1>0 DEF Sessions!Cleared, Documents, DocumentOK
  <2>2. tab' = [tab EXCEPT ![t] = d] \/ tab' = [tab EXCEPT ![t] = e]
    BY <1>2 DEF Sessions!CheckAnswered, SessionTypes
  <2> QED BY <1>2, <2>1, <2>2, OneDocument DEF Sessions!CheckAnswered, SessionTypes
<1>3. CASE Sessions!Leave(t)
  <2>1. PICK u \in User \union {None} : /\ Sessions!Proxied(u)
          /\ tab' = [tab EXCEPT ![t].page = IF u = None THEN Login ELSE @, ![t].check = "none"]
    BY <1>3 DEF Sessions!Leave, Sessions!Go
  <2> DEFINE d == [tab[t] EXCEPT !.page = IF u = None THEN Login ELSE @, !.check = "none"]
  <2>2. d \in Documents /\ DocumentOK(d)
    BY <1>0, <1>3 DEF Sessions!Leave, Sessions!InApp, Sessions!Signed, Documents, DocumentOK, NobodyIsAUser
  <2>3. tab' = [tab EXCEPT ![t] = d]
    BY <2>1 DEF SessionTypes
  <2> QED BY <1>3, <2>1, <2>2, <2>3, ProxiedCookies, OneDocument DEF Sessions!Leave, SessionTypes
<1> QED BY <1>1, <1>2, <1>3 DEF Sessions!Check

LEMMA OneHolds ==
  ASSUME SessionTypes, Own, NEW t \in Tab, NEW d, HoldsOwn(d), tab' = [tab EXCEPT ![t] = d],
         d.phase = "ended" => tab[t].phase = "ended" /\ d.page = tab[t].page
  PROVE  \A x \in Tab :
           /\ HoldsOwn(tab'[x])
           /\ tab'[x].phase = "ended" => tab[x].phase = "ended" /\ tab'[x].page = tab[x].page
BY DEF SessionTypes, Own

LEMMA EmptyHolds ==
  /\ HoldsOwn(Sessions!Closed) /\ Sessions!Closed.phase = "open"
  /\ \A u \in User \union {None} :
       /\ HoldsOwn(Sessions!Document(u))
       /\ Sessions!Document(u).phase = "open"
BY DEF HoldsOwn, Sessions!Closed, Sessions!Document

\* A request that passes changes neither the session nor who has signed out.
LEMMA ProxiedAgrees ==
  ASSUME SessionTypes, Own, NEW u \in User \union {None}, Sessions!Proxied(u), gone' = gone
  PROVE  CookiesAgree' /\ cookies'.token = cookies.token
<1>1. Sessions!Whom \in {None, cookies.token}
  BY DEF Own, CookiesAgree, Sessions!Whom
<1> QED BY <1>1, ProxiedCookies DEF Own, CookiesAgree

\* A step that writes no mail, and signs nobody out.
LEMMA NothingWritten ==
  ASSUME Own, \A x \in Tab : ~Sessions!Astray(x)', CookiesAgree', UNCHANGED store,
         gone' \subseteq gone, blob' \in {blob, None},
         cookies'.token = None => cookies.token = None,
         \A x \in Tab :
           /\ HoldsOwn(tab'[x])
           /\ tab'[x].phase = "ended" => tab[x].phase = "ended" /\ tab'[x].page = tab[x].page
  PROVE  Own'
<1>1. BlobIsOwn'
  BY DEF Own, BlobIsOwn
<1>2. StoresAreOwn'
  BY DEF Own, StoresAreOwn
<1> QED BY <1>1, <1>2 DEF Own

\* The copy of a tab's cache that is stored is of the user whom the cookie names.
LEMMA CopyIsOwn ==
  ASSUME NobodyIsAUser, SessionTypes, Own, \A x \in Tab : ~Sessions!Astray(x)',
         NEW t \in Tab, NEW mem \in SUBSET User, mem \subseteq {tab[t].page},
         tab[t].phase \in {"ended", "leaving"} => mem = {},
         NEW d, d.page = tab[t].page, d.phase = tab[t].phase, HoldsOwn(d),
         tab' = [tab EXCEPT ![t] = d], blob' = [owner |-> cookies.owner, mail |-> mem],
         UNCHANGED <<cookies, store, gone>>
  PROVE  Own'
<1>1. \A x \in Tab : HoldsOwn(tab'[x])
  BY OneHolds
<1>2. CookiesAgree' /\ StoresAreOwn'
  BY DEF Own, CookiesAgree, StoresAreOwn
<1>3. CASE mem = {}
  BY <1>1, <1>2, <1>3 DEF Own, BlobIsOwn
<1>4. CASE mem # {}
  <2>1. tab[t].page \in User /\ mem = {tab[t].page} /\ tab[t].phase \notin {"ended", "leaving"}
    BY <1>4
  <2>2. ~Sessions!Astray(t)
    BY DEF Own
  <2>3. cookies.owner = tab[t].page /\ cookies.token = tab[t].page
    BY <2>1, <2>2 DEF Sessions!Astray, Sessions!Signed
  <2>4. cookies.token # None /\ cookies.token \notin gone
    BY <2>1, <2>3 DEF NobodyIsAUser, Own, CookiesAgree
  <2>5. BlobIsOwn'
    BY <2>1, <2>3, <2>4 DEF BlobIsOwn
  <2> QED BY <1>1, <1>2, <2>5 DEF Own
<1> QED BY <1>3, <1>4

\* A navigation keeps the page's user, or history has it that the page was sent away.
LEMMA GoKeeps ==
  ASSUME NobodyIsAUser, SessionTypes, Own, NEW t \in Tab, Sessions!Go(t), Sessions!InApp(t),
         UNCHANGED <<blob, store, gone>>,
         \A x \in Tab : ~Sessions!Astray(x)' /\ ~Sessions!SentAway(x)
  PROVE  Own'
<1>1. PICK u \in User \union {None} : /\ Sessions!Proxied(u)
        /\ tab' = [tab EXCEPT ![t].page = IF u = None THEN Login ELSE @, ![t].check = "none"]
  BY DEF Sessions!Go
<1> DEFINE d == [tab[t] EXCEPT !.page = IF u = None THEN Login ELSE @, !.check = "none"]
<1>2. tab[t] \in Documents /\ HoldsOwn(tab[t]) /\ tab[t].page \in User /\ tab[t].phase = "open"
  BY DEF SessionTypes, Own, Sessions!InApp, Sessions!Signed
<1>3. tab' = [tab EXCEPT ![t] = d] /\ tab'[t] = d
  BY <1>1 DEF SessionTypes
<1>4. /\ d.mem = tab[t].mem /\ d.fetch = tab[t].fetch /\ d.read = tab[t].read /\ d.phase = "open"
      /\ d.page = IF u = None THEN Login ELSE tab[t].page
  BY <1>2 DEF Documents
<1>5. HoldsOwn(d)
  <2>1. CASE u = None
    <3>1. d = Sessions!Document(None)
      BY <1>2, <1>3, <1>4, <2>1 DEF Sessions!SentAway, Sessions!Signed
    <3> QED BY <3>1, EmptyHolds
  <2>2. CASE u # None
    BY <1>2, <1>4, <2>2 DEF HoldsOwn
  <2> QED BY <2>1, <2>2
<1> QED BY <1>1, <1>3, <1>4, <1>5, ProxiedAgrees, OneHolds, NothingWritten

\* The steps of a page keep what the caches hold the user's own.
LEMMA BrowserKeeps ==
  ASSUME NobodyIsAUser, SessionTypes, Own, NEW t \in Tab, Sessions!Browser(t),
         \A x \in Tab : ~Sessions!Astray(x)' /\ ~Sessions!SentAway(x)
  PROVE  Own'
<1>0. /\ tab[t] \in Documents /\ DocumentOK(tab[t]) /\ HoldsOwn(tab[t]) /\ ~Sessions!Astray(t)
      /\ CookiesAgree
  BY DEF SessionTypes, Own
<1>1. CASE Sessions!Load(t)
  <2>1. PICK u \in User \union {None} :
          Sessions!Proxied(u) /\ tab' = [tab EXCEPT ![t] = Sessions!Document(u)]
    BY <1>1 DEF Sessions!Load, Sessions!Arrive
  <2>2. UNCHANGED <<blob, store, gone>>
    BY <1>1 DEF Sessions!Load
  <2> QED BY <2>1, <2>2, ProxiedAgrees, EmptyHolds, OneHolds, NothingWritten
<1>2. CASE Sessions!Close(t)
  <2>1. UNCHANGED <<cookies, blob, store, gone>> /\ tab' = [tab EXCEPT ![t] = Sessions!Closed]
    BY <1>2 DEF Sessions!Close
  <2> QED BY <1>0, <2>1, EmptyHolds, OneHolds, NothingWritten DEF CookiesAgree
<1>3. CASE Sessions!RestoreReads(t)
  <2> DEFINE d == [tab[t] EXCEPT !.restore = "read", !.read = blob]
  <2>1. UNCHANGED <<cookies, blob, store, gone>> /\ tab' = [tab EXCEPT ![t] = d]
    BY <1>3 DEF Sessions!RestoreReads, SessionTypes
  <2>2. /\ d.read = blob /\ d.page = tab[t].page /\ d.mem = tab[t].mem /\ d.fetch = tab[t].fetch
        /\ d.phase = tab[t].phase
    BY <1>0 DEF Documents
  <2>3. HoldsOwn(d)
    BY <1>0, <2>2 DEF HoldsOwn, Own, BlobIsOwn
  <2> QED BY <1>0, <2>1, <2>2, <2>3, OneHolds, NothingWritten DEF CookiesAgree
<1>4. CASE Sessions!RestoreEnds(t)
  <2> DEFINE own == tab[t].read # None /\ Sessions!Owned(tab[t].read)
             mem == IF own THEN tab[t].read.mail ELSE tab[t].mem
             d == [tab[t] EXCEPT !.restore = "done", !.read = None, !.mem = mem]
  <2>1. /\ UNCHANGED <<cookies, store, gone>> /\ tab' = [tab EXCEPT ![t] = d] /\ blob' \in {blob, None}
        /\ tab[t].restore = "read"
    BY <1>4 DEF Sessions!RestoreEnds, SessionTypes
  <2>2. /\ d.read = None /\ d.page = tab[t].page /\ d.mem = mem /\ d.fetch = tab[t].fetch
        /\ d.phase = tab[t].phase
    BY <1>0 DEF Documents
  <2>3. tab[t].phase = "open" /\ tab[t].page # None
    BY <1>0, <2>1 DEF Sessions!Astray, Sessions!Restored, DocumentOK
  <2>4. mem \subseteq {tab[t].page}
    <3>1. CASE own
      <4>1. mem \in SUBSET User /\ mem \subseteq {cookies.owner}
        BY <1>0, <3>1 DEF Documents, Stored, HoldsOwn, Sessions!Owned
      <4>2. tab[t].page = cookies.owner \/ (tab[t].page = Login /\ cookies.owner = None)
        BY <1>0, <2>1, <2>3 DEF Sessions!Astray, Sessions!Restored, Sessions!Signed, Documents
      <4> QED BY <4>1, <4>2 DEF NobodyIsAUser
    <3>2. CASE ~own
      BY <1>0, <3>2 DEF HoldsOwn
    <3> QED BY <3>1, <3>2
  <2>5. HoldsOwn(d)
    BY <1>0, <2>2, <2>3, <2>4 DEF HoldsOwn
  <2> QED BY <1>0, <2>1, <2>2, <2>5, OneHolds, NothingWritten DEF CookiesAgree
<1>5. CASE Sessions!Navigate(t)
  <2>1. Sessions!Go(t) /\ UNCHANGED <<blob, store, gone>> /\ Sessions!InApp(t)
    BY <1>5 DEF Sessions!Navigate
  <2> QED BY <2>1, GoKeeps
<1>6. CASE Sessions!Ask(t)
  <2>1. PICK u \in User \union {None} :
          Sessions!Proxied(u) /\ tab' = [tab EXCEPT ![t].fetch = u]
    BY <1>6 DEF Sessions!Ask
  <2> DEFINE d == [tab[t] EXCEPT !.fetch = u]
  <2>2. UNCHANGED <<blob, store, gone>> /\ tab' = [tab EXCEPT ![t] = d] /\ tab[t].page \in User
    BY <1>6, <2>1 DEF Sessions!Ask, Sessions!Signed, SessionTypes
  <2>3. /\ d.read = tab[t].read /\ d.page = tab[t].page /\ d.mem = tab[t].mem /\ d.fetch = u
        /\ d.phase = tab[t].phase
    BY <1>0 DEF Documents
  <2>4. CookiesAgree' /\ cookies'.token = cookies.token /\ cookies'.owner = u
    BY <2>1, <2>2, ProxiedAgrees, ProxiedCookies
  \* The answer is for the user whom the cookie then names.
  <2>5. u = tab[t].page
    <3>1. tab'[t] = d
      BY <2>2 DEF SessionTypes
    <3> QED BY <2>2, <2>3, <2>4, <3>1 DEF Sessions!Astray, Sessions!Signed
  <2>6. tab[t].phase \notin {"ended", "leaving"}
    <3>1. u # None /\ u = Sessions!Whom
      BY <2>1, <2>2, <2>5, ProxiedCookies DEF NobodyIsAUser
    <3>2. cookies.token # None
      BY <1>0, <3>1 DEF CookiesAgree, Sessions!Whom
    <3> QED BY <1>0, <2>2, <3>2 DEF Sessions!Astray, Sessions!Signed
  <2>7. HoldsOwn(d)
    BY <1>0, <2>3, <2>5, <2>6 DEF HoldsOwn
  <2> QED BY <2>2, <2>3, <2>4, <2>7, OneHolds, NothingWritten
<1>7. CASE Sessions!Answered(t)
  <2> DEFINE mem == tab[t].mem \union {tab[t].fetch}
             d == [tab[t] EXCEPT !.fetch = None, !.mem = mem]
  <2>1. /\ UNCHANGED <<cookies, store, gone>> /\ tab' = [tab EXCEPT ![t] = d] /\ tab[t].fetch # None
        /\ blob' = [owner |-> cookies.owner, mail |-> mem]
    BY <1>7 DEF Sessions!Answered, Sessions!Saved, SessionTypes
  <2>2. /\ d.read = tab[t].read /\ d.page = tab[t].page /\ d.mem = mem /\ d.fetch = None
        /\ d.phase = tab[t].phase
    BY <1>0 DEF Documents
  <2>3. mem \in SUBSET User /\ mem \subseteq {tab[t].page} /\ tab[t].phase \notin {"ended", "leaving"}
    BY <1>0, <2>1 DEF Documents, HoldsOwn
  <2>4. HoldsOwn(d)
    BY <1>0, <2>2, <2>3 DEF HoldsOwn
  <2> HIDE DEF d, mem
  <2> QED BY <2>1, <2>2, <2>3, <2>4, CopyIsOwn
<1>8. CASE Sessions!Persist(t)
  <2>1. /\ UNCHANGED <<cookies, tab, store, gone>>
        /\ blob' = [owner |-> cookies.owner, mail |-> tab[t].mem]
    BY <1>8 DEF Sessions!Persist, Sessions!Saved
  <2>2. tab' = [tab EXCEPT ![t] = tab[t]]
    BY <2>1 DEF SessionTypes
  <2>3. /\ tab[t].mem \in SUBSET User /\ tab[t].mem \subseteq {tab[t].page}
        /\ tab[t].phase \in {"ended", "leaving"} => tab[t].mem = {}
    BY <1>0 DEF Documents, HoldsOwn
  <2> QED BY <1>0, <2>1, <2>2, <2>3, CopyIsOwn
<1>9. CASE Sessions!Connect(t)
  <2>1. /\ UNCHANGED <<cookies, tab, blob, gone>> /\ Sessions!InApp(t) /\ Sessions!Whom # None
        /\ store' = [store EXCEPT ![tab[t].page] = @ \union {Sessions!Whom}]
    BY <1>9 DEF Sessions!Connect
  <2>2. Sessions!Whom = tab[t].page
    BY <1>0, <2>1 DEF Sessions!Astray, Sessions!InApp
  <2>3. Sessions!Whom \notin gone
    BY <1>0, <2>1 DEF CookiesAgree, Sessions!Whom
  <2>4. StoresAreOwn'
    BY <2>1, <2>2, <2>3 DEF StoresAreOwn, Own, SessionTypes
  <2> QED BY <1>0, <2>1, <2>4 DEF Own, CookiesAgree, BlobIsOwn
<1> QED BY <1>1, <1>2, <1>3, <1>4, <1>5, <1>6, <1>7, <1>8, <1>9 DEF Sessions!Browser

LEMMA SigningKeeps ==
  ASSUME NobodyIsAUser, SessionTypes, Own, NEW t \in Tab, Sessions!Signing(t),
         \A x \in Tab : ~Sessions!Astray(x)'
  PROVE  Own'
<1>0. /\ tab[t] \in Documents /\ DocumentOK(tab[t]) /\ HoldsOwn(tab[t]) /\ CookiesAgree
  BY DEF SessionTypes, Own
<1>1. ASSUME NEW u \in User, Sessions!SignIn(t, u) PROVE Own'
  <2> DEFINE d == [tab[t] EXCEPT !.phase = "entering"]
  <2>1. /\ UNCHANGED <<blob, store>> /\ tab' = [tab EXCEPT ![t] = d] /\ gone' = gone \ {u}
        /\ cookies'.token = u /\ cookies'.data = u
    BY <1>1 DEF Sessions!SignIn, Sessions!NewSession, SessionTypes
  <2>2. HoldsOwn(d) /\ d.phase = "entering"
    BY <1>0 DEF HoldsOwn, Documents
  <2>3. CookiesAgree' /\ cookies'.token # None
    BY <2>1 DEF CookiesAgree, NobodyIsAUser
  <2> QED BY <2>1, <2>2, <2>3, OneHolds, NothingWritten
<1>2. ASSUME NEW u \in User, Sessions!SignInByProvider(t, u) PROVE Own'
  <2>1. /\ UNCHANGED <<blob, store>> /\ tab' = [tab EXCEPT ![t] = Sessions!Document(u)]
        /\ gone' = gone \ {u} /\ cookies'.token = u /\ cookies'.data = u
    BY <1>2 DEF Sessions!SignInByProvider, Sessions!NewSession
  <2>2. CookiesAgree' /\ cookies'.token # None
    BY <2>1 DEF CookiesAgree, NobodyIsAUser
  <2> QED BY <2>1, <2>2, EmptyHolds, OneHolds, NothingWritten
<1>3. CASE Sessions!Enter(t)
  <2>1. PICK u \in User \union {None} : /\ Sessions!Proxied(u)
          /\ tab' = [tab EXCEPT ![t].phase = "open", ![t].page = IF u = None THEN Login ELSE u]
    BY <1>3 DEF Sessions!Enter
  <2> DEFINE d == [tab[t] EXCEPT !.phase = "open", !.page = IF u = None THEN Login ELSE u]
  <2>2. UNCHANGED <<blob, store, gone>> /\ tab' = [tab EXCEPT ![t] = d] /\ tab[t].phase = "entering"
    BY <1>3, <2>1 DEF Sessions!Enter, SessionTypes
  <2>3. tab[t].mem = {} /\ tab[t].fetch = None
    BY <1>0, <2>2 DEF DocumentOK, HoldsOwn, Documents, NobodyIsAUser
  <2>4. d.mem = {} /\ d.fetch = None /\ d.read = tab[t].read /\ d.phase = "open"
    BY <1>0, <2>3 DEF Documents
  <2>5. HoldsOwn(d)
    BY <1>0, <2>4 DEF HoldsOwn
  <2> QED BY <2>1, <2>2, <2>4, <2>5, ProxiedAgrees, OneHolds, NothingWritten
<1>4. CASE Sessions!SignOut(t)
  <2>1. PICK phase \in {"signedOut", "failed"} : tab' = [tab EXCEPT ![t].phase = phase]
    BY <1>4 DEF Sessions!SignOut
  <2> DEFINE d == [tab[t] EXCEPT !.phase = phase]
  <2>2. UNCHANGED <<cookies, blob, store, gone>> /\ tab' = [tab EXCEPT ![t] = d]
    BY <1>4, <2>1 DEF Sessions!SignOut, SessionTypes
  <2>3. HoldsOwn(d) /\ d.phase = phase
    BY <1>0 DEF HoldsOwn, Documents
  <2> QED BY <1>0, <2>2, <2>3, OneHolds, NothingWritten DEF CookiesAgree
<1>5. CASE Sessions!Clear(t)
  <2> DEFINE d == [Sessions!Cleared(tab[t]) EXCEPT
                     !.phase = IF tab[t].phase = "failed" THEN "kept" ELSE "ended"]
  <2>1. UNCHANGED <<store, gone>> /\ tab' = [tab EXCEPT ![t] = d] /\ blob' = None
    BY <1>5 DEF Sessions!Clear, SessionTypes
  <2>2. HoldsOwn(d)
    BY <1>0 DEF HoldsOwn, Documents, Sessions!Cleared
  <2>3. \A x \in Tab : HoldsOwn(tab'[x])
    BY <2>1, <2>2 DEF SessionTypes, Own
  <2>4. CookiesAgree'
    BY <1>0, <1>5, <2>1 DEF Sessions!Clear, CookiesAgree, SessionTypes, NobodyIsAUser
  <2>5. StoresAreOwn'
    BY <2>1 DEF Own, StoresAreOwn
  <2> QED BY <2>1, <2>3, <2>4, <2>5 DEF Own, BlobIsOwn
<1>6. CASE Sessions!Purge(t)
  <2> DEFINE d == [tab[t] EXCEPT !.phase = IF @ = "kept" THEN "returning" ELSE "leaving"]
  <2>1. /\ UNCHANGED <<cookies, blob>> /\ tab' = [tab EXCEPT ![t] = d]
        /\ tab[t].phase \in {"kept", "ended"}
    BY <1>6 DEF Sessions!Purge, SessionTypes
  <2>2. /\ d.page = tab[t].page /\ d.mem = tab[t].mem /\ d.fetch = tab[t].fetch /\ d.read = tab[t].read
        /\ d.phase = IF tab[t].phase = "kept" THEN "returning" ELSE "leaving"
    BY <1>0 DEF Documents
  <2>3. HoldsOwn(d) /\ d.phase # "ended"
    BY <1>0, <2>1, <2>2 DEF HoldsOwn
  <2> HIDE DEF d
  <2>4. \A x \in Tab :
          /\ HoldsOwn(tab'[x])
          /\ tab'[x].phase = "ended" => tab[x].phase = "ended" /\ tab'[x].page = tab[x].page
    BY <2>1, <2>3, OneHolds
  <2>5. CASE UNCHANGED <<store, gone>>
    BY <1>0, <2>1, <2>4, <2>5, NothingWritten DEF CookiesAgree
  <2>6. CASE /\ store' = [store EXCEPT ![tab[t].page] = {}]
             /\ gone' = IF tab[t].phase = "ended" /\ cookies.token = None
                        THEN gone \union {tab[t].page} ELSE gone
    <3>1. tab[t].page \in User
      BY <1>0, <2>1 DEF DocumentOK
    <3>2. CookiesAgree'
      BY <1>0, <2>1, <2>6, <3>1 DEF CookiesAgree, NobodyIsAUser
    <3>3. StoresAreOwn'
      BY <2>6, <3>1 DEF Own, StoresAreOwn, SessionTypes
    <3>4. BlobIsOwn'
      BY <2>1, <2>4, <2>6 DEF Own, BlobIsOwn
    <3> QED BY <2>4, <3>2, <3>3, <3>4 DEF Own
  <2> QED BY <1>6, <2>5, <2>6 DEF Sessions!Purge
<1>7. CASE Sessions!LoadLogin(t)
  <2>1. PICK u \in User \union {None} :
          Sessions!Proxied(u) /\ tab' = [tab EXCEPT ![t] = Sessions!Document(u)]
    BY <1>7 DEF Sessions!LoadLogin, Sessions!Arrive
  <2>2. UNCHANGED <<blob, store, gone>>
    BY <1>7 DEF Sessions!LoadLogin
  <2> QED BY <2>1, <2>2, ProxiedAgrees, EmptyHolds, OneHolds, NothingWritten
<1> QED BY <1>1, <1>2, <1>3, <1>4, <1>5, <1>6, <1>7 DEF Sessions!Signing

LEMMA CheckKeeps ==
  ASSUME NobodyIsAUser, SessionTypes, Own, NEW t \in Tab, Sessions!Check(t),
         \A x \in Tab : ~Sessions!Astray(x)' /\ ~Sessions!SentAway(x)
  PROVE  Own'
<1>0. tab[t] \in Documents /\ HoldsOwn(tab[t]) /\ CookiesAgree
  BY DEF SessionTypes, Own
<1>1. CASE Sessions!CheckAsked(t)
  <2>1. PICK check \in {tab[t].check, "ended"} : tab' = [tab EXCEPT ![t].check = check]
    BY <1>1 DEF Sessions!CheckAsked
  <2> DEFINE d == [tab[t] EXCEPT !.check = check]
  <2>2. /\ UNCHANGED <<blob, store, gone>> /\ tab' = [tab EXCEPT ![t] = d]
        /\ cookies' = [cookies EXCEPT !.data = Sessions!Whom]
    BY <1>1, <2>1 DEF Sessions!CheckAsked, SessionTypes
  <2>3. HoldsOwn(d) /\ d.phase = tab[t].phase /\ d.page = tab[t].page
    BY <1>0 DEF HoldsOwn, Documents
  <2>4. CookiesAgree' /\ cookies'.token = cookies.token
    BY <1>0, <2>2 DEF CookiesAgree, Sessions!Whom, SessionTypes
  <2> QED BY <2>2, <2>3, <2>4, OneHolds, NothingWritten
<1>2. CASE Sessions!CheckAnswered(t)
  <2> DEFINE d == [Sessions!Cleared(tab[t]) EXCEPT !.check = "leave"]
             e == [tab[t] EXCEPT !.check = "none"]
  <2>1. /\ UNCHANGED <<cookies, store, gone>> /\ blob' \in {blob, None} /\ tab[t].phase = "open"
        /\ tab' = [tab EXCEPT ![t] = d] \/ tab' = [tab EXCEPT ![t] = e]
    BY <1>2 DEF Sessions!CheckAnswered, SessionTypes
  <2>2. HoldsOwn(d) /\ HoldsOwn(e) /\ d.phase = tab[t].phase /\ e.phase = tab[t].phase
    BY <1>0, <2>1 DEF HoldsOwn, Documents, Sessions!Cleared
  <2> HIDE DEF d, e
  <2> QED BY <1>0, <2>1, <2>2, OneHolds, NothingWritten DEF CookiesAgree
<1>3. CASE Sessions!Leave(t)
  <2>1. Sessions!Go(t) /\ UNCHANGED <<blob, store, gone>> /\ Sessions!InApp(t)
    BY <1>3 DEF Sessions!Leave
  <2> QED BY <2>1, GoKeeps
<1> QED BY <1>1, <1>2, <1>3 DEF Sessions!Check

LEMMA SessionInvariance ==
  ASSUME NobodyIsAUser, SessionInv, [Sessions!Next]_(Sessions!vars) PROVE SessionInv'
<1>1. CASE UNCHANGED Sessions!vars
  BY <1>1 DEF Sessions!vars, SessionInv, SessionTypes, Own, CookiesAgree, BlobIsOwn, StoresAreOwn,
     Sessions!Astray, Sessions!Signed, Sessions!Restored, Sessions!Whom
<1>2. CASE Sessions!Next
  <2>1. lapsed' \in BOOLEAN
    BY <1>2 DEF Sessions!Next
  <2>2. SessionTypes'
    <3>1. CASE Sessions!CookieCacheExpires \/ Sessions!Revoked
      BY <2>1, <3>1 DEF Sessions!CookieCacheExpires, Sessions!Revoked, SessionInv, SessionTypes
    <3> QED BY <1>2, <2>1, <3>1, BrowserTypes, SigningTypes, CheckTypes
        DEF Sessions!Next, Sessions!Step, SessionInv
  <2>3. ASSUME ~lapsed' PROVE Own'
    <3>1. ~lapsed /\ \A x \in Tab : ~Sessions!Astray(x)' /\ ~Sessions!SentAway(x)
      BY <1>2, <2>3 DEF Sessions!Next
    <3>2. Own /\ SessionTypes
      BY <3>1 DEF SessionInv
    <3>3. CASE Sessions!CookieCacheExpires \/ Sessions!Revoked
      <4>1. UNCHANGED <<tab, blob, store, gone>> /\ cookies'.token = cookies.token
              /\ cookies'.data \in {cookies.data, None}
        BY <3>2, <3>3 DEF Sessions!CookieCacheExpires, Sessions!Revoked, SessionTypes
      <4>2. CookiesAgree'
        BY <3>2, <4>1 DEF Own, CookiesAgree
      <4> QED BY <3>1, <3>2, <4>1, <4>2, NothingWritten DEF Own
    <3> QED BY <1>2, <3>1, <3>2, <3>3, BrowserKeeps, SigningKeeps, CheckKeeps
        DEF Sessions!Next, Sessions!Step
  <2> QED BY <2>2, <2>3 DEF SessionInv
<1> QED BY <1>1, <1>2

\* query-provider.tsx, sync-provider.tsx, nav-user.tsx: as long as no session ends
\* or begins under an open page, a tab's queries, their stored copy and each user's
\* sync store hold mail of their own user only, and of nobody who has signed out,
\* whatever tabs load, restore, ask, sign in and out at the same time.
THEOREM BrowserKeepsOwn == NobodyIsAUser => (Sessions!Spec => []Sessions!CachesAreOwn)
<1> SUFFICES ASSUME NobodyIsAUser PROVE Sessions!Spec => []Sessions!CachesAreOwn
  OBVIOUS
<1>1. Sessions!Init => SessionInv
  <2> SUFFICES ASSUME Sessions!Init PROVE SessionInv
    OBVIOUS
  <2>1. SessionTypes
    BY ClosedTyped DEF Sessions!Init, SessionTypes
  <2>2. \A t \in Tab : HoldsOwn(tab[t]) /\ ~Sessions!Astray(t)
    BY EmptyHolds DEF Sessions!Init, Sessions!Astray, Sessions!Signed, Sessions!Restored,
       Sessions!Closed, NobodyIsAUser
  <2>3. CookiesAgree /\ BlobIsOwn /\ StoresAreOwn
    BY DEF Sessions!Init, CookiesAgree, BlobIsOwn, StoresAreOwn
  <2> QED BY <2>1, <2>2, <2>3 DEF SessionInv, Own
<1>2. SessionInv => Sessions!CachesAreOwn
  <2> SUFFICES ASSUME SessionTypes, ~lapsed, Own PROVE Sessions!OwnMail /\ Sessions!SignedOutIsGone
    BY DEF SessionInv, Sessions!CachesAreOwn, Sessions!OwnMail, Sessions!SignedOutIsGone
  <2>1. Sessions!OwnMail
    BY DEF Own, HoldsOwn, StoresAreOwn, Sessions!OwnMail
  <2>2. Sessions!SignedOutIsGone
    BY DEF SessionTypes, Own, BlobIsOwn, StoresAreOwn, Sessions!SignedOutIsGone
  <2> QED BY <2>1, <2>2
<1>3. SessionInv /\ [Sessions!Next]_(Sessions!vars) => SessionInv'
  BY SessionInvariance
<1> QED BY <1>1, <1>2, <1>3, PTL DEF Sessions!Spec
=============================================================================
