------------------------------ MODULE Accounts ------------------------------
(***************************************************************************)
(* One user's account: server/actions/connections.ts, signatures.ts,       *)
(* settings.ts, the OAuth hook of server/lib/auth.ts, getActiveConnection  *)
(* of server/lib/server-utils.ts and server/sync/prime.ts, composed with   *)
(* the workflow runs of module Scheduler, which share the connection rows  *)
(* and the sync records.                                                   *)
(*                                                                         *)
(* A request is a server function; each of its database statements is a    *)
(* step, and requests interleave.  Connections are numbered by createdAt.  *)
(***************************************************************************)
EXTENDS Scheduler

CONSTANTS
  Req,      \* slots for requests
  Field,    \* fields of the user's settings
  Sig,      \* signatures
  Mixes,    \* bound: the sorts of requests that meet, and whether cycles are started
            \* and requests fail besides; a set of sets
  MaxReq    \* bound: requests other than reads and primes

ASSUME AccountsAssumption == MaxReq \in Nat

VARIABLES
  default,   \* user.defaultConnectionId, 0: null
  settings,  \* user_settings.settings: FALSE as at first, TRUE as last saved
  sigs,      \* signatures: connection (0: none) and isDefault
  profile,   \* the UserProfile record's defaultConnectionId
  setRec,    \* the Settings record
  connRecs,  \* the Connection records
  req,       \* the requests
  mix,       \* the sorts of requests of this behaviour
  made,      \* requests so far
  deleted,   \* history: deletions that ran to their end
  carried,   \* history: connections someone was about to publish when deleted
  saved,     \* history: fields saved
  overlap    \* history: two requests of one sort ran at the same time

dbVars == <<default, settings, sigs>>
shellVars == <<profile, setRec, connRecs>>
histVars == <<deleted, carried, saved, overlap>>
acctVars == <<dbVars, shellVars, req, made, histVars, mix>>
vars == <<row, schedVars, faults, acctVars>>

\* What primeUserSyncRecords reads at the same time.  The settings are read
\* with the user here: no property relates the two.
Parts == {"user", "connections"}
NoSettings == [f \in Field |-> FALSE]

\* Locals of a request.  op: what it does; conn, sig, field: its argument;
\* had: the signature existed; todo and the three after it: what
\* primeUserSyncRecords has still to read and what it has read.
NoReq == [pc |-> "idle", op |-> "none", conn |-> 0, sig |-> {}, had |-> FALSE, field |-> {},
          todo |-> {}, user |-> 0, settings |-> NoSettings, conns |-> {}]

\* An account with some connections, synced and primed; a deleted one is not
\* there from the start.
Init ==
  /\ \E n \in 0..MaxConn : row = [c \in Conn |-> IF c <= n THEN "live" ELSE "none"]
  /\ owner = [c \in Conn |-> NoId] /\ beat = [c \in Conn |-> "never"]
  /\ run = [r \in Run |-> NoRun] /\ faults = 0 /\ forked = {}
  /\ mailRecs = Live /\ statusRecs = Live /\ connRecs = Live
  /\ default \in Live \union {0} /\ profile = default /\ settings = NoSettings
  /\ sigs = [s \in Sig |-> [conn |-> 0, dflt |-> FALSE]]
  /\ setRec = NoSettings
  /\ req = [q \in Req |-> NoReq] /\ made = 0 /\ mix \in Mixes
  /\ deleted = {} /\ carried = {} /\ saved = {} /\ overlap = {}

\* What most steps leave alone.
Elsewhere == UNCHANGED <<row, schedVars, faults, mix>>

At(q, step) == req[q].pc = step
Then(q, step) == req' = [req EXCEPT ![q].pc = step]
Done(q) == req' = [req EXCEPT ![q] = NoReq]

\* Requests of a sort that are not yet at their prime.
Ops(op) == {q \in Req : req[q].op = op /\ req[q].pc # "prime"}

\* A fault of a request, where the behaviour has them.
Trouble == "fault" \in mix /\ Fault

\* A request arrives.
Arrive(q, op, l) ==
  /\ At(q, "idle") /\ op \in mix /\ made < MaxReq /\ made' = made + 1
  /\ req' = [req EXCEPT ![q] = [l EXCEPT !.op = op]]
  /\ overlap' = IF Ops(op) # {} THEN overlap \union {op} ELSE overlap
  /\ Elsewhere /\ UNCHANGED <<dbVars, shellVars, deleted, carried, saved>>

\* The locals of primeUserSyncRecords as it begins.
Priming(l) == [l EXCEPT !.pc = "prime", !.todo = Parts]
ToPrime(q) == req' = [req EXCEPT ![q] = Priming(@)]

-----------------------------------------------------------------------------
(* Linking *)

\* createConnection: a row with a new id, or the update of the row of that
\* address.  An OAuth link goes on to the default, an app password does not.
Link(q, oauth) ==
  \E c \in Live \union {d \in Conn : row[d] = "none" /\ \A e \in 1..(d - 1) : row[e] # "none"} :
    /\ At(q, "idle") /\ "link" \in mix /\ made < MaxReq /\ made' = made + 1
    /\ row' = [row EXCEPT ![c] = "live"]
    /\ req' = [req EXCEPT ![q] = [NoReq EXCEPT !.op = "link", !.conn = c,
                                    !.pc = IF oauth THEN "first" ELSE "activate"]]
    /\ UNCHANGED <<schedVars, faults, dbVars, shellVars, histVars, mix>>

\* The hook reads the user: is there a default?
ReadFirst(q) ==
  /\ At(q, "first")
  /\ Then(q, IF default = 0 THEN "setFirst" ELSE "activate")
  /\ Elsewhere /\ UNCHANGED <<dbVars, shellVars, made, histVars>>

\* It makes the connection the default.
SetFirst(q) ==
  /\ At(q, "setFirst")
  /\ default' = req[q].conn
  /\ Then(q, "activate")
  /\ Elsewhere /\ UNCHANGED <<settings, sigs, shellVars, made, histVars>>

\* The run starts, or its start fails and is swallowed.
TryStart(c, loop) ==
  run' \in {run} \union {Started(r, c, NoId, loop) : r \in {i \in IdleRuns : loop => Loops}}

\* activateConnectionSync: a loop...
ActivateLoop(q) ==
  /\ At(q, "activate")
  /\ TryStart(req[q].conn, TRUE)
  /\ Then(q, "kick")
  /\ UNCHANGED <<row, stateVars, recVars, faults, forked, dbVars, shellVars, made, histVars, mix>>

\* ... a cycle, and a prime.
ActivateCycle(q) ==
  /\ At(q, "kick")
  /\ TryStart(req[q].conn, FALSE)
  /\ ToPrime(q)
  /\ UNCHANGED <<row, stateVars, recVars, faults, forked, dbVars, shellVars, made, histVars, mix>>

-----------------------------------------------------------------------------
(* primeUserSyncRecords *)

\* One of its reads.
PrimeRead(q) ==
  /\ At(q, "prime")
  /\ \E part \in req[q].todo :
       req' = [req EXCEPT ![q].todo = @ \ {part},
                          ![q].user = IF part = "user" THEN default ELSE @,
                          ![q].settings = IF part = "user" THEN settings ELSE @,
                          ![q].conns = IF part = "connections" THEN Live ELSE @]
  /\ Elsewhere /\ UNCHANGED <<dbVars, shellVars, made, histVars>>

\* Its publication, puts only, in one transaction; the end of the request.
PrimePublish(q) ==
  /\ At(q, "prime") /\ req[q].todo = {}
  /\ profile' = req[q].user
  /\ setRec' = req[q].settings
  /\ connRecs' = connRecs \union req[q].conns
  /\ Done(q)
  /\ Elsewhere /\ UNCHANGED <<dbVars, made, histVars>>

\* A publication fails: the error is swallowed.
PrimeFails(q) ==
  /\ At(q, "prime") /\ req[q].todo = {} /\ Trouble
  /\ Done(q)
  /\ UNCHANGED <<row, schedVars, dbVars, shellVars, made, histVars, mix>>

\* A socket opens: GET of /api/sync, open of the standalone server.  Bound: one
\* at a time.
Connect(q) ==
  /\ At(q, "idle") /\ \A p \in Req : req[p].op # "connect"
  /\ req' = [req EXCEPT ![q] = Priming([NoReq EXCEPT !.op = "connect"])]
  /\ Elsewhere /\ UNCHANGED <<dbVars, shellVars, made, histVars>>

-----------------------------------------------------------------------------
(* The default connection *)

\* setDefaultConnection: the connection is found...
SetDefault(q, c) == c \in Live /\ Arrive(q, "setDefault", [NoReq EXCEPT !.pc = "choose", !.conn = c])

\* ... and becomes the default.
Choose(q) ==
  /\ At(q, "choose")
  /\ default' = req[q].conn
  /\ ToPrime(q)
  /\ Elsewhere /\ UNCHANGED <<settings, sigs, shellVars, made, histVars>>

\* getActiveConnection finds the default's row missing...
FindActive(q) ==
  /\ At(q, "idle") /\ default # 0 /\ default \notin Live
  /\ req' = [req EXCEPT ![q] = [NoReq EXCEPT !.op = "active", !.pc = "clear"]]
  /\ Elsewhere /\ UNCHANGED <<dbVars, shellVars, made, histVars>>

\* Variant: only the answer changes.
ClearNothing(q) ==
  /\ At(q, "clear")
  /\ Done(q)
  /\ Elsewhere /\ UNCHANGED <<dbVars, shellVars, made, histVars>>

\* ... and clears whatever is the default by then.
ClearDefault(q) ==
  /\ At(q, "clear")
  /\ default' = 0
  /\ Done(q)
  /\ Elsewhere /\ UNCHANGED <<settings, sigs, shellVars, made, histVars>>

-----------------------------------------------------------------------------
(* deleteConnection *)

Delete(q, c) == c \in Live /\ Arrive(q, "delete", [NoReq EXCEPT !.pc = "revoke", !.conn = c])

\* Everyone who is about to publish something of c.
Carriers(c) ==
  \/ \E q \in Req : c \in req[q].conns
  \/ \E r \in Run : run[r].conn = c /\ run[r].pc \in {"fetch", "publish", "failed", "status"}

\* The grant is revoked, or not; the row goes, with the rows that refer to it.
DeleteRow(q) ==
  LET c == req[q].conn
  IN /\ At(q, "revoke")
     /\ row' = [row EXCEPT ![c] = "gone"]
     /\ owner' = [owner EXCEPT ![c] = NoId] /\ beat' = [beat EXCEPT ![c] = "never"]
     /\ sigs' = [s \in Sig |-> IF sigs[s].conn = c THEN [conn |-> 0, dflt |-> FALSE] ELSE sigs[s]]
     /\ carried' = IF Carriers(c) THEN carried \union {c} ELSE carried
     /\ Then(q, "wasDefault")
     /\ UNCHANGED <<run, recVars, forked, faults, default, settings, shellVars, made,
                    deleted, saved, overlap, mix>>

\* Was it the default?
WasDefault(q) ==
  /\ At(q, "wasDefault")
  /\ Then(q, IF default = req[q].conn THEN "remaining" ELSE "remove")
  /\ Elsewhere /\ UNCHANGED <<dbVars, shellVars, made, histVars>>

\* The oldest of the connections there are, 0 without one.
Oldest(C) == IF C = {} THEN 0 ELSE CHOOSE c \in C : \A d \in C : c <= d

\* The remaining connections are read...
ReadRemaining(q) ==
  /\ At(q, "remaining")
  /\ req' = [req EXCEPT ![q].user = Oldest(Live), ![q].pc = "promote"]
  /\ Elsewhere /\ UNCHANGED <<dbVars, shellVars, made, histVars>>

\* ... and the oldest promoted.
Promote(q) ==
  /\ At(q, "promote")
  /\ default' = req[q].user
  /\ Then(q, "remove")
  /\ Elsewhere /\ UNCHANGED <<settings, sigs, shellVars, made, histVars>>

\* Variant: the status record is forgotten.
RemoveMail(q) ==
  /\ At(q, "remove")
  /\ mailRecs' = mailRecs \ {req[q].conn}
  /\ connRecs' = connRecs \ {req[q].conn}
  /\ deleted' = deleted \union {req[q].conn}
  /\ ToPrime(q)
  /\ UNCHANGED <<row, stateVars, run, statusRecs, forked, faults, dbVars, profile, setRec,
                 made, carried, saved, overlap, mix>>

\* removeConnectionSyncRecords: the records there are, deleted; then a prime.
Remove(q) ==
  LET c == req[q].conn
  IN /\ At(q, "remove")
     /\ mailRecs' = mailRecs \ {c} /\ statusRecs' = statusRecs \ {c}
     /\ connRecs' = connRecs \ {c}
     /\ deleted' = deleted \union {c}
     /\ ToPrime(q)
     /\ UNCHANGED <<row, stateVars, run, forked, faults, dbVars, profile, setRec, made,
                    carried, saved, overlap, mix>>

\* It fails: the error is swallowed, nothing tries again.
RemoveFails(q) ==
  /\ At(q, "remove") /\ Trouble
  /\ Done(q)
  /\ UNCHANGED <<row, schedVars, dbVars, shellVars, made, histVars, mix>>

-----------------------------------------------------------------------------
(* Settings and signatures *)

\* saveSettings reads the settings...
Save(q, f) ==
  Arrive(q, "save", [NoReq EXCEPT !.pc = "merge", !.field = {f}, !.settings = settings])

\* ... and writes them back with its field.
Merge(q) ==
  /\ At(q, "merge")
  /\ settings' = [f \in Field |-> f \in req[q].field \/ req[q].settings[f]]
  /\ saved' = saved \union req[q].field
  /\ ToPrime(q)
  /\ Elsewhere /\ UNCHANGED <<default, sigs, shellVars, made, deleted, carried, overlap>>

\* createSignature, updateSignature of a default one: its connection, or the
\* signature, is found...
SignDefault(q, s, c) ==
  /\ c \in Live /\ sigs[s].conn \in {0, c}
  /\ \A p \in Req : s \notin req[p].sig \/ req[p].had
  /\ Arrive(q, "sign", [NoReq EXCEPT !.pc = "unset", !.sig = {s}, !.conn = c,
                          !.had = sigs[s].conn = c])

\* ... clearDefaultSignatures clears those of the connection...
Unset(q) ==
  /\ At(q, "unset")
  /\ sigs' = [s \in Sig |-> IF sigs[s].conn = req[q].conn THEN [sigs[s] EXCEPT !.dflt = FALSE]
                                                         ELSE sigs[s]]
  /\ Then(q, "sign")
  /\ Elsewhere /\ UNCHANGED <<default, settings, shellVars, made, histVars>>

\* ... and the signature is inserted, which needs the connection, or updated
\* where it still exists.
Sign(q) ==
  /\ At(q, "sign")
  /\ LET c == req[q].conn
     IN sigs' = [s \in Sig |->
          IF s \in req[q].sig /\ (IF req[q].had THEN sigs[s].conn = c ELSE row[c] = "live")
          THEN [conn |-> c, dflt |-> TRUE] ELSE sigs[s]]
  /\ Done(q)
  /\ Elsewhere /\ UNCHANGED <<default, settings, shellVars, made, histVars>>

\* deleteSignature
DeleteSignature(s) ==
  /\ sigs[s].conn # 0
  /\ sigs' = [sigs EXCEPT ![s] = [conn |-> 0, dflt |-> FALSE]]
  /\ Elsewhere /\ UNCHANGED <<default, settings, shellVars, req, made, histVars>>

-----------------------------------------------------------------------------

\* The server function is gone between two of its statements.
Stop(q) ==
  /\ ~At(q, "idle") /\ Trouble
  /\ Done(q)
  /\ UNCHANGED <<row, schedVars, dbVars, shellVars, made, histVars, mix>>

Serve(q) ==
  \/ ReadFirst(q) \/ SetFirst(q) \/ ActivateLoop(q) \/ ActivateCycle(q)
  \/ PrimeRead(q) \/ PrimePublish(q)
  \/ Choose(q) \/ ClearDefault(q)
  \/ DeleteRow(q) \/ WasDefault(q) \/ ReadRemaining(q) \/ Promote(q) \/ Remove(q)
  \/ Merge(q) \/ Unset(q) \/ Sign(q)

Ask(q) ==
  \/ \E oauth \in BOOLEAN : Link(q, oauth)
  \/ \E c \in Conn : SetDefault(q, c) \/ Delete(q, c)
  \/ \E f \in Field : Save(q, f)
  \/ \E s \in Sig, c \in Conn : SignDefault(q, s, c)

Visit(q) == Connect(q) \/ FindActive(q)

\* The workflow runs.
Runs ==
  \/ \E r \in Run : Step(r)
  \/ "cycle" \in mix /\ \E c \in Conn : StartLoop(c) \/ StartCycle(c) \/ HeartbeatAges(c)
  \/ "fault" \in mix /\ \E r \in Run : ClaimLost(r) \/ RescheduleLost(r) \/ Die(r)

Next ==
  \/ \E q \in Req : Ask(q) \/ Visit(q) \/ Serve(q) \/ PrimeFails(q) \/ RemoveFails(q) \/ Stop(q)
  \/ \E s \in Sig : DeleteSignature(s)
  \/ Runs /\ UNCHANGED acctVars

Spec == Init /\ [][Next]_vars

\* Requests are served and workflow runs resumed; the user keeps coming back:
\* sockets open and mail is listed.
Fairness ==
  /\ \A q \in Req : WF_vars(Serve(q))
  /\ WF_vars(\E q \in Req : FindActive(q)) /\ WF_vars(\E q \in Req : Connect(q))
  /\ \A r \in Run : WF_vars(Step(r) /\ UNCHANGED acctVars)
FairSpec == Spec /\ Fairness
-----------------------------------------------------------------------------
(* Properties *)

TypeOK ==
  /\ SchedTypeOK
  /\ default \in Conn \union {0} /\ settings \in [Field -> BOOLEAN]
  /\ sigs \in [Sig -> [conn : Live \union {0}, dflt : BOOLEAN]]
  /\ profile \in Conn \union {0} /\ setRec \in [Field -> BOOLEAN] /\ connRecs \subseteq Conn
  /\ req \in [Req -> [pc : {"idle", "first", "setFirst", "activate", "kick", "prime", "choose",
                            "clear", "revoke", "wasDefault", "remaining", "promote",
                            "remove", "merge", "unset", "sign"},
                      op : {"none", "link", "connect", "setDefault", "active", "delete",
                            "save", "sign"},
                      conn : Conn \union {0}, sig : SUBSET Sig, had : BOOLEAN,
                      field : SUBSET Field, todo : SUBSET Parts, user : Conn \union {0},
                      settings : [Field -> BOOLEAN], conns : SUBSET Conn]]
  /\ made \in 0..MaxReq /\ mix \in Mixes
  /\ deleted \subseteq Conn /\ carried \subseteq Conn /\ saved \subseteq Field
  /\ overlap \subseteq {"setDefault", "delete", "save", "sign"}

\* Connections of which clients still see something.
Shown == connRecs \union mailRecs \union statusRecs

\* Once deleteConnection has removed a connection's records nothing brings one
\* back, unless a prime or a cycle was about to publish it when the row went:
\* everyone else looks for the row first.
DeletedStaysRemoved == deleted \intersect Shown \subseteq carried

\* "Every client converges on the removal": of a deleted connection nothing
\* is shown in the end.
RemovalConverges == \A c \in Conn : (c \in deleted) ~> (c \notin Shown)

\* Whatever is raced, the profile and the settings clients see are in the end
\* the ones of the database, and the default is not a deleted connection: a
\* late prime's stale records are put right by the next.
ShellConverges ==
  <>[](profile = default /\ setRec = settings /\ default \in Live \union {0})

\* A connection has at most one default signature, unless two requests that
\* make one the default ran at the same time.
OneDefaultSignature ==
  "sign" \notin overlap =>
    \A s, t \in Sig : sigs[s].dflt /\ sigs[t].dflt /\ sigs[s].conn = sigs[t].conn => s = t

\* A saved field stays saved, unless two saves ran at the same time.
SavesSurvive == "save" \notin overlap => \A f \in saved : settings[f]
=============================================================================
