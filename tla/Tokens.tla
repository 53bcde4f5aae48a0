------------------------------- MODULE Tokens -------------------------------
(***************************************************************************)
(* The OAuth tokens of one connection: server/lib/token-store.ts, the      *)
(* refreshes the drivers make on their own (OutlookMailManager's           *)
(* refreshAccessToken, the "tokens" event of GoogleMailManager) and the    *)
(* pool of database connections they all share (server/db/index.ts).       *)
(*                                                                         *)
(* A call is a server function or a workflow step: it makes sure the       *)
(* access token is fresh, builds a driver from the row and uses it.        *)
(* Access tokens are numbered as the provider issues them, which is also   *)
(* the order of their expiry.  A refresh token belongs to a grant; a       *)
(* provider that rotates accepts only the last one it gave for the grant.  *)
(***************************************************************************)
EXTENDS Integers, FiniteSets

CONSTANTS
  Call,
  POOL,       \* max of the pool
  MaxGrant,   \* bound: grants, by the first link and by re-links
  MaxIssue,   \* bound: access tokens issued
  MaxFaults   \* bound: lost writes, transient errors

ASSUME TokensAssumption ==
  /\ POOL \in Nat \ {0} /\ MaxGrant \in Nat \ {0} /\ MaxIssue \in Nat \ {0}
  /\ MaxFaults \in Nat

Grant == 1..MaxGrant

VARIABLES
  rotates,  \* the provider rotates refresh tokens: Microsoft, not Google
  grants,   \* the provider: grants that live, the last one given
  last,     \* the provider: the generation of each grant's last refresh token
  issued,   \* the provider: access tokens issued
  expired,  \* the provider: access tokens up to this one have expired
  row,      \* the connection row
  pc, cred, \* each call's step and the row its driver is built from
  lock,     \* who holds the advisory lock
  pending,  \* each call's persistRefreshedTokens, which nobody awaits
  sent,     \* calls whose pending write has a database connection
  faults,
  crossed   \* history: someone held or read the credential while it was being changed

provVars == <<rotates, grants, last, issued, expired>>
callVars == <<pc, cred, lock, pending, sent>>
vars == <<provVars, row, callVars, faults, crossed>>

\* An access token, a refresh token.
Tok == [n : 0..MaxIssue, grant : Grant]
Ref == [grant : Grant, gen : 0..MaxIssue]
Statuses == {"active", "reauth_required"}
Cred == [tok : Tok, ref : Ref]

Linked(n, g) == [tok |-> [n |-> n, grant |-> g], ref |-> [grant |-> g, gen |-> 0]]
NoCred == Linked(0, 1)
NoWrite == [some |-> FALSE, cred |-> NoCred]

\* The first link.
Init ==
  /\ rotates \in BOOLEAN
  /\ grants = {1} /\ last = [g \in Grant |-> 0]
  /\ issued = 1 /\ expired = 0
  /\ row = [cred |-> Linked(1, 1), status |-> "active"]
  /\ pc = [c \in Call |-> "idle"] /\ cred = [c \in Call |-> NoCred]
  /\ lock = {} /\ pending = [c \in Call |-> NoWrite] /\ sent = {}
  /\ faults = 0 /\ crossed = FALSE

Fault == faults < MaxFaults /\ faults' = faults + 1

TokLives(t) == t.n > expired /\ t.grant \in grants
RefLives(r) == r.grant \in grants /\ (rotates => r.gen = last[r.grant])

-----------------------------------------------------------------------------
(* The pool and the row *)

\* Steps of a transaction of ensureFreshAccessToken, which keep a connection.
InTx == {"lock", "reread", "exchange", "update", "flag", "log", "commit"}

\* Connections in use: transactions, and writes the database has got.
InUse == Cardinality({c \in Call : pc[c] \in InTx \union {"marking"}}) + Cardinality(sent)
Free == InUse < POOL

\* The transaction that flags the row has updated it and not yet committed.
RowLocked == \E c \in Call : pc[c] = "log"

Goto(c, step) == pc' = [pc EXCEPT ![c] = step]

\* Variant: the flag is left to the next link.
RefreshedQuietly == row.status

\* The status that writing refreshed tokens leaves.
Refreshed == "active"

\* Calls about to write tokens the provider gave them.
Carriers == {c \in Call : pc[c] = "update" \/ pending[c].some}

\* Calls that act on a credential they have read.
Holders == {c \in Call : pc[c] \in InTx \ {"lock", "reread"} \/ pc[c] \in {"use", "mark", "marking"}}

-----------------------------------------------------------------------------
(* The provider *)

\* Variant: the caller keeps the refresh token it has.
NewCredKept(c) ==
  [tok |-> [n |-> issued + 1, grant |-> cred[c].ref.grant], ref |-> cred[c].ref]

\* What an exchange of a call's refresh token brings.
NewCred(c) ==
  LET g == cred[c].ref.grant
  IN [tok |-> [n |-> issued + 1, grant |-> g],
      ref |-> IF rotates THEN [grant |-> g, gen |-> last[g] + 1] ELSE cred[c].ref]

\* The token endpoint, asked by c: on success c has new tokens.
Exchange(c, success, dead, trouble) ==
  \/ /\ RefLives(cred[c].ref) /\ issued < MaxIssue
     /\ issued' = issued + 1
     /\ last' = [last EXCEPT ![cred[c].ref.grant] = IF rotates THEN @ + 1 ELSE @]
     /\ cred' = [cred EXCEPT ![c] = NewCred(c)]
     /\ crossed' = (crossed \/ Carriers \union (Holders \ {c}) # {})
     /\ Goto(c, success)
     /\ UNCHANGED <<rotates, grants, expired, row, lock, faults>>
  \/ /\ ~RefLives(cred[c].ref)
     /\ Goto(c, dead)
     /\ UNCHANGED <<provVars, row, cred, lock, faults, crossed>>
  \/ /\ issued < MaxIssue /\ Fault /\ Goto(c, trouble)
     /\ UNCHANGED <<provVars, row, cred, lock, crossed>>

\* An hour passes.
Expire ==
  /\ expired < issued /\ expired' = issued
  /\ UNCHANGED <<rotates, grants, last, issued, row, callVars, faults, crossed>>

\* The user withdraws the grants there are.
Revoke ==
  /\ grants # {} /\ grants' = {}
  /\ UNCHANGED <<rotates, last, issued, expired, row, callVars, faults, crossed>>

\* Consent again: createConnection finds the row and updates it.
Relink ==
  \E g \in Grant :
    /\ g \notin grants /\ \A h \in Grant : h >= g => last[h] = 0 /\ h \notin grants
    /\ g > row.cred.ref.grant /\ issued < MaxIssue /\ ~RowLocked
    /\ grants' = grants \union {g}
    /\ issued' = issued + 1
    /\ row' = [cred |-> Linked(issued + 1, g), status |-> "active"]
    /\ crossed' = (crossed \/ Carriers \union Holders # {})
    /\ UNCHANGED <<rotates, last, expired, callVars, faults>>

-----------------------------------------------------------------------------
(* ensureFreshAccessToken *)

\* A call reads the row; a token that lives goes to the driver as it is.
Begin(c) ==
  /\ pc[c] = "idle" /\ ~pending[c].some /\ Free
  /\ cred' = [cred EXCEPT ![c] = row.cred]
  /\ Goto(c, IF row.cred.tok.n > expired THEN "use" ELSE "begin")
  /\ crossed' = (crossed \/ Carriers # {})
  /\ UNCHANGED <<provVars, row, lock, pending, sent, faults>>

\* The transaction gets a connection of the pool.
Transact(c) ==
  /\ pc[c] = "begin" /\ Free
  /\ Goto(c, "lock")
  /\ UNCHANGED <<provVars, row, cred, lock, pending, sent, faults, crossed>>

\* pg_advisory_xact_lock
Lock(c) ==
  /\ pc[c] = "lock" /\ lock = {}
  /\ lock' = {c} /\ Goto(c, "reread")
  /\ UNCHANGED <<provVars, row, cred, pending, sent, faults, crossed>>

\* The row is read again; someone may have refreshed.
Reread(c) ==
  /\ pc[c] = "reread"
  /\ cred' = [cred EXCEPT ![c] = row.cred]
  /\ IF row.cred.tok.n > expired
     THEN Goto(c, "use") /\ lock' = {}
     ELSE Goto(c, "exchange") /\ UNCHANGED lock
  /\ crossed' = (crossed \/ Carriers # {})
  /\ UNCHANGED <<provVars, row, pending, sent, faults>>

\* Variant: a network error is fatal too.
ExchangeFatal(c) ==
  /\ pc[c] = "exchange"
  /\ Exchange(c, "update", "flag", "flag")
  /\ UNCHANGED <<pending, sent>>

\* exchangeRefreshToken, in the transaction.  A network error ends it, and the
\* row is used as it is.
ExchangeInTx(c) ==
  /\ pc[c] = "exchange"
  /\ Exchange(c, "update", "flag", "commit")
  /\ UNCHANGED <<pending, sent>>

\* The tokens are written, whatever the row holds by now, and committed.
Update(c) ==
  /\ pc[c] = "update" /\ ~RowLocked
  /\ row' = [cred |-> cred[c], status |-> Refreshed]
  /\ lock' = {} /\ Goto(c, "use")
  /\ UNCHANGED <<provVars, cred, pending, sent, faults, crossed>>

\* invalid_grant: the transaction updates the row...
Flag(c) ==
  /\ pc[c] = "flag" /\ ~RowLocked
  /\ Goto(c, "log")
  /\ UNCHANGED <<provVars, row, cred, lock, pending, sent, faults, crossed>>

\* ... logSecurityEvent takes a connection of its own from the pool, and the
\* transaction commits.
Log(c) ==
  /\ pc[c] = "log" /\ Free
  /\ row' = [row EXCEPT !.status = "reauth_required"]
  /\ lock' = {} /\ Goto(c, "use")
  /\ UNCHANGED <<provVars, cred, pending, sent, faults, crossed>>

\* The transaction ends with nothing written.
Commit(c) ==
  /\ pc[c] = "commit"
  /\ lock' = {} /\ Goto(c, "use")
  /\ UNCHANGED <<provVars, row, cred, pending, sent, faults, crossed>>

-----------------------------------------------------------------------------
(* The driver *)

\* The provider accepts the access token; the call may use it again or end.
Use(c) ==
  /\ pc[c] = "use" /\ TokLives(cred[c].tok)
  /\ Goto(c, "idle")
  /\ UNCHANGED <<provVars, row, cred, lock, pending, sent, faults, crossed>>

\* The provider refuses the access token.
Unauthorized(c) == pc[c] = "use" /\ ~TokLives(cred[c].tok)

\* withErrorHandler after a 401: the operation runs again with new tokens; a
\* credential that is dead is marked; any other error only fails the call.
Renew(c) == Exchange(c, "use", "mark", "idle")

\* A 401: the driver exchanges the refresh token it was built with, outside the
\* lock, and sends the tokens off to the row.
Refresh(c) ==
  /\ Unauthorized(c) /\ ~pending[c].some
  /\ Renew(c)
  /\ pending' = IF cred' # cred THEN [pending EXCEPT ![c] = [some |-> TRUE, cred |-> cred'[c]]]
                                ELSE pending
  /\ UNCHANGED sent

\* markActiveConnectionReauthRequired gets a connection...
Mark(c) ==
  /\ pc[c] = "mark" /\ Free
  /\ Goto(c, "marking")
  /\ UNCHANGED <<provVars, row, cred, lock, pending, sent, faults, crossed>>

\* ... and flags the row; the call fails.
Marked(c) ==
  /\ pc[c] = "marking" /\ ~RowLocked
  /\ row' = [row EXCEPT !.status = "reauth_required"]
  /\ Goto(c, "idle")
  /\ UNCHANGED <<provVars, cred, lock, pending, sent, faults, crossed>>

\* persistRefreshedTokens gets a connection...
Send(c) ==
  /\ pending[c].some /\ c \notin sent /\ Free
  /\ sent' = sent \union {c}
  /\ UNCHANGED <<provVars, row, pc, cred, lock, pending, faults, crossed>>

\* The row with tokens t: without rotation the stored refresh token stays.
Persisted(t) ==
  [cred |-> [tok |-> t.tok, ref |-> IF rotates THEN t.ref ELSE row.cred.ref],
   status |-> Refreshed]

\* ... and writes where the row's expiry is earlier.
Persist(c) ==
  /\ c \in sent /\ ~RowLocked
  /\ row' = IF row.cred.tok.n < pending[c].cred.tok.n THEN Persisted(pending[c].cred) ELSE row
  /\ sent' = sent \ {c} /\ pending' = [pending EXCEPT ![c] = NoWrite]
  /\ UNCHANGED <<provVars, pc, cred, lock, faults, crossed>>

\* The function's instance is frozen before the write is made.
LosePersist(c) ==
  /\ pending[c].some /\ c \notin sent /\ Fault
  /\ pending' = [pending EXCEPT ![c] = NoWrite]
  /\ UNCHANGED <<provVars, row, pc, cred, lock, sent, crossed>>

-----------------------------------------------------------------------------

Proceed(c) ==
  \/ Transact(c) \/ Lock(c) \/ Reread(c) \/ ExchangeInTx(c) \/ Update(c)
  \/ Flag(c) \/ Log(c) \/ Commit(c)
  \/ Use(c) \/ Refresh(c) \/ Mark(c) \/ Marked(c)
Write(c) == Send(c) \/ Persist(c)

Next ==
  \/ Expire \/ Revoke \/ Relink
  \/ \E c \in Call : Begin(c) \/ Proceed(c) \/ Write(c) \/ LosePersist(c)

Spec == Init /\ [][Next]_vars

\* Calls and writes go on, tokens expire, and there is always a next call: the
\* scheduler's cycles begin with refreshTokensStep.  PostgreSQL grants a lock,
\* an advisory one or a row's, to whoever has waited longest.
Fairness ==
  /\ WF_vars(Expire)
  /\ \A c \in Call : WF_vars(Begin(c)) /\ WF_vars(Proceed(c)) /\ WF_vars(Write(c))
                     /\ SF_vars(Lock(c) \/ Flag(c) \/ Update(c) \/ Marked(c) \/ Persist(c))
FairSpec == Spec /\ Fairness
-----------------------------------------------------------------------------
(* Properties *)

TypeOK ==
  /\ rotates \in BOOLEAN /\ grants \subseteq Grant /\ last \in [Grant -> 0..MaxIssue]
  /\ issued \in 0..MaxIssue /\ expired \in 0..issued
  /\ row \in [cred : Cred, status : Statuses]
  /\ pc \in [Call -> InTx \union {"idle", "begin", "use", "mark", "marking"}]
  /\ cred \in [Call -> Cred]
  /\ lock \subseteq Call /\ Cardinality(lock) <= 1
  /\ pending \in [Call -> [some : BOOLEAN, cred : Cred]]
  /\ sent \subseteq {c \in Call : pending[c].some}
  /\ faults \in 0..MaxFaults /\ crossed \in BOOLEAN
  /\ InUse <= POOL
  /\ \A c \in Call : pc[c] \in InTx \ {"lock"} => c \in lock

\* A rotated refresh token is never dropped: as long as the grant lives, the
\* row's token works, or the one that does is on its way to the row; unless two
\* parties refreshed at the same time or a write was lost.
CredentialKept ==
  ~crossed /\ faults = 0 /\ row.cred.ref.grant \in grants =>
    RefLives(row.cred.ref) \/ \E c \in Carriers : RefLives(cred[c].ref)

\* "Fatal must mean the credential is actually dead": the flag on a connection
\* means that its refresh token is refused, unless two parties refreshed at
\* the same time.
FlagMeansDead ==
  row.status = "reauth_required" /\ ~crossed => ~RefLives(row.cred.ref)

\* "A stale racer's older token can never overwrite a newer one."
TokensAdvance == [][row'.cred.tok.n >= row.cred.tok.n]_vars

\* "A successful refresh proves the grant lives": a connection flagged although
\* its refresh token works is not flagged for ever, if there is a token left to
\* issue in the model.
FlagHeals ==
  (row.status = "reauth_required" /\ RefLives(row.cred.ref) /\ issued < MaxIssue)
    ~> (row.status = "active" \/ ~RefLives(row.cred.ref) \/ faults > 0)

\* Every call ends, given a pool larger than what the calls can hold;
\* issued = MaxIssue is the end of the model.
CallsEnd == \A c \in Call : (pc[c] = "begin") ~> (pc[c] = "idle" \/ issued = MaxIssue)

\* "Logging must never break the operation it is recording": the transaction
\* that logs a flag goes on.
LoggingNeverBlocks == \A c \in Call : (pc[c] = "log") ~> (pc[c] # "log")
=============================================================================
