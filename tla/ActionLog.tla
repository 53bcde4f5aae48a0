----------------------------- MODULE ActionLog -----------------------------
(***************************************************************************)
(* The write path from the server to the clients: publishSyncMutations of  *)
(* server/sync/bridge.ts, run by concurrent READ COMMITTED transactions,   *)
(* and the pollers of server/sync/server-instance.ts that follow the       *)
(* global action log it appends to.                                        *)
(*                                                                         *)
(* A transaction diffs its puts and deletes against the committed records, *)
(* writes the rows (taking their locks one by one), draws its sync ids     *)
(* from a database sequence and appends its actions, which everybody else  *)
(* sees when it commits.  Ids drawn by a transaction that aborts are lost. *)
(*                                                                         *)
(* An op says what a transaction does to every key of the partition: put   *)
(* a value, delete (Absent) or leave alone (Untouched).  Writes of the     *)
(* sync engine on behalf of a client (adapter.ts, put / applyBatch and     *)
(* persistActions in an order only the engine knows) are not modelled.     *)
(***************************************************************************)
EXTENDS Integers, FiniteSets

CONSTANTS
  Key,          \* (model, id) of the records of a partition
  Value,        \* what a record may hold
  Absent,       \* no such record; as an action, a delete
  Untouched,    \* not part of a transaction
  Writer,       \* processes that publish
  Request,      \* the ops each writer may publish
  Instance,     \* warm server instances, each with its poller
  Slot,         \* polls of one instance that may overlap
  POLL_BATCH,
  MaxId         \* bound: values drawn from zeitmail_sync_id_seq

ASSUME LogAssumption ==
  /\ Absent \notin Value /\ Untouched \notin Value /\ Absent # Untouched
  /\ IsFiniteSet(Key)
  /\ Request \in [Writer -> SUBSET [Key -> Value \union {Absent, Untouched}]]
  /\ POLL_BATCH \in Nat \ {0}
  /\ MaxId \in Nat

VARIABLES
  records,    \* sync_record, as committed
  log,        \* sync_action, as committed
  nextId,     \* last value of zeitmail_sync_id_seq
  pc,         \* what each writer's transaction does next
  tx,         \* each writer's transaction
  cursor,     \* each poller's cursor
  start,      \* the cursor each poller began with
  fetched,    \* the rows of each poll under way
  seen,       \* the actions each instance has ingested
  late        \* history: ids committed after a higher one was

dbVars == <<records, log, nextId, late>>
txVars == <<pc, tx>>
pollVars == <<cursor, start, fetched, seen>>
vars == <<dbVars, txVars, pollVars>>

Ids == 1..MaxId
Stored == Value \union {Absent}
Action == [id : Ids, key : Key, val : Stored]

\* What the transaction of a writer that has none looks like.
NoTx ==
  [op      |-> [k \in Key |-> Untouched],
   todo    |-> {},                     \* keys the current phase still visits
   changed |-> {},                     \* changedPuts and liveDeletes
   locked  |-> {},                     \* row locks held
   ids     |-> [k \in Key |-> 0]]      \* syncIds

Puts(t) == {k \in Key : t.op[k] \in Value}
Deletes(t) == {k \in Key : t.op[k] = Absent}
CommittedIds == {a.id : a \in log}

Init ==
  /\ records = [k \in Key |-> Absent]
  /\ log = {} /\ nextId = 0 /\ late = {}
  /\ pc = [w \in Writer |-> "idle"]
  /\ tx = [w \in Writer |-> NoTx]
  /\ cursor = [i \in Instance |-> 0] /\ start = [i \in Instance |-> 0]
  /\ fetched = [i \in Instance |-> [s \in Slot |-> {}]]
  /\ seen = [i \in Instance |-> {}]

-----------------------------------------------------------------------------
(* A transaction of publishSyncMutations *)

Move(w, step, t) ==
  pc' = [pc EXCEPT ![w] = step] /\ tx' = [tx EXCEPT ![w] = t]

\* Begin, and select the current data of the puts' records.
Begin(w) ==
  /\ pc[w] = "idle"
  /\ \E op \in Request[w] :
       LET t == [NoTx EXCEPT !.op = op]
       IN Move(w, "read", [t EXCEPT !.changed = {k \in Puts(t) : records[k] # op[k]},
                                    !.todo = Deletes(t)])
  /\ UNCHANGED <<dbVars, pollVars>>

\* Variant: every delete is taken for live, without looking.
ReadNoDelete(w) ==
  /\ pc[w] = "read"
  /\ \E k \in tx[w].todo :
       tx' = [tx EXCEPT ![w].todo = @ \ {k}, ![w].changed = @ \union {k}]
  /\ UNCHANGED <<pc, dbVars, pollVars>>

\* Look whether a record to delete is there.
ReadDelete(w) ==
  /\ pc[w] = "read"
  /\ \E k \in tx[w].todo :
       tx' = [tx EXCEPT ![w].todo = @ \ {k},
                        ![w].changed = IF records[k] # Absent THEN @ \union {k} ELSE @]
  /\ UNCHANGED <<pc, dbVars, pollVars>>

\* The diff is known: nothing to do, or rows to write.
Diffed(w) ==
  /\ pc[w] = "read" /\ tx[w].todo = {}
  /\ IF tx[w].changed = {}
     THEN Move(w, "idle", NoTx)
     ELSE Move(w, "write", [tx[w] EXCEPT !.todo = tx[w].changed])
  /\ UNCHANGED <<dbVars, pollVars>>

\* No other transaction has written k's row and not ended.
Unlocked(w, k) == \A v \in Writer \ {w} : k \notin tx[v].locked

\* INSERT ... ON CONFLICT DO UPDATE: waits for the row, then holds it.
Upsert(w) ==
  /\ pc[w] = "write"
  /\ \E k \in tx[w].todo \intersect Puts(tx[w]) :
       /\ Unlocked(w, k)
       /\ tx' = [tx EXCEPT ![w].todo = @ \ {k}, ![w].locked = @ \union {k}]
  /\ UNCHANGED <<pc, dbVars, pollVars>>

\* DELETE, after the puts: a row it does not see is neither deleted nor locked,
\* and stays in liveDeletes.
Delete(w) ==
  /\ pc[w] = "write" /\ tx[w].todo \intersect Puts(tx[w]) = {}
  /\ \E k \in tx[w].todo :
       \/ /\ records[k] # Absent /\ Unlocked(w, k)
          /\ tx' = [tx EXCEPT ![w].todo = @ \ {k}, ![w].locked = @ \union {k}]
       \/ /\ records[k] = Absent
          /\ tx' = [tx EXCEPT ![w].todo = @ \ {k}]
  /\ UNCHANGED <<pc, dbVars, pollVars>>

\* One id for each of the keys of t, the puts' before the deletes'.
IdsFor(t) ==
  LET n == Cardinality(t.changed)
  IN {f \in [Key -> 0..(nextId + n)] :
        /\ \A k \in Key : f[k] = 0 <=> k \notin t.changed
        /\ \A k \in t.changed : f[k] > nextId
        /\ \A j, k \in t.changed : f[j] = f[k] => j = k
        /\ \A j, k \in t.changed : t.op[j] \in Value /\ t.op[k] = Absent => f[j] < f[k]}

\* select nextval(...) from generate_series: ids are never given back.
AllocateIds(w) ==
  /\ pc[w] = "write" /\ tx[w].todo = {}
  /\ nextId + Cardinality(tx[w].changed) <= MaxId
  /\ nextId' = nextId + Cardinality(tx[w].changed)
  /\ \E ids \in IdsFor(tx[w]) : Move(w, "commit", [tx[w] EXCEPT !.ids = ids])
  /\ UNCHANGED <<records, log, late, pollVars>>

\* The actions a transaction appends.
Actions(t) == {[id |-> t.ids[k], key |-> k, val |-> t.op[k]] : k \in t.changed}

\* Insert the actions and commit: rows and actions become visible together.
Commit(w) ==
  /\ pc[w] = "commit"
  /\ LET t == tx[w]
     IN /\ records' = [k \in Key |-> IF k \in t.locked THEN t.op[k] ELSE records[k]]
        /\ log' = log \union Actions(t)
        /\ late' = late \union {id \in {t.ids[k] : k \in t.changed} :
                                  \E a \in log : a.id > id}
  /\ Move(w, "idle", NoTx)
  /\ UNCHANGED <<nextId, pollVars>>

\* The transaction rolls back: an error, a deadlock, a lost process.
Abort(w) ==
  /\ pc[w] # "idle"
  /\ Move(w, "idle", NoTx)
  /\ UNCHANGED <<dbVars, pollVars>>

-----------------------------------------------------------------------------
(* The poller of an instance *)

\* Variant: the last POLL_BATCH actions.
LastRowsSince(c) ==
  {a \in log : a.id > c /\ Cardinality({b \in log : b.id > a.id}) < POLL_BATCH}

\* fetchActionsSinceGlobal: the first POLL_BATCH actions after a cursor.
RowsSince(c) ==
  {a \in log : a.id > c /\ Cardinality({b \in log : c < b.id /\ b.id < a.id}) < POLL_BATCH}

\* setInterval starts a poll whether or not the last one has finished.
PollRead(i) ==
  /\ \E s \in Slot :
       /\ fetched[i][s] = {} /\ RowsSince(cursor[i]) # {}
       /\ fetched' = [fetched EXCEPT ![i][s] = RowsSince(cursor[i])]
  /\ UNCHANGED <<dbVars, txVars, cursor, start, seen>>

\* Variant: while another poll is under way the cursor moves, the rows are lost.
PollIngestAlone(i) ==
  /\ \E s \in Slot :
       /\ fetched[i][s] # {}
       /\ fetched' = [fetched EXCEPT ![i][s] = {}]
       /\ \E a \in fetched[i][s] :
            /\ \A b \in fetched[i][s] : b.id <= a.id
            /\ cursor' = [cursor EXCEPT ![i] = a.id]
       /\ seen' = IF \E o \in Slot \ {s} : fetched[i][o] # {} THEN seen
                  ELSE [seen EXCEPT ![i] = @ \union fetched[i][s]]
  /\ UNCHANGED <<dbVars, txVars, start>>

\* The rest of poll: the cursor moves to the last row, backwards when a slow
\* poll finishes after a quick one, and the rows are ingested.
PollIngest(i) ==
  /\ \E s \in Slot :
       /\ fetched[i][s] # {}
       /\ fetched' = [fetched EXCEPT ![i][s] = {}]
       /\ \E a \in fetched[i][s] :
            /\ \A b \in fetched[i][s] : b.id <= a.id
            /\ cursor' = [cursor EXCEPT ![i] = a.id]
       /\ seen' = [seen EXCEPT ![i] = @ \union fetched[i][s]]
  /\ UNCHANGED <<dbVars, txVars, start>>

\* The instance ends and another one warms up: cursor = fetchMaxSyncId().
Restart(i) ==
  /\ \E c \in Ids \union {0} :
       /\ c = 0 <=> log = {}
       /\ c # 0 => c \in CommittedIds /\ \A a \in log : a.id <= c
       /\ cursor' = [cursor EXCEPT ![i] = c]
       /\ start' = [start EXCEPT ![i] = c]
  /\ fetched' = [fetched EXCEPT ![i] = [s \in Slot |-> {}]]
  /\ seen' = [seen EXCEPT ![i] = {}]
  /\ UNCHANGED <<dbVars, txVars>>

Publish(w) ==
  \/ Begin(w) \/ ReadDelete(w) \/ Diffed(w) \/ Upsert(w) \/ Delete(w)
  \/ AllocateIds(w) \/ Commit(w) \/ Abort(w)

Next ==
  \/ \E w \in Writer : Publish(w)
  \/ \E i \in Instance : PollRead(i) \/ PollIngest(i) \/ Restart(i)

Spec == Init /\ [][Next]_vars

\* The interval timer fires as long as the instance lives, and queries end.
FairSpec == Spec /\ \A i \in Instance : WF_vars(PollRead(i)) /\ WF_vars(PollIngest(i))
-----------------------------------------------------------------------------
(* Properties *)

TxOK ==
  [op : [Key -> Stored \union {Untouched}], todo : SUBSET Key, changed : SUBSET Key,
   locked : SUBSET Key, ids : [Key -> 0..MaxId]]

\* Type invariant: rows, actions, transactions and polls stay in their types.
TypeOK ==
  /\ records \in [Key -> Stored]
  /\ log \subseteq Action /\ late \subseteq Ids
  /\ nextId \in 0..MaxId
  /\ pc \in [Writer -> {"idle", "read", "write", "commit"}]
  /\ tx \in [Writer -> TxOK]
  /\ cursor \in [Instance -> 0..MaxId] /\ start \in [Instance -> 0..MaxId]
  /\ fetched \in [Instance -> [Slot -> SUBSET Action]]
  /\ seen \in [Instance -> SUBSET Action]

Deleters(k) == {w \in Writer : \E op \in Request[w] : op[k] = Absent}
Last(k, a) ==
  a \in log /\ a.key = k /\ \A b \in log : b.key = k => b.id <= a.id

\* Replaying the log in the order of the ids gives the records: what a client
\* that follows the actions ends up with is what a client that bootstraps
\* reads, for every record only one process may delete.  (A second deleter
\* breaks it: its delete finds no row to lock, and is logged nevertheless.)
LogReplays ==
  \A k \in Key :
    (\A v, w \in Deleters(k) : v = w) =>
      /\ (\A a \in log : a.key # k) => records[k] = Absent
      /\ \A a \in log : Last(k, a) => records[k] = a.val

\* What instance i has the duty to ingest and has passed over.
Skipped(i) == {a \in log : start[i] < a.id /\ a.id <= cursor[i]} \ seen[i]

\* Whatever polls overlap or finish out of order, a poller passes over an
\* action only if it was committed after one with a higher id.
OnlyLateIsSkipped == \A i \in Instance : \A a \in Skipped(i) : a.id \in late

\* "Every warm instance's poller then ingests them": nothing is passed over.
NothingSkipped == \A i \in Instance : Skipped(i) = {}

\* Every instance keeps catching up with the log, but for the late actions.
PollersCatchUp ==
  \A i \in Instance :
    []<>(\A a \in log : a.id > start[i] /\ a.id \notin late => a \in seen[i])
=============================================================================
