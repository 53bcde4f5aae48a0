-------------------------- MODULE ActionLogProofs --------------------------
(***************************************************************************)
(* Proofs about ActionLog, for any records, writers, requests, instances   *)
(* and batch size: type correctness, that the log replays to the records,  *)
(* and that pollers pass over late actions only.                           *)
(***************************************************************************)
EXTENDS ActionLog, FiniteSetTheorems, TLAPS

\* At most one process deletes k.
Sole(k) == \A v, w \in Deleters(k) : v = w

\* What a transaction has done so far: it holds the lock of each row it has
\* written, and of a row it meant to delete and did not find only when there
\* may be another deleter.
Shape(w, step, t) ==
  /\ step = "idle" => t = NoTx
  /\ step # "idle" => t.op \in Request[w]
  /\ t.changed \subseteq Puts(t) \union Deletes(t)
  /\ t.locked \subseteq t.changed
  /\ step = "read" => t.todo \subseteq Deletes(t) /\ t.locked = {}
  /\ step = "write" => t.todo \subseteq t.changed
  /\ step = "commit" => t.todo = {}
  /\ step \in {"write", "commit"} =>
       \A k \in t.changed \ t.todo : t.op[k] \in Value \/ Sole(k) => k \in t.locked

LocksApart == \A v, w \in Writer : v # w => tx[v].locked \intersect tx[w].locked = {}

\* The row that the only deleter of a record has seen is there until it commits.
DeleterSees ==
  \A w \in Writer : \A k \in tx[w].changed :
    tx[w].op[k] = Absent /\ Sole(k) => records[k] # Absent

\* Ids are drawn once: those of a transaction are no other's and not in the log.
IdsDrawn ==
  /\ \A a \in log : a.id <= nextId
  /\ \A a, b \in log : a.id = b.id => a = b
  /\ \A w \in Writer : pc[w] = "commit" =>
       \A k \in tx[w].changed :
         /\ tx[w].ids[k] \in 1..nextId /\ tx[w].ids[k] \notin CommittedIds
         /\ \A j \in tx[w].changed : tx[w].ids[j] = tx[w].ids[k] => j = k
  /\ \A v, w \in Writer : v # w /\ pc[v] = "commit" /\ pc[w] = "commit" =>
       \A j \in tx[v].changed, k \in tx[w].changed : tx[v].ids[j] # tx[w].ids[k]

\* Who holds the lock of a row has drawn an id above all of its actions.
LogBehind ==
  \A w \in Writer : pc[w] = "commit" =>
    \A k \in tx[w].locked : Sole(k) =>
      \A a \in log : a.key = k => a.id < tx[w].ids[k]

\* A poll fetches everything up to its last row, but for what has been seen and
\* what is late.
PollsComplete ==
  /\ IsFiniteSet(log)
  /\ \A i \in Instance :
       /\ cursor[i] \in CommittedIds \union {0}
       /\ \A s \in Slot :
            /\ fetched[i][s] \subseteq log
            /\ \A x \in fetched[i][s] : \A a \in log :
                 start[i] < a.id /\ a.id <= x.id =>
                   a \in seen[i] \union fetched[i][s] \/ a.id \in late

WritesInv ==
  /\ \A w \in Writer : Shape(w, pc[w], tx[w])
  /\ LocksApart /\ DeleterSees /\ IdsDrawn /\ LogBehind /\ LogReplays
PollsInv == PollsComplete /\ OnlyLateIsSkipped
Inv == TypeOK /\ WritesInv /\ PollsInv

-----------------------------------------------------------------------------
(* Transactions before they draw their ids *)

Pcs == {"idle", "read", "write", "commit"}

LEMMA LogBounds ==
  /\ POLL_BATCH \in Nat \ {0} /\ MaxId \in Nat /\ IsFiniteSet(Key)
  /\ Absent \notin Value /\ Untouched \notin Value /\ Absent # Untouched
  BY LogAssumption

LEMMA NoTxOK ==
  NoTx \in TxOK /\ NoTx.changed = {} /\ NoTx.locked = {} /\ NoTx.todo = {}
  BY LogBounds DEF NoTx, TxOK

\* The rest of a transaction that has changed nothing holds nothing.
LEMMA NoTxShape == ASSUME NEW w PROVE Shape(w, "idle", NoTx)
  BY NoTxOK DEF Shape

LEMMA InitInv == Init => Inv
<1> SUFFICES ASSUME Init PROVE Inv
  OBVIOUS
<1>1. \A w \in Writer : pc[w] = "idle" /\ tx[w] = NoTx
  BY DEF Init
<1>2. TypeOK
  BY NoTxOK, LogBounds DEF Init, TypeOK, Stored
<1>3. \A w \in Writer : Shape(w, pc[w], tx[w])
  BY <1>1, NoTxShape
<1>4. LocksApart /\ DeleterSees /\ IdsDrawn /\ LogBehind
  BY <1>1, NoTxOK DEF Init, LocksApart, DeleterSees, IdsDrawn, LogBehind
<1>5. LogReplays
  BY DEF Init, LogReplays, Last
<1>6. PollsInv
  BY FS_EmptySet DEF Init, PollsInv, PollsComplete, OnlyLateIsSkipped, Skipped
<1> QED BY <1>2, <1>3, <1>4, <1>5, <1>6 DEF Inv, WritesInv

\* Polls do not see a transaction until it commits.
LEMMA PollsKept == PollsInv /\ UNCHANGED <<log, late, pollVars>> => PollsInv'
  BY DEF PollsInv, PollsComplete, OnlyLateIsSkipped, Skipped, CommittedIds, pollVars

LEMMA TxTyped ==
  ASSUME TypeOK, NEW w \in Writer
  PROVE  tx[w] \in TxOK /\ pc[w] \in Pcs /\ tx \in [Writer -> TxOK] /\ pc \in [Writer -> Pcs]
  BY DEF TypeOK, Pcs

\* A step of one transaction that neither draws ids nor commits.
LEMMA TxStepInv ==
  ASSUME Inv, NEW w \in Writer, NEW step \in {"idle", "read", "write"}, NEW t \in TxOK,
         pc' = [pc EXCEPT ![w] = step], tx' = [tx EXCEPT ![w] = t],
         UNCHANGED <<dbVars, pollVars>>,
         Shape(w, step, t),
         \A v \in Writer \ {w} : tx[v].locked \intersect t.locked = {},
         \A k \in t.changed : t.op[k] = Absent /\ Sole(k) => records[k] # Absent
  PROVE  Inv'
<1>1. UNCHANGED <<records, log, nextId, late>>
  BY DEF dbVars
<1>2. /\ pc' \in [Writer -> Pcs] /\ pc'[w] = step
      /\ tx' \in [Writer -> TxOK] /\ tx'[w] = t
      /\ \A v \in Writer : v # w => pc'[v] = pc[v] /\ tx'[v] = tx[v]
  BY TxTyped DEF Inv, Pcs
<1>3. TypeOK'
  BY <1>1, <1>2 DEF Inv, TypeOK, Pcs, pollVars
<1>4. \A v \in Writer : Shape(v, pc'[v], tx'[v])
  BY <1>2 DEF Inv, WritesInv
<1>5. LocksApart'
  <2> SUFFICES ASSUME NEW u \in Writer, NEW v \in Writer, u # v
               PROVE  tx'[u].locked \intersect tx'[v].locked = {}
    BY DEF LocksApart
  <2>1. CASE u # w /\ v # w
    BY <1>2, <2>1 DEF Inv, WritesInv, LocksApart
  <2>2. CASE u = w
    BY <1>2, <2>2
  <2>3. CASE v = w
    BY <1>2, <2>3
  <2> QED BY <2>1, <2>2, <2>3
<1>6. DeleterSees'
  BY <1>1, <1>2 DEF Inv, WritesInv, DeleterSees
<1>7. \A v \in Writer : pc'[v] = "commit" => v # w /\ pc[v] = "commit" /\ tx'[v] = tx[v]
  BY <1>2
<1>8. IdsDrawn'
  <2>1. IdsDrawn
    BY DEF Inv, WritesInv
  <2>2. CommittedIds' = CommittedIds
    BY <1>1 DEF CommittedIds
  <2> QED BY <1>1, <1>7, <2>1, <2>2 DEF IdsDrawn
<1>9. LogBehind'
  BY <1>1, <1>7 DEF Inv, WritesInv, LogBehind
<1>10. LogReplays'
  BY <1>1 DEF Inv, WritesInv, LogReplays, Last
<1>11. PollsInv'
  BY <1>1, PollsKept DEF Inv
<1> QED BY <1>3, <1>4, <1>5, <1>6, <1>8, <1>9, <1>10, <1>11 DEF Inv, WritesInv

LEMMA BeginInv == ASSUME Inv, NEW w \in Writer, Begin(w) PROVE Inv'
<1>1. PICK op \in Request[w] :
        LET t == [NoTx EXCEPT !.op = op]
        IN Move(w, "read", [t EXCEPT !.changed = {k \in Puts(t) : records[k] # op[k]},
                                     !.todo = Deletes(t)])
  BY DEF Begin
<1> DEFINE s == [NoTx EXCEPT !.op = op]
           t == [s EXCEPT !.changed = {k \in Puts(s) : records[k] # op[k]},
                          !.todo = Deletes(s)]
<1>2. op \in [Key -> Stored \union {Untouched}]
  BY LogAssumption DEF Stored
<1>3. s \in TxOK /\ s.op = op /\ s.locked = {}
  BY <1>2, NoTxOK DEF TxOK
<1>4. Puts(s) \subseteq Key /\ Deletes(s) \subseteq Key
      /\ Puts(s) = {k \in Key : op[k] \in Value} /\ Deletes(s) = {k \in Key : op[k] = Absent}
  BY <1>3 DEF Puts, Deletes
<1>5. /\ t \in TxOK /\ t.op = op /\ t.locked = {} /\ t.todo = Deletes(s)
      /\ t.changed = {k \in Puts(s) : records[k] # op[k]}
  BY <1>3, <1>4 DEF TxOK
<1>6. pc' = [pc EXCEPT ![w] = "read"] /\ tx' = [tx EXCEPT ![w] = t]
  BY <1>1 DEF Move
<1> HIDE DEF t
<1>7. Puts(t) = Puts(s) /\ Deletes(t) = Deletes(s)
  BY <1>3, <1>5 DEF Puts, Deletes
<1> HIDE DEF s
<1>8. Shape(w, "read", t)
  BY <1>5, <1>7 DEF Shape
<1>9. \A k \in t.changed : t.op[k] # Absent
  BY <1>4, <1>5, LogBounds
<1> QED BY <1>5, <1>6, <1>8, <1>9, TxStepInv DEF Begin

\* While a transaction reads and writes, its op stays what it is.
LEMMA SameOp ==
  ASSUME NEW s, NEW t, t.op = s.op PROVE Puts(t) = Puts(s) /\ Deletes(t) = Deletes(s)
  BY DEF Puts, Deletes

LEMMA ReadDeleteInv == ASSUME Inv, NEW w \in Writer, ReadDelete(w) PROVE Inv'
<1>1. PICK k \in tx[w].todo :
        tx' = [tx EXCEPT ![w].todo = @ \ {k},
                         ![w].changed = IF records[k] # Absent THEN @ \union {k} ELSE @]
  BY DEF ReadDelete
<1> DEFINE c == IF records[k] # Absent THEN tx[w].changed \union {k} ELSE tx[w].changed
           t == [tx[w] EXCEPT !.todo = @ \ {k}, !.changed = c]
<1>2. tx[w] \in TxOK /\ Shape(w, "read", tx[w]) /\ pc[w] = "read" /\ tx \in [Writer -> TxOK]
      /\ pc \in [Writer -> Pcs]
  BY TxTyped DEF Inv, WritesInv, ReadDelete
<1>3. k \in Key /\ k \in Deletes(tx[w]) /\ tx[w].op[k] = Absent
  BY <1>2 DEF Shape, Deletes
<1>4. tx' = [tx EXCEPT ![w] = t] /\ pc' = [pc EXCEPT ![w] = "read"]
  BY <1>1, <1>2 DEF ReadDelete, TxOK
<1>5. c \subseteq Key /\ c \subseteq tx[w].changed \union {k}
      /\ (k \in c => records[k] # Absent \/ k \in tx[w].changed)
  BY <1>2, <1>3 DEF TxOK
<1> HIDE DEF c
<1>6. /\ t \in TxOK /\ t.op = tx[w].op /\ t.changed = c /\ t.todo = tx[w].todo \ {k}
      /\ t.locked = tx[w].locked
  BY <1>2, <1>5 DEF TxOK
<1> HIDE DEF t
<1>7. Puts(t) = Puts(tx[w]) /\ Deletes(t) = Deletes(tx[w])
  BY <1>6, SameOp
<1>8. tx[w].locked \subseteq tx[w].changed /\ tx[w].locked = {}
  BY <1>2 DEF Shape
<1>9. Shape(w, "read", t)
  BY <1>2, <1>3, <1>5, <1>6, <1>7, <1>8 DEF Shape
<1>10. \A j \in t.changed : t.op[j] = Absent /\ Sole(j) => records[j] # Absent
  BY <1>5, <1>6 DEF Inv, WritesInv, DeleterSees
<1> QED BY <1>4, <1>6, <1>8, <1>9, <1>10, TxStepInv DEF ReadDelete

LEMMA DiffedInv == ASSUME Inv, NEW w \in Writer, Diffed(w) PROVE Inv'
<1>1. tx[w] \in TxOK /\ Shape(w, "read", tx[w]) /\ pc[w] = "read"
  BY TxTyped DEF Inv, WritesInv, Diffed
<1>2. CASE Move(w, "idle", NoTx)
  BY <1>2, NoTxOK, NoTxShape, TxStepInv DEF Move, Diffed
<1>3. CASE Move(w, "write", [tx[w] EXCEPT !.todo = tx[w].changed])
  <2> DEFINE t == [tx[w] EXCEPT !.todo = tx[w].changed]
  <2>1. /\ t \in TxOK /\ t.op = tx[w].op /\ t.changed = tx[w].changed
        /\ t.todo = tx[w].changed /\ t.locked = tx[w].locked
    BY <1>1 DEF TxOK
  <2> HIDE DEF t
  <2>2. Puts(t) = Puts(tx[w]) /\ Deletes(t) = Deletes(tx[w])
    BY <2>1, SameOp
  <2>3. tx[w].locked = {} /\ Shape(w, "write", t)
    BY <1>1, <2>1, <2>2 DEF Shape
  <2>4. \A k \in t.changed : t.op[k] = Absent /\ Sole(k) => records[k] # Absent
    BY <2>1 DEF Inv, WritesInv, DeleterSees
  <2>5. pc' = [pc EXCEPT ![w] = "write"] /\ tx' = [tx EXCEPT ![w] = t]
    BY <1>3 DEF Move, t
  <2> QED BY <2>1, <2>3, <2>4, <2>5, TxStepInv DEF Diffed
<1> QED BY <1>2, <1>3 DEF Diffed

\* A row is written, or a delete finds none: of a record with one deleter, it
\* always finds the row.
LEMMA WriteRowInv ==
  ASSUME Inv, NEW w \in Writer, pc[w] = "write", NEW k \in tx[w].todo, NEW lock \in BOOLEAN,
         lock => Unlocked(w, k),
         ~lock => tx[w].op[k] = Absent /\ records[k] = Absent,
         tx' = [tx EXCEPT ![w] = [tx[w] EXCEPT !.todo = @ \ {k},
                                               !.locked = IF lock THEN @ \union {k} ELSE @]],
         UNCHANGED <<pc, dbVars, pollVars>>
  PROVE  Inv'
<1> DEFINE held == IF lock THEN tx[w].locked \union {k} ELSE tx[w].locked
           t == [tx[w] EXCEPT !.todo = @ \ {k}, !.locked = held]
<1>1. tx[w] \in TxOK /\ Shape(w, "write", tx[w]) /\ pc \in [Writer -> Pcs]
  BY TxTyped DEF Inv, WritesInv
<1>2. k \in tx[w].changed /\ k \in Key /\ tx[w].locked \subseteq tx[w].changed
  BY <1>1 DEF Shape, TxOK
<1>3. held \subseteq tx[w].changed /\ held \subseteq Key
      /\ tx[w].locked \subseteq held /\ (lock => k \in held) /\ held \subseteq tx[w].locked \union {k}
      /\ (~lock => held = tx[w].locked)
  BY <1>1, <1>2 DEF TxOK
<1>4. pc' = [pc EXCEPT ![w] = "write"] /\ tx' = [tx EXCEPT ![w] = t]
  BY <1>1
<1> HIDE DEF held
<1>5. /\ t \in TxOK /\ t.op = tx[w].op /\ t.changed = tx[w].changed
      /\ t.todo = tx[w].todo \ {k} /\ t.locked = held
  BY <1>1, <1>3 DEF TxOK
<1> HIDE DEF t
<1>6. Puts(t) = Puts(tx[w]) /\ Deletes(t) = Deletes(tx[w])
  BY <1>5, SameOp
<1>7. tx[w].op[k] \in Value \/ Sole(k) => lock
  BY <1>2, LogBounds DEF Inv, WritesInv, DeleterSees
<1>8. Shape(w, "write", t)
  BY <1>1, <1>2, <1>3, <1>5, <1>6, <1>7 DEF Shape
<1>9. \A v \in Writer \ {w} : tx[v].locked \intersect t.locked = {}
  BY <1>3, <1>5 DEF Inv, WritesInv, LocksApart, Unlocked
<1>10. \A j \in t.changed : t.op[j] = Absent /\ Sole(j) => records[j] # Absent
  BY <1>5 DEF Inv, WritesInv, DeleterSees
<1> QED BY <1>4, <1>5, <1>8, <1>9, <1>10, TxStepInv

LEMMA WriteInv == ASSUME Inv, NEW w \in Writer, Upsert(w) \/ Delete(w) PROVE Inv'
<1>1. tx[w] \in TxOK /\ Shape(w, "write", tx[w]) /\ tx \in [Writer -> TxOK]
  BY TxTyped DEF Inv, WritesInv, Upsert, Delete
<1>2. \A k \in tx[w].todo : k \in Puts(tx[w]) \/ tx[w].op[k] = Absent
  BY <1>1 DEF Shape, Deletes
<1>3. ASSUME NEW k \in tx[w].todo, Unlocked(w, k), pc[w] = "write",
             tx' = [tx EXCEPT ![w].todo = @ \ {k}, ![w].locked = @ \union {k}],
             UNCHANGED <<pc, dbVars, pollVars>>
      PROVE  Inv'
  <2>1. tx' = [tx EXCEPT ![w] = [tx[w] EXCEPT !.todo = @ \ {k},
                                               !.locked = IF TRUE THEN @ \union {k} ELSE @]]
    BY <1>1, <1>3 DEF TxOK
  <2> QED BY <1>3, <2>1, WriteRowInv
<1>4. ASSUME NEW k \in tx[w].todo, records[k] = Absent, tx[w].op[k] = Absent, pc[w] = "write",
             tx' = [tx EXCEPT ![w].todo = @ \ {k}], UNCHANGED <<pc, dbVars, pollVars>>
      PROVE  Inv'
  <2>1. tx' = [tx EXCEPT ![w] = [tx[w] EXCEPT !.todo = @ \ {k},
                                               !.locked = IF FALSE THEN @ \union {k} ELSE @]]
    BY <1>1, <1>4 DEF TxOK
  <2> QED BY <1>4, <2>1, WriteRowInv
<1>5. CASE Upsert(w)
  BY <1>3, <1>5 DEF Upsert
<1>6. CASE Delete(w)
  <2>1. PICK k \in tx[w].todo :
          \/ /\ records[k] # Absent /\ Unlocked(w, k)
             /\ tx' = [tx EXCEPT ![w].todo = @ \ {k}, ![w].locked = @ \union {k}]
          \/ /\ records[k] = Absent
             /\ tx' = [tx EXCEPT ![w].todo = @ \ {k}]
    BY <1>6 DEF Delete
  <2>2. k \notin Puts(tx[w])
    BY <1>6 DEF Delete
  <2> QED BY <1>2, <1>3, <1>4, <1>6, <2>1, <2>2 DEF Delete
<1> QED BY <1>5, <1>6

LEMMA AbortInv == ASSUME Inv, NEW w \in Writer, Abort(w) PROVE Inv'
  BY NoTxOK, NoTxShape, TxStepInv DEF Abort, Move

-----------------------------------------------------------------------------
(* Drawing ids and committing *)

\* Keys are finitely many, so a transaction draws a number of ids.
LEMMA ChangedCount ==
  ASSUME TypeOK, NEW w \in Writer
  PROVE  IsFiniteSet(tx[w].changed) /\ Cardinality(tx[w].changed) \in Nat
<1>1. tx[w].changed \subseteq Key
  BY DEF TypeOK, TxOK
<1> QED BY <1>1, LogBounds, FS_Subset, FS_CardinalityType

LEMMA AllocateIdsInv == ASSUME Inv, NEW w \in Writer, AllocateIds(w) PROVE Inv'
<1> DEFINE n == Cardinality(tx[w].changed)
<1>1. /\ tx[w] \in TxOK /\ tx \in [Writer -> TxOK] /\ pc \in [Writer -> Pcs]
      /\ Shape(w, "write", tx[w]) /\ tx[w].todo = {} /\ tx[w].changed \subseteq Key
  BY TxTyped DEF Inv, WritesInv, AllocateIds, TxOK
<1>2. n \in Nat /\ nextId \in Nat /\ MaxId \in Nat /\ nextId + n <= MaxId /\ nextId' = nextId + n
  BY ChangedCount, LogBounds DEF Inv, TypeOK, AllocateIds
<1>3. PICK ids \in IdsFor(tx[w]) : Move(w, "commit", [tx[w] EXCEPT !.ids = ids])
  BY DEF AllocateIds
<1>4. /\ ids \in [Key -> 0..(nextId + n)]
      /\ \A k \in tx[w].changed : ids[k] > nextId
      /\ \A j, k \in tx[w].changed : ids[j] = ids[k] => j = k
  BY DEF IdsFor
<1> HIDE DEF n
<1> DEFINE t == [tx[w] EXCEPT !.ids = ids]
<1>5. ids \in [Key -> 0..MaxId]
  BY <1>2, <1>4
<1>6. /\ t \in TxOK /\ t.op = tx[w].op /\ t.changed = tx[w].changed /\ t.todo = {}
      /\ t.locked = tx[w].locked /\ t.ids = ids
  BY <1>1, <1>5 DEF TxOK
<1>7. pc' = [pc EXCEPT ![w] = "commit"] /\ tx' = [tx EXCEPT ![w] = t]
  BY <1>3 DEF Move
<1> HIDE DEF t
<1>8. /\ pc' \in [Writer -> Pcs] /\ pc'[w] = "commit"
      /\ tx' \in [Writer -> TxOK] /\ tx'[w] = t
      /\ \A v \in Writer : v # w => pc'[v] = pc[v] /\ tx'[v] = tx[v]
  BY <1>1, <1>6, <1>7 DEF Pcs
<1>9. UNCHANGED <<records, log, late, pollVars>>
  BY DEF AllocateIds
<1>10. TypeOK'
  BY <1>2, <1>8, <1>9 DEF Inv, TypeOK, Pcs, pollVars
<1>11. Puts(t) = Puts(tx[w]) /\ Deletes(t) = Deletes(tx[w])
  BY <1>6, SameOp
<1>12. Shape(w, "commit", t)
  BY <1>1, <1>6, <1>11 DEF Shape
<1>13. \A v \in Writer : Shape(v, pc'[v], tx'[v])
  BY <1>8, <1>12 DEF Inv, WritesInv
<1>14. \A v \in Writer : tx'[v].locked = tx[v].locked /\ tx'[v].changed = tx[v].changed
                         /\ tx'[v].op = tx[v].op
  BY <1>6, <1>8
<1>15. LocksApart' /\ DeleterSees'
  BY <1>9, <1>14 DEF Inv, WritesInv, LocksApart, DeleterSees
<1>16. CommittedIds' = CommittedIds
  BY <1>9 DEF CommittedIds
<1>17. \A a \in log : a.id \in Nat /\ a.id <= nextId
  BY DEF Inv, WritesInv, IdsDrawn, TypeOK, Action, Ids
<1>18. \A k \in tx[w].changed : /\ ids[k] \in 1..(nextId + n) /\ ids[k] \notin CommittedIds
                                /\ ids[k] > nextId
  BY <1>1, <1>2, <1>4, <1>17 DEF CommittedIds
<1>19. \A v \in Writer : v # w /\ pc[v] = "commit" =>
         \A j \in tx[v].changed : tx[v].ids[j] \in 1..nextId /\ tx[v].ids[j] \in 1..(nextId + n)
  BY <1>2 DEF Inv, WritesInv, IdsDrawn
<1>20. IdsDrawn'
  <2>1. \A a \in log' : a.id <= nextId'
    BY <1>2, <1>9, <1>17
  <2>2. \A a, b \in log' : a.id = b.id => a = b
    BY <1>9 DEF Inv, WritesInv, IdsDrawn
  <2>3. ASSUME NEW v \in Writer, pc'[v] = "commit", NEW k \in tx'[v].changed
        PROVE  /\ tx'[v].ids[k] \in 1..nextId' /\ tx'[v].ids[k] \notin CommittedIds'
               /\ \A j \in tx'[v].changed : tx'[v].ids[j] = tx'[v].ids[k] => j = k
    <3>1. CASE v = w
      BY <1>2, <1>4, <1>6, <1>8, <1>16, <1>18, <2>3, <3>1
    <3>2. CASE v # w
      <4>1. pc[v] = "commit" /\ tx'[v] = tx[v]
        BY <1>8, <2>3, <3>2
      <4> QED BY <1>2, <1>16, <1>19, <2>3, <3>2, <4>1 DEF Inv, WritesInv, IdsDrawn
    <3> QED BY <3>1, <3>2
  <2>4. ASSUME NEW u \in Writer, NEW v \in Writer, u # v, pc'[u] = "commit", pc'[v] = "commit",
               NEW j \in tx'[u].changed, NEW k \in tx'[v].changed
        PROVE  tx'[u].ids[j] # tx'[v].ids[k]
    <3>1. CASE u = w
      BY <1>2, <1>6, <1>8, <1>18, <1>19, <2>4, <3>1
    <3>2. CASE v = w
      BY <1>2, <1>6, <1>8, <1>18, <1>19, <2>4, <3>2
    <3>3. CASE u # w /\ v # w
      <4>1. pc[u] = "commit" /\ tx'[u] = tx[u] /\ pc[v] = "commit" /\ tx'[v] = tx[v]
        BY <1>8, <2>4, <3>3
      <4> QED BY <2>4, <4>1 DEF Inv, WritesInv, IdsDrawn
    <3> QED BY <3>1, <3>2, <3>3
  <2> QED BY <2>1, <2>2, <2>3, <2>4 DEF IdsDrawn
<1>21. LogBehind'
  <2> SUFFICES ASSUME NEW v \in Writer, pc'[v] = "commit", NEW k \in tx'[v].locked, Sole(k),
                      NEW a \in log, a.key = k
               PROVE  a.id < tx'[v].ids[k]
    BY <1>9 DEF LogBehind
  <2>1. CASE v = w
    <3>1. k \in tx[w].changed /\ tx'[v].ids[k] = ids[k]
      BY <1>1, <1>6, <1>8, <2>1 DEF Shape
    <3> QED BY <1>2, <1>17, <1>18, <3>1
  <2>2. CASE v # w
    BY <1>8, <2>2 DEF Inv, WritesInv, LogBehind
  <2> QED BY <2>1, <2>2
<1>22. LogReplays'
  BY <1>9 DEF Inv, WritesInv, LogReplays, Last
<1>23. PollsInv'
  BY <1>9, PollsKept DEF Inv
<1> QED BY <1>10, <1>13, <1>15, <1>20, <1>21, <1>22, <1>23 DEF Inv, WritesInv

\* What a transaction that commits appends.
LEMMA NewActions ==
  ASSUME Inv, NEW w \in Writer, pc[w] = "commit", NEW a \in Actions(tx[w])
  PROVE  /\ a \in Action /\ a.key \in tx[w].changed
         /\ a.id = tx[w].ids[a.key] /\ a.val = tx[w].op[a.key]
         /\ a.id \in 1..nextId /\ a.id \notin CommittedIds
<1>1. PICK k \in tx[w].changed : a = [id |-> tx[w].ids[k], key |-> k, val |-> tx[w].op[k]]
  BY DEF Actions
<1>2. tx[w] \in TxOK /\ Shape(w, "commit", tx[w])
  BY TxTyped DEF Inv, WritesInv
<1>3. k \in Key /\ tx[w].op[k] \in Stored
  BY <1>2 DEF Shape, Puts, Deletes, Stored, TxOK
<1>4. tx[w].ids[k] \in 1..nextId /\ tx[w].ids[k] \notin CommittedIds
  BY DEF Inv, WritesInv, IdsDrawn
<1>5. tx[w].ids[k] \in Ids
  BY <1>4, LogBounds DEF Inv, TypeOK, Ids
<1> QED BY <1>1, <1>3, <1>4, <1>5 DEF Action

\* ... is finite, like the log.
LEMMA ActionsFinite ==
  ASSUME TypeOK, NEW w \in Writer PROVE IsFiniteSet(Actions(tx[w]))
<1> DEFINE act(k) == [id |-> tx[w].ids[k], key |-> k, val |-> tx[w].op[k]]
           f == [k \in tx[w].changed |-> act(k)]
<1>1. f \in Surjection(tx[w].changed, Actions(tx[w]))
  BY DEF Surjection, Actions
<1> QED BY <1>1, ChangedCount, FS_Surjection

LEMMA CommitInv == ASSUME Inv, NEW w \in Writer, Commit(w) PROVE Inv'
<1> DEFINE t == tx[w]
<1>1. /\ t \in TxOK /\ tx \in [Writer -> TxOK] /\ pc \in [Writer -> Pcs] /\ pc[w] = "commit"
      /\ Shape(w, "commit", t) /\ t.todo = {} /\ t.locked \subseteq t.changed
      /\ t.changed \subseteq Key
  BY TxTyped DEF Inv, WritesInv, Commit, Shape, TxOK
<1>2. /\ records' = [k \in Key |-> IF k \in t.locked THEN t.op[k] ELSE records[k]]
      /\ log' = log \union Actions(t)
      /\ late' = late \union {id \in {t.ids[k] : k \in t.changed} : \E a \in log : a.id > id}
      /\ pc' = [pc EXCEPT ![w] = "idle"] /\ tx' = [tx EXCEPT ![w] = NoTx]
      /\ UNCHANGED <<nextId, pollVars>>
  BY DEF Commit, Move
<1>3. /\ pc' \in [Writer -> Pcs] /\ pc'[w] = "idle"
      /\ tx' \in [Writer -> TxOK] /\ tx'[w] = NoTx
      /\ \A v \in Writer : v # w => pc'[v] = pc[v] /\ tx'[v] = tx[v]
  BY <1>1, <1>2, NoTxOK DEF Pcs
<1>4. \A a \in Actions(t) :
        /\ a \in Action /\ a.key \in t.changed /\ a.id = t.ids[a.key] /\ a.val = t.op[a.key]
        /\ a.id \in 1..nextId /\ a.id \notin CommittedIds
  BY <1>1, NewActions
<1>5. ASSUME NEW k \in t.changed PROVE \E a \in Actions(t) : a.key = k
  <2>1. [id |-> t.ids[k], key |-> k, val |-> t.op[k]] \in Actions(t)
    BY DEF Actions
  <2> QED BY <2>1
<1>6. \A k \in t.changed : t.op[k] \in Stored /\ t.ids[k] \in Ids
  BY <1>4, <1>5 DEF Action
<1>7. \A k \in t.changed : t.op[k] \in Value \/ Sole(k) => k \in t.locked
  BY <1>1 DEF Shape
<1>8. \A a \in log : a \in Action /\ a.id \in Nat /\ a.id <= nextId
  BY DEF Inv, WritesInv, IdsDrawn, TypeOK, Action, Ids
<1>9. nextId \in Nat
  BY LogBounds DEF Inv, TypeOK
<1> HIDE DEF t
<1>10. TypeOK'
  <2>1. records' \in [Key -> Stored]
    BY <1>1, <1>2, <1>6 DEF Inv, TypeOK
  <2>2. log' \subseteq Action
    BY <1>2, <1>4, <1>8
  <2>3. late' \subseteq Ids
    BY <1>2, <1>6 DEF Inv, TypeOK
  <2> QED BY <1>2, <1>3, <2>1, <2>2, <2>3 DEF Inv, TypeOK, Pcs, pollVars
<1>11. \A v \in Writer : Shape(v, pc'[v], tx'[v])
  BY <1>3, NoTxShape DEF Inv, WritesInv
<1>12. LocksApart'
  <2> SUFFICES ASSUME NEW u \in Writer, NEW v \in Writer, u # v
               PROVE  tx'[u].locked \intersect tx'[v].locked = {}
    BY DEF LocksApart
  <2>1. CASE u # w /\ v # w
    BY <1>3, <2>1 DEF Inv, WritesInv, LocksApart
  <2>2. CASE u = w \/ v = w
    BY <1>3, <2>2, NoTxOK
  <2> QED BY <2>1, <2>2
<1>13. DeleterSees'
  <2> SUFFICES ASSUME NEW v \in Writer, NEW k \in tx'[v].changed, tx'[v].op[k] = Absent, Sole(k)
               PROVE  records'[k] # Absent
    BY DEF DeleterSees
  <2>1. v # w /\ tx'[v] = tx[v]
    BY <1>3, NoTxOK
  <2>2. k \in Key /\ records[k] # Absent /\ pc[v] # "idle"
    BY <2>1, TxTyped, NoTxOK DEF Inv, WritesInv, DeleterSees, Shape, TxOK
  <2>3. v \in Deleters(k)
    BY <2>1, <2>2 DEF Inv, WritesInv, Shape, Deleters
  <2>4. k \in t.locked => t.op[k] # Absent
    BY <1>1, <2>1, <2>3 DEF Shape, Deleters, Sole
  <2> QED BY <1>2, <2>2, <2>4
<1>14. CommittedIds' = CommittedIds \union {t.ids[k] : k \in t.changed}
  <2>1. {a.id : a \in Actions(t)} = {t.ids[k] : k \in t.changed}
    BY <1>4, <1>5
  <2> QED BY <1>2, <2>1 DEF CommittedIds
<1>15. IdsDrawn'
  <2>1. \A a \in log' : a.id <= nextId'
    BY <1>2, <1>4, <1>8, <1>9
  <2>2. ASSUME NEW a \in log', NEW b \in log', a.id = b.id PROVE a = b
    <3>1. CASE a \in log /\ b \in log
      BY <2>2, <3>1 DEF Inv, WritesInv, IdsDrawn
    <3>2. CASE a \in Actions(t) /\ b \in Actions(t)
      <4>1. PICK j \in t.changed : a = [id |-> t.ids[j], key |-> j, val |-> t.op[j]]
        BY <3>2 DEF Actions
      <4>2. PICK k \in t.changed : b = [id |-> t.ids[k], key |-> k, val |-> t.op[k]]
        BY <3>2 DEF Actions
      <4>3. j = k
        BY <1>1, <2>2, <4>1, <4>2 DEF Inv, WritesInv, IdsDrawn, t
      <4> QED BY <4>1, <4>2, <4>3
    <3>3. CASE a \in log /\ b \in Actions(t)
      BY <1>4, <2>2, <3>3 DEF CommittedIds
    <3>4. CASE b \in log /\ a \in Actions(t)
      BY <1>4, <2>2, <3>4 DEF CommittedIds
    <3> QED BY <1>2, <3>1, <3>2, <3>3, <3>4
  <2>3. ASSUME NEW v \in Writer, pc'[v] = "commit", NEW k \in tx'[v].changed
        PROVE  /\ tx'[v].ids[k] \in 1..nextId' /\ tx'[v].ids[k] \notin CommittedIds'
               /\ \A j \in tx'[v].changed : tx'[v].ids[j] = tx'[v].ids[k] => j = k
    <3>1. v # w /\ pc[v] = "commit" /\ tx'[v] = tx[v]
      BY <1>3, <2>3
    <3>2. \A j \in t.changed : t.ids[j] # tx[v].ids[k]
      BY <1>1, <2>3, <3>1 DEF Inv, WritesInv, IdsDrawn, t
    <3> QED BY <1>2, <1>14, <2>3, <3>1, <3>2 DEF Inv, WritesInv, IdsDrawn
  <2>4. ASSUME NEW u \in Writer, NEW v \in Writer, u # v, pc'[u] = "commit", pc'[v] = "commit",
               NEW j \in tx'[u].changed, NEW k \in tx'[v].changed
        PROVE  tx'[u].ids[j] # tx'[v].ids[k]
    <3>1. pc[u] = "commit" /\ tx'[u] = tx[u] /\ pc[v] = "commit" /\ tx'[v] = tx[v]
      BY <1>3, <2>4
    <3> QED BY <2>4, <3>1 DEF Inv, WritesInv, IdsDrawn
  <2> QED BY <2>1, <2>2, <2>3, <2>4 DEF IdsDrawn
<1>16. LogBehind'
  <2> SUFFICES ASSUME NEW v \in Writer, pc'[v] = "commit", NEW k \in tx'[v].locked, Sole(k),
                      NEW a \in log', a.key = k
               PROVE  a.id < tx'[v].ids[k]
    BY DEF LogBehind
  <2>1. v # w /\ pc[v] = "commit" /\ tx'[v] = tx[v]
    BY <1>3
  <2>2. CASE a \in log
    BY <2>1, <2>2 DEF Inv, WritesInv, LogBehind
  <2>3. CASE a \in Actions(t)
    <3>1. k \in t.locked
      BY <1>4, <1>7, <2>3
    <3>2. t.locked \intersect tx[v].locked = {}
      BY <2>1 DEF Inv, WritesInv, LocksApart, t
    <3> QED BY <2>1, <3>1, <3>2
  <2> QED BY <1>2, <2>2, <2>3
<1>17. LogReplays'
  <2> SUFFICES ASSUME NEW k \in Key, Sole(k)
               PROVE  /\ (\A a \in log' : a.key # k) => records'[k] = Absent
                      /\ \A a \in log' : Last(k, a)' => records'[k] = a.val
    BY DEF LogReplays, Sole
  <2>1. CASE k \notin t.changed
    <3>1. records'[k] = records[k]
      BY <1>1, <1>2, <2>1
    <3>2. \A a \in log' : a.key = k => a \in log
      BY <1>2, <1>4, <2>1
    <3>3. (\A a \in log' : a.key # k) => records'[k] = Absent
      BY <1>2, <3>1 DEF Inv, WritesInv, LogReplays, Sole
    <3>4. ASSUME NEW a \in log', Last(k, a)' PROVE records'[k] = a.val
      <4>1. Last(k, a)
        BY <1>2, <3>2, <3>4 DEF Last
      <4> QED BY <3>1, <4>1 DEF Inv, WritesInv, LogReplays, Sole, Last
    <3> QED BY <3>3, <3>4
  <2>2. CASE k \in t.changed
    <3>1. k \in t.locked /\ records'[k] = t.op[k]
      BY <1>2, <1>7, <2>2
    <3>2. PICK b \in Actions(t) : b.key = k
      BY <1>5, <2>2
    <3>3. b \in log' /\ b.id = t.ids[k] /\ b.id \in Nat /\ b.val = t.op[k]
      BY <1>2, <1>4, <3>2
    <3>4. ASSUME NEW a \in log', Last(k, a)' PROVE records'[k] = a.val
      <4>1. a.key = k /\ b.id <= a.id
        BY <3>2, <3>3, <3>4 DEF Last
      <4>2. a \notin log
        <5>1. a \in log => a.id < t.ids[k]
          BY <1>1, <3>1, <4>1 DEF Inv, WritesInv, LogBehind, t
        <5> QED BY <1>8, <3>3, <4>1, <5>1
      <4>3. a \in Actions(t)
        BY <1>2, <4>2
      <4> QED BY <1>4, <3>1, <4>1, <4>3
    <3> QED BY <3>2, <3>3, <3>4
  <2> QED BY <2>1, <2>2
<1>18. \A a \in Actions(t), b \in log : a.id <= b.id => a.id \in late'
  <2> SUFFICES ASSUME NEW a \in Actions(t), NEW b \in log, a.id <= b.id PROVE a.id \in late'
    OBVIOUS
  <2>1. a.id # b.id
    BY <1>4 DEF CommittedIds
  <2>2. b.id > a.id
    BY <1>4, <1>8, <1>9, <2>1
  <2>3. a.id \in {t.ids[k] : k \in t.changed}
    BY <1>4
  <2> QED BY <1>2, <2>2, <2>3
<1>19. PollsInv'
  <2>1. UNCHANGED <<cursor, start, fetched, seen>>
    BY <1>2 DEF pollVars
  <2>2. IsFiniteSet(log')
    BY <1>2, ActionsFinite, FS_Union DEF Inv, PollsInv, PollsComplete, t
  <2>3. \A i \in Instance : cursor'[i] \in CommittedIds' \union {0}
    BY <1>14, <2>1 DEF Inv, PollsInv, PollsComplete
  <2>4. ASSUME NEW i \in Instance, NEW s \in Slot
        PROVE  /\ fetched'[i][s] \subseteq log'
               /\ \A x \in fetched'[i][s] : \A a \in log' :
                    start'[i] < a.id /\ a.id <= x.id =>
                      a \in seen'[i] \union fetched'[i][s] \/ a.id \in late'
    <3>1. fetched[i][s] \subseteq log
      BY DEF Inv, PollsInv, PollsComplete
    <3>2. ASSUME NEW x \in fetched[i][s], NEW a \in log', start[i] < a.id, a.id <= x.id
          PROVE  a \in seen[i] \union fetched[i][s] \/ a.id \in late'
      <4>1. CASE a \in log
        BY <1>2, <3>2, <4>1 DEF Inv, PollsInv, PollsComplete
      <4>2. CASE a \in Actions(t)
        BY <1>18, <3>1, <3>2, <4>2
      <4> QED BY <1>2, <4>1, <4>2
    <3> QED BY <1>2, <2>1, <3>1, <3>2
  <2>5. PollsComplete'
    BY <2>2, <2>3, <2>4 DEF PollsComplete
  <2>6. OnlyLateIsSkipped'
    <3> SUFFICES ASSUME NEW i \in Instance, NEW a \in Skipped(i)' PROVE a.id \in late'
      BY DEF OnlyLateIsSkipped
    <3>1. a \in log' /\ start[i] < a.id /\ a.id <= cursor[i] /\ a \notin seen[i]
      BY <2>1 DEF Skipped
    <3>2. CASE a \in log
      BY <1>2, <3>1, <3>2 DEF Inv, PollsInv, OnlyLateIsSkipped, Skipped
    <3>3. CASE a \in Actions(t)
      <4>1. a.id \in 1..nextId
        BY <1>4, <3>3
      <4>2. cursor[i] # 0
        BY <1>9, <3>1, <4>1
      <4>3. PICK b \in log : b.id = cursor[i]
        BY <4>2 DEF Inv, PollsInv, PollsComplete, CommittedIds
      <4> QED BY <1>18, <3>1, <3>3, <4>3
    <3> QED BY <1>2, <3>1, <3>2, <3>3
  <2> QED BY <2>5, <2>6 DEF PollsInv
<1> QED BY <1>10, <1>11, <1>12, <1>13, <1>15, <1>16, <1>17, <1>19 DEF Inv, WritesInv

-----------------------------------------------------------------------------
(* The pollers *)

\* What a poll reads is in the log, above the cursor, and leaves out nothing
\* between the cursor and a row that it returns.
LEMMA RowsComplete ==
  ASSUME IsFiniteSet(log), log \subseteq Action, NEW c \in Nat
  PROVE  /\ RowsSince(c) \subseteq log
         /\ \A x \in RowsSince(c), a \in log : c < a.id /\ a.id <= x.id => a \in RowsSince(c)
<1>1. RowsSince(c) \subseteq log
  BY DEF RowsSince
<1>2. ASSUME NEW x \in RowsSince(c), NEW a \in log, c < a.id, a.id <= x.id
      PROVE  a \in RowsSince(c)
  <2> DEFINE below(y) == {b \in log : c < b.id /\ b.id < y.id}
  <2>1. x.id \in Nat /\ a.id \in Nat /\ \A b \in log : b.id \in Nat
    BY <1>1, LogBounds DEF Action, Ids
  <2>2. below(a) \subseteq below(x) /\ IsFiniteSet(below(x))
    BY <1>2, <2>1, FS_Subset
  <2>3. Cardinality(below(a)) \in Nat /\ Cardinality(below(x)) \in Nat
        /\ Cardinality(below(a)) <= Cardinality(below(x))
    BY <2>2, FS_Subset, FS_CardinalityType
  <2>4. Cardinality(below(x)) < POLL_BATCH
    BY <1>2 DEF RowsSince
  <2>5. Cardinality(below(a)) < POLL_BATCH
    BY <2>3, <2>4, LogBounds
  <2> QED BY <1>2, <2>5 DEF RowsSince
<1> QED BY <1>1, <1>2

\* Transactions do not depend on the polls.
LEMMA WritesKept == WritesInv /\ UNCHANGED <<dbVars, txVars>> => WritesInv'
<1> SUFFICES ASSUME WritesInv, UNCHANGED <<dbVars, txVars>> PROVE WritesInv'
  OBVIOUS
<1>1. UNCHANGED <<records, log, nextId, late, pc, tx>>
  BY DEF dbVars, txVars
<1>2. \A w \in Writer : Shape(w, pc'[w], tx'[w])
  BY <1>1 DEF WritesInv
<1>3. LocksApart' /\ DeleterSees' /\ IdsDrawn' /\ LogBehind'
  BY <1>1 DEF WritesInv, LocksApart, DeleterSees, IdsDrawn, LogBehind, CommittedIds
<1>4. LogReplays'
  BY <1>1 DEF WritesInv, LogReplays, Last
<1> QED BY <1>2, <1>3, <1>4 DEF WritesInv

LEMMA PollReadInv == ASSUME Inv, NEW i \in Instance, PollRead(i) PROVE Inv'
<1>1. PICK p \in Slot :
        /\ fetched[i][p] = {} /\ fetched' = [fetched EXCEPT ![i][p] = RowsSince(cursor[i])]
  BY DEF PollRead
<1>2. UNCHANGED <<records, log, nextId, late, pc, tx, cursor, start, seen>>
  BY DEF PollRead, dbVars, txVars
<1>3. /\ IsFiniteSet(log) /\ log \subseteq Action /\ cursor[i] \in Nat
      /\ fetched \in [Instance -> [Slot -> SUBSET Action]] /\ start[i] \in Nat
  BY LogBounds DEF Inv, TypeOK, PollsInv, PollsComplete
<1> DEFINE rows == RowsSince(cursor[i])
<1>4. rows \subseteq log
      /\ \A x \in rows, a \in log : cursor[i] < a.id /\ a.id <= x.id => a \in rows
  BY <1>3, RowsComplete
<1> HIDE DEF rows
<1>5. fetched' = [fetched EXCEPT ![i][p] = rows]
  BY <1>1 DEF rows
<1>6. rows \subseteq Action
  BY <1>3, <1>4
<1>7. TypeOK'
  BY <1>2, <1>3, <1>5, <1>6 DEF Inv, TypeOK
<1>8. WritesInv'
  BY WritesKept DEF Inv, PollRead
<1>9. ASSUME NEW j \in Instance, NEW s \in Slot
      PROVE  /\ fetched'[j][s] \subseteq log
             /\ \A x \in fetched'[j][s] : \A a \in log :
                  start[j] < a.id /\ a.id <= x.id =>
                    a \in seen[j] \union fetched'[j][s] \/ a.id \in late
  <2>1. CASE j = i /\ s = p
    <3>1. fetched'[j][s] = rows
      BY <1>3, <1>5, <2>1
    <3>2. ASSUME NEW x \in rows, NEW a \in log, start[i] < a.id, a.id <= x.id
          PROVE  a \in seen[i] \union rows \/ a.id \in late
      <4>1. a.id \in Nat
        BY <1>3, LogBounds DEF Action, Ids
      <4>2. CASE cursor[i] < a.id
        BY <1>4, <3>2, <4>2
      <4>3. CASE a.id <= cursor[i]
        BY <3>2, <4>3 DEF Inv, PollsInv, OnlyLateIsSkipped, Skipped
      <4> QED BY <1>3, <4>1, <4>2, <4>3
    <3> QED BY <1>4, <2>1, <3>1, <3>2
  <2>2. CASE ~(j = i /\ s = p)
    <3>1. fetched'[j][s] = fetched[j][s]
      BY <1>3, <1>5, <2>2
    <3> QED BY <3>1 DEF Inv, PollsInv, PollsComplete
  <2> QED BY <2>1, <2>2
<1>10. PollsComplete'
  BY <1>2, <1>9 DEF Inv, PollsInv, PollsComplete, CommittedIds
<1>11. OnlyLateIsSkipped'
  BY <1>2 DEF Inv, PollsInv, OnlyLateIsSkipped, Skipped
<1> QED BY <1>7, <1>8, <1>10, <1>11 DEF Inv, PollsInv

LEMMA PollIngestInv == ASSUME Inv, NEW i \in Instance, PollIngest(i) PROVE Inv'
<1>1. PICK p \in Slot :
        /\ fetched' = [fetched EXCEPT ![i][p] = {}]
        /\ \E x \in fetched[i][p] : cursor' = [cursor EXCEPT ![i] = x.id]
        /\ seen' = [seen EXCEPT ![i] = @ \union fetched[i][p]]
  BY DEF PollIngest
<1>2. PICK x \in fetched[i][p] : cursor' = [cursor EXCEPT ![i] = x.id]
  BY <1>1
<1>3. UNCHANGED <<records, log, nextId, late, pc, tx, start>>
  BY DEF PollIngest, dbVars, txVars
<1>4. /\ log \subseteq Action /\ fetched \in [Instance -> [Slot -> SUBSET Action]]
      /\ seen \in [Instance -> SUBSET Action] /\ cursor \in [Instance -> 0..MaxId]
      /\ fetched[i][p] \subseteq log
  BY DEF Inv, TypeOK, PollsInv, PollsComplete
<1>5. x \in log /\ x.id \in 0..MaxId /\ x.id \in CommittedIds
  BY <1>4, LogBounds DEF Action, Ids, CommittedIds
<1>6. fetched[i][p] \subseteq Action
  BY <1>4
<1>7. TypeOK'
  BY <1>1, <1>2, <1>3, <1>4, <1>5, <1>6 DEF Inv, TypeOK
<1>8. WritesInv'
  BY WritesKept DEF Inv, PollIngest
<1>9. /\ \A j \in Instance : seen[j] \subseteq seen'[j]
      /\ seen'[i] = seen[i] \union fetched[i][p]
      /\ \A j \in Instance : j # i => cursor'[j] = cursor[j]
      /\ cursor'[i] = x.id
  BY <1>1, <1>2, <1>4
<1>10. ASSUME NEW j \in Instance, NEW s \in Slot
       PROVE  /\ fetched'[j][s] \subseteq log
              /\ \A y \in fetched'[j][s] : \A a \in log :
                   start[j] < a.id /\ a.id <= y.id =>
                     a \in seen'[j] \union fetched'[j][s] \/ a.id \in late
  <2>1. CASE j = i /\ s = p
    BY <1>1, <1>4, <2>1
  <2>2. CASE ~(j = i /\ s = p)
    <3>1. fetched'[j][s] = fetched[j][s]
      BY <1>1, <1>4, <2>2
    <3> QED BY <1>9, <3>1 DEF Inv, PollsInv, PollsComplete
  <2> QED BY <2>1, <2>2
<1>11. \A j \in Instance : cursor'[j] \in CommittedIds \union {0}
  BY <1>5, <1>9 DEF Inv, PollsInv, PollsComplete
<1>12. PollsComplete'
  BY <1>3, <1>10, <1>11 DEF Inv, PollsInv, PollsComplete, CommittedIds
<1>13. OnlyLateIsSkipped'
  <2> SUFFICES ASSUME NEW j \in Instance, NEW a \in log, start[j] < a.id, a.id <= cursor'[j],
                      a \notin seen'[j]
               PROVE  a.id \in late
    BY <1>3 DEF OnlyLateIsSkipped, Skipped
  <2>1. CASE j = i
    BY <1>9, <2>1 DEF Inv, PollsInv, PollsComplete
  <2>2. CASE j # i
    BY <1>9, <2>2 DEF Inv, PollsInv, OnlyLateIsSkipped, Skipped
  <2> QED BY <2>1, <2>2
<1> QED BY <1>7, <1>8, <1>12, <1>13 DEF Inv, PollsInv

\* A new poller starts at the end of the log: it has nothing behind it.
LEMMA RestartInv == ASSUME Inv, NEW i \in Instance, Restart(i) PROVE Inv'
<1>1. PICK c \in Ids \union {0} :
        /\ c # 0 => c \in CommittedIds
        /\ cursor' = [cursor EXCEPT ![i] = c] /\ start' = [start EXCEPT ![i] = c]
  BY DEF Restart
<1>2. /\ fetched' = [fetched EXCEPT ![i] = [s \in Slot |-> {}]]
      /\ seen' = [seen EXCEPT ![i] = {}]
      /\ UNCHANGED <<records, log, nextId, late, pc, tx>>
  BY DEF Restart, dbVars, txVars
<1>3. /\ fetched \in [Instance -> [Slot -> SUBSET Action]]
      /\ seen \in [Instance -> SUBSET Action] /\ c \in 0..MaxId
      /\ cursor \in [Instance -> 0..MaxId] /\ start \in [Instance -> 0..MaxId]
  BY LogBounds DEF Inv, TypeOK, Ids
<1>4. TypeOK'
  BY <1>1, <1>2, <1>3 DEF Inv, TypeOK
<1>5. WritesInv'
  BY WritesKept DEF Inv, Restart
<1>6. /\ cursor'[i] = c /\ start'[i] = c /\ \A s \in Slot : fetched'[i][s] = {}
      /\ \A j \in Instance : j # i =>
           /\ cursor'[j] = cursor[j] /\ start'[j] = start[j]
           /\ fetched'[j] = fetched[j] /\ seen'[j] = seen[j]
  BY <1>1, <1>2, <1>3
<1>7. PollsComplete'
  <2>1. ASSUME NEW j \in Instance
        PROVE  /\ cursor'[j] \in CommittedIds \union {0}
               /\ \A s \in Slot :
                    /\ fetched'[j][s] \subseteq log
                    /\ \A x \in fetched'[j][s] : \A a \in log :
                         start'[j] < a.id /\ a.id <= x.id =>
                           a \in seen'[j] \union fetched'[j][s] \/ a.id \in late
    <3>1. CASE j = i
      BY <1>1, <1>6, <3>1
    <3>2. CASE j # i
      BY <1>6, <3>2 DEF Inv, PollsInv, PollsComplete
    <3> QED BY <3>1, <3>2
  <2> QED BY <1>2, <2>1 DEF Inv, PollsInv, PollsComplete, CommittedIds
<1>8. OnlyLateIsSkipped'
  <2> SUFFICES ASSUME NEW j \in Instance, NEW a \in log, start'[j] < a.id, a.id <= cursor'[j],
                      a \notin seen'[j]
               PROVE  a.id \in late
    BY <1>2 DEF OnlyLateIsSkipped, Skipped
  <2>1. CASE j = i
    <3>1. a.id \in Nat
      BY LogBounds DEF Inv, TypeOK, Action, Ids
    <3> QED BY <1>3, <1>6, <2>1, <3>1
  <2>2. CASE j # i
    BY <1>6, <2>2 DEF Inv, PollsInv, OnlyLateIsSkipped, Skipped
  <2> QED BY <2>1, <2>2
<1> QED BY <1>4, <1>5, <1>7, <1>8 DEF Inv, PollsInv

-----------------------------------------------------------------------------
(* The theorems *)

LEMMA NextInv == Inv /\ [Next]_vars => Inv'
<1> SUFFICES ASSUME Inv, [Next]_vars PROVE Inv'
  OBVIOUS
<1>1. ASSUME NEW w \in Writer, Publish(w) PROVE Inv'
  BY <1>1, BeginInv, ReadDeleteInv, DiffedInv, WriteInv, AllocateIdsInv, CommitInv, AbortInv
     DEF Publish
<1>2. ASSUME NEW i \in Instance, PollRead(i) \/ PollIngest(i) \/ Restart(i) PROVE Inv'
  BY <1>2, PollReadInv, PollIngestInv, RestartInv
<1>3. CASE UNCHANGED vars
  <2>1. UNCHANGED <<dbVars, txVars, pollVars>>
    BY <1>3 DEF vars
  <2>2. WritesInv' /\ PollsInv'
    BY <2>1, WritesKept, PollsKept DEF Inv, dbVars
  <2>3. TypeOK'
    BY <2>1 DEF Inv, TypeOK, dbVars, txVars, pollVars
  <2> QED BY <2>2, <2>3 DEF Inv
<1> QED BY <1>1, <1>2, <1>3 DEF Next

\* The inductive invariant holds whatever transactions and polls do.
THEOREM Invariance == Spec => []Inv
  BY InitInv, NextInv, PTL DEF Spec

\* Rows, actions, transactions and polls stay in their types.
THEOREM TypeCorrect == Spec => []TypeOK
<1>1. Inv => TypeOK
  BY DEF Inv
<1> QED BY <1>1, Invariance, PTL

\* publishSyncMutations: however its transactions interleave and roll back,
\* replaying sync_action in the order of the ids gives sync_record, for every
\* record that one process only deletes.
THEOREM LogIsReplayable == Spec => []LogReplays
<1>1. Inv => LogReplays
  BY DEF Inv, WritesInv
<1> QED BY <1>1, Invariance, PTL

\* poll: however polls overlap and finish, a poller passes over no action but
\* one that was committed after an action with a higher id.
THEOREM OnlyLateSkipped == Spec => []OnlyLateIsSkipped
<1>1. Inv => OnlyLateIsSkipped
  BY DEF Inv, PollsInv
<1> QED BY <1>1, Invariance, PTL

=============================================================================
