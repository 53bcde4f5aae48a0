---------------------------- MODULE TokensProofs ----------------------------
(***************************************************************************)
(* Proofs about Tokens, for any number of calls, any pool and any bounds:  *)
(* type correctness (which includes that the pool is never overdrawn and   *)
(* that one call at a time is past the advisory lock), that a rotated      *)
(* refresh token is never dropped, and that a flag means a dead one.  At   *)
(* the end, about Links: that what linking stores in a row is whole.       *)
(***************************************************************************)
EXTENDS Tokens, FiniteSetTheorems, TLAPS

\* The connections in use, as two finite sets: entering one costs a free one.
InPool == {c \in Call : pc[c] \in InTx \union {"marking"}}
PoolFinite == IsFiniteSet(InPool) /\ IsFiniteSet(sent)

\* Nobody has a token or a generation that the provider has not given out.
GivenOut ==
  /\ \A g \in Grant : last[g] < issued
  /\ row.cred.tok.n <= issued /\ row.cred.ref.gen <= last[row.cred.ref.grant]
  /\ \A c \in Call : cred[c].tok.n <= issued /\ cred[c].ref.gen <= last[cred[c].ref.grant]

\* Until its write is made, a driver goes on with the tokens it sent off.
SendsItsOwn ==
  \A c \in Call : pending[c].some => pc[c] \in {"use", "idle"} /\ pending[c].cred = cred[c]

\* As long as nothing crossed, who carries new tokens is alone, and ahead of the row.
CarriersAlone ==
  ~crossed => \A c \in Carriers :
    Carriers \union Holders \subseteq {c} /\ row.cred.tok.n < cred[c].tok.n

\* ... and the credential a call acts on is the row's, or one that replaced it.
SameGrant ==
  ~crossed => \A c \in Carriers \union Holders :
    /\ cred[c].ref.grant = row.cred.ref.grant
    /\ \/ cred[c].ref = row.cred.ref
       \/ rotates /\ row.cred.ref.gen < last[row.cred.ref.grant]

\* ... and who is about to set the flag was refused.
Refused ==
  ~crossed => \A c \in Call :
    pc[c] \in {"flag", "log", "mark", "marking"} => ~RefLives(cred[c].ref)

\* ... and the last refresh token is in the row or on its way there.
LastKept ==
  ~crossed /\ faults = 0 /\ rotates =>
    \/ row.cred.ref.gen = last[row.cred.ref.grant]
    \/ \E c \in Carriers : cred[c].ref.gen = last[cred[c].ref.grant]

\* The advisory lock has one owner at most.
OneOwner == lock = {} \/ \E c \in Call : lock = {c}

CredInv ==
  /\ GivenOut /\ SendsItsOwn /\ CarriersAlone /\ SameGrant /\ Refused /\ LastKept
  /\ FlagMeansDead
Inv == TypeOK /\ PoolFinite /\ OneOwner /\ CredInv

-----------------------------------------------------------------------------
(* The type invariant in parts, and the sets of steps *)

PoolSteps == {"lock", "reread", "exchange", "update", "flag", "log", "commit", "marking"}
LockSteps == {"reread", "exchange", "update", "flag", "log", "commit"}
HoldSteps == {"exchange", "update", "flag", "log", "commit", "use", "mark", "marking"}
FlagSteps == {"flag", "log", "mark", "marking"}
Steps == PoolSteps \union {"idle", "begin", "use", "mark"}

DataOK ==
  /\ rotates \in BOOLEAN /\ grants \subseteq Grant /\ last \in [Grant -> 0..MaxIssue]
  /\ issued \in 0..MaxIssue /\ expired \in 0..issued
  /\ row \in [cred : Cred, status : Statuses]
  /\ cred \in [Call -> Cred]
  /\ pending \in [Call -> [some : BOOLEAN, cred : Cred]]
  /\ sent \subseteq {c \in Call : pending[c].some}
  /\ faults \in 0..MaxFaults /\ crossed \in BOOLEAN
StepsOK ==
  /\ pc \in [Call -> Steps] /\ PoolFinite /\ InUse <= POOL
  /\ OneOwner /\ \A c \in Call : pc[c] \in LockSteps => c \in lock

LEMMA Bounds ==
  POOL \in Nat \ {0} /\ MaxGrant \in Nat \ {0} /\ MaxIssue \in Nat \ {0} /\ MaxFaults \in Nat
  BY TokensAssumption

LEMMA StepSets ==
  /\ InTx \union {"marking"} = PoolSteps /\ InTx \ {"lock"} = LockSteps
  /\ InPool = {c \in Call : pc[c] \in PoolSteps}
  /\ Holders = {c \in Call : pc[c] \in HoldSteps}
  BY DEF InTx, PoolSteps, LockSteps, HoldSteps, Holders, InPool

LEMMA InUseIs == InUse = Cardinality(InPool) + Cardinality(sent)
  BY DEF InUse, InPool

LEMMA OwnerCount == OneOwner => lock \subseteq Call /\ Cardinality(lock) <= 1
<1> SUFFICES ASSUME OneOwner PROVE lock \subseteq Call /\ Cardinality(lock) <= 1
  OBVIOUS
<1>1. CASE lock = {}
  BY <1>1, FS_EmptySet
<1>2. ASSUME NEW c \in Call, lock = {c} PROVE lock \subseteq Call /\ Cardinality(lock) <= 1
  <2>1. Cardinality({c}) = 1
    BY FS_Singleton
  <2> QED BY <1>2, <2>1
<1> QED BY <1>1, <1>2 DEF OneOwner

LEMMA Parts == TypeOK /\ PoolFinite /\ OneOwner <=> DataOK /\ StepsOK
<1>1. InTx \union {"idle", "begin", "use", "mark", "marking"} = Steps
  BY DEF InTx, Steps, PoolSteps
<1>2. (\A c \in Call : pc[c] \in InTx \ {"lock"} => c \in lock)
        <=> (\A c \in Call : pc[c] \in LockSteps => c \in lock)
  BY StepSets
<1> QED BY <1>1, <1>2, OwnerCount DEF TypeOK, DataOK, StepsOK

-----------------------------------------------------------------------------
(* The pool and the lock *)

\* A call takes a step: who enters the pool finds a free connection, and who
\* goes past the lock owns it.
LEMMA StepsMove ==
  ASSUME StepsOK, NEW c \in Call, NEW step \in Steps, pc' = [pc EXCEPT ![c] = step], sent' = sent,
         step \in PoolSteps => pc[c] \in PoolSteps \/ Free,
         \/ lock' = lock /\ (step \in LockSteps => c \in lock)
         \/ lock' = {} /\ c \in lock /\ step \notin LockSteps
         \/ lock = {} /\ lock' = {c}
  PROVE  StepsOK'
<1>1. pc \in [Call -> Steps] /\ IsFiniteSet(InPool) /\ IsFiniteSet(sent) /\ InUse <= POOL
  BY DEF StepsOK, PoolFinite
<1>2. pc' \in [Call -> Steps] /\ pc'[c] = step /\ \A d \in Call : d # c => pc'[d] = pc[d]
  BY <1>1
<1>3. InPool = {d \in Call : pc[d] \in PoolSteps} /\ InPool' = {d \in Call : pc'[d] \in PoolSteps}
  BY DEF InPool, InTx, PoolSteps
<1>4. Cardinality(InPool) \in Nat /\ Cardinality(sent) \in Nat
  BY <1>1, FS_CardinalityType
<1>5. InUse = Cardinality(InPool) + Cardinality(sent)
      /\ InUse' = Cardinality(InPool') + Cardinality(sent)
  BY InUseIs DEF InUse, InPool
<1>6. IsFiniteSet(InPool') /\ InUse' <= POOL
  <2>1. CASE step \notin PoolSteps \/ pc[c] \in PoolSteps
    <3>1. InPool' \subseteq InPool
      BY <1>2, <1>3, <2>1
    <3>2. IsFiniteSet(InPool') /\ Cardinality(InPool') <= Cardinality(InPool)
      BY <1>1, <3>1, FS_Subset
    <3>3. Cardinality(InPool') \in Nat
      BY <3>2, FS_CardinalityType
    <3> QED BY <1>1, <1>4, <1>5, <3>2, <3>3, Bounds
  <2>2. CASE step \in PoolSteps /\ pc[c] \notin PoolSteps
    <3>1. InPool' = InPool \union {c} /\ c \notin InPool
      BY <1>2, <1>3, <2>2
    <3>2. IsFiniteSet(InPool') /\ Cardinality(InPool') = Cardinality(InPool) + 1
      BY <1>1, <3>1, FS_AddElement
    <3>3. InUse < POOL
      BY <2>2 DEF Free
    <3> QED BY <1>4, <1>5, <3>2, <3>3, Bounds
  <2> QED BY <2>1, <2>2
<1>7. PoolFinite'
  BY <1>1, <1>6 DEF PoolFinite
<1>8. OneOwner' /\ \A d \in Call : pc'[d] \in LockSteps => d \in lock'
  BY <1>2 DEF StepsOK, OneOwner
<1> QED BY <1>2, <1>6, <1>7, <1>8 DEF StepsOK

\* A pending write gets a connection, or gives it back.
LEMMA SentMoves ==
  ASSUME StepsOK, NEW c \in Call, UNCHANGED <<pc, lock>>,
         \/ sent' = sent \ {c}
         \/ sent' = sent \union {c} /\ c \notin sent /\ Free
  PROVE  StepsOK'
<1>1. IsFiniteSet(InPool) /\ IsFiniteSet(sent) /\ InUse <= POOL
  BY DEF StepsOK, PoolFinite
<1>2. Cardinality(InPool) \in Nat /\ Cardinality(sent) \in Nat
  BY <1>1, FS_CardinalityType
<1>3. InPool' = InPool
  BY DEF InPool
<1>4. InUse = Cardinality(InPool) + Cardinality(sent)
      /\ InUse' = Cardinality(InPool) + Cardinality(sent')
  BY <1>3, InUseIs DEF InUse, InPool
<1>5. IsFiniteSet(sent') /\ InUse' <= POOL
  <2>1. CASE sent' = sent \ {c}
    <3>1. IsFiniteSet(sent') /\ Cardinality(sent') <= Cardinality(sent)
      BY <1>1, <2>1, FS_Subset
    <3>2. Cardinality(sent') \in Nat
      BY <3>1, FS_CardinalityType
    <3> QED BY <1>1, <1>2, <1>4, <3>1, <3>2, Bounds
  <2>2. CASE sent' = sent \union {c} /\ c \notin sent /\ Free
    <3>1. IsFiniteSet(sent') /\ Cardinality(sent') = Cardinality(sent) + 1
      BY <1>1, <2>2, FS_AddElement
    <3> QED BY <1>2, <1>4, <2>2, <3>1, Bounds DEF Free
  <2> QED BY <2>1, <2>2
<1> QED BY <1>1, <1>3, <1>5 DEF StepsOK, PoolFinite, OneOwner

LEMMA StepsKept == StepsOK /\ UNCHANGED <<pc, lock, sent>> => StepsOK'
  BY DEF StepsOK, PoolFinite, OneOwner, InPool, InUse

-----------------------------------------------------------------------------
(* The credential *)

LEMMA RowTyped ==
  ASSUME DataOK
  PROVE  /\ row.cred \in Cred /\ row.cred.ref \in Ref /\ row.cred.tok \in Tok
         /\ row.cred.ref.grant \in Grant /\ row.cred.ref.gen \in Nat /\ row.cred.tok.n \in Nat
         /\ \A c \in Call : /\ cred[c] \in Cred /\ cred[c].ref \in Ref /\ cred[c].tok \in Tok
                            /\ cred[c].ref.grant \in Grant /\ cred[c].ref.gen \in Nat
                            /\ cred[c].tok.n \in Nat
         /\ \A g \in Grant : last[g] \in Nat
         /\ issued \in Nat
  BY Bounds DEF DataOK, Cred, Ref, Tok

\* A step of a call that keeps what it holds, or lets go of it.
LEMMA QuietStep ==
  ASSUME CredInv, StepsOK, NEW c \in Call, NEW step \in Steps, pc' = [pc EXCEPT ![c] = step],
         UNCHANGED <<rotates, grants, last, issued, row, cred, pending, crossed>>,
         faults' = 0 => faults = 0,
         pc[c] # "update" /\ step # "update",
         step \in HoldSteps => pc[c] \in HoldSteps,
         pending[c].some => step \in {"use", "idle"},
         step \in FlagSteps => pc[c] \in FlagSteps \/ ~RefLives(cred[c].ref)
  PROVE  CredInv'
<1>1. pc'[c] = step /\ \A d \in Call : d # c => pc'[d] = pc[d]
  BY DEF StepsOK
<1>2. Carriers' = Carriers
  BY <1>1 DEF Carriers
<1>3. Holders' \subseteq Holders
  <2>1. Holders = {d \in Call : pc[d] \in HoldSteps}
        /\ Holders' = {d \in Call : pc'[d] \in HoldSteps}
    BY DEF Holders, HoldSteps, InTx
  <2> QED BY <1>1, <2>1
<1>4. GivenOut' /\ FlagMeansDead' /\ LastKept'
  BY <1>2 DEF CredInv, GivenOut, FlagMeansDead, RefLives, LastKept
<1>5. SendsItsOwn'
  BY <1>1 DEF CredInv, SendsItsOwn
<1>6. CarriersAlone' /\ SameGrant'
  BY <1>2, <1>3 DEF CredInv, CarriersAlone, SameGrant
<1>7. Refused'
  BY <1>1 DEF CredInv, Refused, RefLives, FlagSteps
<1> QED BY <1>4, <1>5, <1>6, <1>7 DEF CredInv

\* A call reads the row: nobody was changing it, or something has crossed.
LEMMA ReadStep ==
  ASSUME CredInv, DataOK, StepsOK, NEW c \in Call, NEW step \in Steps,
         pc' = [pc EXCEPT ![c] = step], cred' = [cred EXCEPT ![c] = row.cred],
         UNCHANGED <<rotates, grants, last, issued, row, pending, faults>>,
         crossed' = (crossed \/ Carriers # {}),
         pc[c] # "update" /\ step # "update" /\ step \notin FlagSteps /\ ~pending[c].some
  PROVE  CredInv'
<1>1. pc'[c] = step /\ \A d \in Call : d # c => pc'[d] = pc[d]
  BY DEF StepsOK
<1>2. cred'[c] = row.cred /\ \A d \in Call : d # c => cred'[d] = cred[d]
  BY DEF DataOK
<1>3. Carriers' = Carriers
  BY <1>1 DEF Carriers
<1>4. Holders' \subseteq Holders \union {c}
  <2>1. Holders = {d \in Call : pc[d] \in HoldSteps}
        /\ Holders' = {d \in Call : pc'[d] \in HoldSteps}
    BY DEF Holders, HoldSteps, InTx
  <2> QED BY <1>1, <2>1
<1>5. GivenOut'
  BY <1>2 DEF CredInv, GivenOut
<1>6. SendsItsOwn'
  BY <1>1, <1>2 DEF CredInv, SendsItsOwn
<1>7. ~crossed' => ~crossed /\ Carriers = {}
  OBVIOUS
<1>8. CarriersAlone' /\ LastKept' /\ FlagMeansDead'
  BY <1>3, <1>7 DEF CredInv, CarriersAlone, LastKept, FlagMeansDead, RefLives
<1>9. SameGrant'
  <2> SUFFICES ASSUME ~crossed', NEW d \in Carriers' \union Holders'
               PROVE  /\ cred'[d].ref.grant = row.cred.ref.grant
                      /\ \/ cred'[d].ref = row.cred.ref
                         \/ rotates /\ row.cred.ref.gen < last[row.cred.ref.grant]
    BY DEF SameGrant
  <2>1. CASE d = c
    BY <1>2, <2>1
  <2>2. CASE d # c
    <3>1. d \in Holders /\ cred'[d] = cred[d]
      BY <1>2, <1>3, <1>4, <1>7, <2>2 DEF Holders
    <3> QED BY <1>7, <3>1 DEF CredInv, SameGrant
  <2> QED BY <2>1, <2>2
<1>10. Refused'
  <2> SUFFICES ASSUME ~crossed', NEW d \in Call, pc'[d] \in FlagSteps
               PROVE  ~RefLives(cred[d].ref)'
    BY DEF Refused, FlagSteps
  <2>1. d # c /\ pc[d] \in FlagSteps /\ cred'[d] = cred[d]
    BY <1>1, <1>2
  <2>2. ~RefLives(cred[d].ref)
    BY <1>7, <2>1 DEF CredInv, Refused, FlagSteps
  <2> QED BY <2>1, <2>2 DEF RefLives
<1> QED BY <1>5, <1>6, <1>8, <1>9, <1>10 DEF CredInv

\* A call exchanges its refresh token for new tokens.
LEMMA NewTokensStep ==
  ASSUME CredInv, DataOK, StepsOK, NEW c \in Call, ~pending[c].some,
         RefLives(cred[c].ref), issued' = issued + 1,
         last' = [last EXCEPT ![cred[c].ref.grant] = IF rotates THEN @ + 1 ELSE @],
         cred' = [cred EXCEPT ![c] = NewCred(c)],
         crossed' = (crossed \/ Carriers \union (Holders \ {c}) # {}),
         UNCHANGED <<rotates, grants, row, faults>>,
         pc[c] \in HoldSteps \ {"update"},
         \/ pc' = [pc EXCEPT ![c] = "update"] /\ pending' = pending
         \/ /\ pc' = [pc EXCEPT ![c] = "use"]
            /\ pending' = [pending EXCEPT ![c] = [some |-> TRUE, cred |-> cred'[c]]]
  PROVE  CredInv'
<1> DEFINE g == cred[c].ref.grant
           new == NewCred(c)
<1>1. /\ pc'[c] \in {"update", "use"} /\ \A d \in Call : d # c => pc'[d] = pc[d]
      /\ \A d \in Call : d # c => pending'[d] = pending[d] /\ cred'[d] = cred[d]
      /\ cred'[c] = new
  BY DEF StepsOK, DataOK
<1>2. /\ g \in Grant /\ last[g] \in Nat /\ issued \in Nat
      /\ last'[g] = IF rotates THEN last[g] + 1 ELSE last[g]
      /\ \A h \in Grant : last'[h] \in Nat /\ last'[h] \in {last[h], last[h] + 1} /\ (h # g => last'[h] = last[h])
  <2>1. g \in Grant /\ issued \in Nat /\ \A h \in Grant : last[h] \in Nat
    BY RowTyped
  <2>2. last' = [last EXCEPT ![g] = IF rotates THEN last[g] + 1 ELSE last[g]]
    OBVIOUS
  <2> HIDE DEF g
  <2> QED BY <2>1, <2>2 DEF DataOK
<1>3. /\ new.tok.n = issued + 1 /\ new.ref.grant = g
      /\ new.ref.gen = IF rotates THEN last[g] + 1 ELSE cred[c].ref.gen
      /\ ~rotates => new.ref = cred[c].ref
  BY DEF NewCred
<1> HIDE DEF g, new
<1>4. GivenOut'
  <2>1. \A h \in Grant : last'[h] < issued'
    BY <1>2 DEF CredInv, GivenOut
  <2>2. row.cred.tok.n <= issued' /\ row.cred.ref.gen <= last'[row.cred.ref.grant]
    BY <1>2, RowTyped DEF CredInv, GivenOut
  <2>3. ASSUME NEW d \in Call
        PROVE  cred'[d].tok.n <= issued' /\ cred'[d].ref.gen <= last'[cred'[d].ref.grant]
    <3>1. CASE d = c
      BY <1>1, <1>2, <1>3, <3>1, RowTyped DEF CredInv, GivenOut, g
    <3>2. CASE d # c
      BY <1>1, <1>2, <3>2, RowTyped DEF CredInv, GivenOut
    <3> QED BY <3>1, <3>2
  <2> QED BY <2>1, <2>2, <2>3 DEF GivenOut
<1>5. SendsItsOwn'
  <2> SUFFICES ASSUME NEW d \in Call, pending'[d].some
               PROVE  pc'[d] \in {"use", "idle"} /\ pending'[d].cred = cred'[d]
    BY DEF SendsItsOwn
  <2>1. CASE d # c
    BY <1>1, <2>1 DEF CredInv, SendsItsOwn
  <2>2. CASE d = c
    <3>1. pc' = [pc EXCEPT ![c] = "use"]
          /\ pending' = [pending EXCEPT ![c] = [some |-> TRUE, cred |-> cred'[c]]]
      BY <2>2
    <3> QED BY <2>2, <3>1 DEF DataOK, StepsOK
  <2> QED BY <2>1, <2>2
<1>6. CASE crossed'
  BY <1>4, <1>5, <1>6
     DEF CredInv, CarriersAlone, SameGrant, Refused, LastKept, FlagMeansDead
<1>7. CASE ~crossed'
  <2>1. ~crossed /\ Carriers = {} /\ Holders \subseteq {c} /\ c \in Holders
    BY <1>7, StepSets
  <2>2. Carriers' = {c}
    <3>1. c \in Carriers'
      BY <1>1 DEF Carriers, DataOK, StepsOK
    <3>2. \A d \in Call : d # c => d \notin Carriers'
      BY <1>1, <2>1 DEF Carriers
    <3> QED BY <3>1, <3>2 DEF Carriers
  <2>3. \A d \in Call : d # c => pc'[d] = pc[d] /\ pc[d] \notin HoldSteps
    BY <1>1, <2>1, StepSets
  <2>4. Holders' \subseteq {c}
    <3>1. Holders' = {d \in Call : pc'[d] \in HoldSteps}
      BY DEF Holders, HoldSteps, InTx
    <3> QED BY <2>3, <3>1
  <2>5. /\ g = row.cred.ref.grant
        /\ \/ cred[c].ref = row.cred.ref
           \/ rotates /\ row.cred.ref.gen < last[g]
    <3>1. cred[c].ref.grant = row.cred.ref.grant
          /\ \/ cred[c].ref = row.cred.ref
             \/ rotates /\ row.cred.ref.gen < last[row.cred.ref.grant]
      BY <2>1 DEF CredInv, SameGrant
    <3> QED BY <3>1 DEF g
  <2>6. row.cred.tok.n < new.tok.n /\ row.cred.ref.gen \in Nat /\ row.cred.ref.gen <= last[g]
    BY <1>2, <1>3, <2>5, RowTyped DEF CredInv, GivenOut
  <2>7. CarriersAlone'
    BY <1>1, <2>2, <2>4, <2>6 DEF CarriersAlone
  <2>8. rotates => row.cred.ref.gen < last'[g]
    BY <1>2, <2>6
  <2>9. SameGrant'
    BY <1>1, <1>3, <2>2, <2>4, <2>5, <2>8 DEF SameGrant
  <2>10. Refused'
    BY <1>1, <2>3 DEF Refused, FlagSteps, HoldSteps
  <2>11. LastKept'
    BY <1>1, <1>2, <1>3, <2>2 DEF LastKept
  <2>12. FlagMeansDead'
    <3>1. rotates => ~RefLives(row.cred.ref)'
      BY <1>2, <2>5, <2>6, <2>8 DEF RefLives
    <3>2. ~rotates /\ ~RefLives(row.cred.ref) => ~RefLives(row.cred.ref)'
      BY DEF RefLives
    <3> QED BY <2>1, <3>1, <3>2 DEF CredInv, FlagMeansDead
  <2> QED BY <1>4, <1>5, <2>7, <2>9, <2>10, <2>11, <2>12 DEF CredInv
<1> QED BY <1>6, <1>7 DEF DataOK

\* Who carries new tokens writes them to the row; without rotation the row may
\* keep its refresh token, which is the same.
LEMMA WriteStep ==
  ASSUME CredInv, DataOK, StepsOK, NEW c \in Carriers,
         UNCHANGED <<rotates, grants, last, issued, cred, faults, crossed>>,
         row'.cred = cred[c] \/ (~rotates /\ row'.cred = [tok |-> cred[c].tok, ref |-> row.cred.ref]),
         row'.status = "active",
         \A d \in Call : pc'[d] \in HoldSteps => pc[d] \in HoldSteps \/ d = c,
         \A d \in Call : pc'[d] \in FlagSteps => pc[d] \in FlagSteps,
         Carriers' = Carriers \ {c},
         SendsItsOwn'
  PROVE  CredInv'
<1>1. c \in Call
  BY DEF Carriers
<1>2. GivenOut'
  BY <1>1 DEF CredInv, GivenOut
<1>3. Refused'
  BY DEF CredInv, Refused, RefLives, FlagSteps
<1>4. FlagMeansDead'
  BY DEF FlagMeansDead
<1>5. CASE crossed
  BY <1>2, <1>3, <1>4, <1>5 DEF CredInv, CarriersAlone, SameGrant, LastKept
<1>6. CASE ~crossed
  <2>1. Carriers = {c} /\ Holders \subseteq {c} /\ Carriers' = {}
    BY <1>6 DEF CredInv, CarriersAlone
  <2>2. Holders' \subseteq {c}
    <3>1. Holders = {d \in Call : pc[d] \in HoldSteps}
          /\ Holders' = {d \in Call : pc'[d] \in HoldSteps}
      BY DEF Holders, HoldSteps, InTx
    <3> QED BY <2>1, <3>1
  <2>3. /\ cred[c].ref.grant = row.cred.ref.grant
        /\ \/ cred[c].ref = row.cred.ref
           \/ rotates /\ row.cred.ref.gen < last[row.cred.ref.grant]
    BY <1>6, <2>1 DEF CredInv, SameGrant
  <2>4. row'.cred.ref = cred[c].ref
    BY <2>3
  <2>5. CarriersAlone' /\ SameGrant'
    BY <2>1, <2>2, <2>4 DEF CarriersAlone, SameGrant
  <2>6. LastKept'
    <3> SUFFICES ASSUME faults = 0, rotates
                 PROVE  row'.cred.ref.gen = last[row'.cred.ref.grant]
      BY DEF LastKept
    <3>1. \/ row.cred.ref.gen = last[row.cred.ref.grant]
          \/ cred[c].ref.gen = last[cred[c].ref.grant]
      BY <1>6, <2>1 DEF CredInv, LastKept
    <3>2. row.cred.ref.gen = last[row.cred.ref.grant] => cred[c].ref = row.cred.ref
      BY <2>3, RowTyped
    <3> QED BY <2>4, <3>1, <3>2
  <2> QED BY <1>2, <1>3, <1>4, <2>5, <2>6 DEF CredInv
<1> QED BY <1>5, <1>6

\* A call that was refused flags the row, whose refresh token is dead too.
LEMMA FlagStep ==
  ASSUME CredInv, DataOK, StepsOK, NEW c \in Call, pc[c] \in FlagSteps, NEW step \in {"use", "idle"},
         pc' = [pc EXCEPT ![c] = step], row' = [row EXCEPT !.status = "reauth_required"],
         UNCHANGED <<rotates, grants, last, issued, cred, pending, faults, crossed>>
  PROVE  CredInv'
<1>1. pc'[c] = step /\ \A d \in Call : d # c => pc'[d] = pc[d]
  BY DEF StepsOK
<1>2. row'.cred = row.cred
  BY DEF DataOK
<1>3. Carriers' = Carriers
  BY <1>1 DEF Carriers, FlagSteps
<1>4. c \in Holders /\ Holders' \subseteq Holders
  <2>1. Holders = {d \in Call : pc[d] \in HoldSteps}
        /\ Holders' = {d \in Call : pc'[d] \in HoldSteps}
    BY DEF Holders, HoldSteps, InTx
  <2> QED BY <1>1, <2>1 DEF FlagSteps, HoldSteps
<1>5. GivenOut' /\ LastKept'
  BY <1>2, <1>3 DEF CredInv, GivenOut, LastKept
<1>6. SendsItsOwn'
  BY <1>1 DEF CredInv, SendsItsOwn
<1>7. CarriersAlone' /\ SameGrant'
  BY <1>2, <1>3, <1>4 DEF CredInv, CarriersAlone, SameGrant
<1>8. Refused'
  BY <1>1 DEF CredInv, Refused, RefLives
<1>9. FlagMeansDead'
  <2> SUFFICES ASSUME ~crossed PROVE ~RefLives(row.cred.ref)
    BY <1>2 DEF FlagMeansDead, RefLives
  <2>1. ~RefLives(cred[c].ref)
    BY DEF CredInv, Refused, FlagSteps
  <2>2. /\ cred[c].ref.grant = row.cred.ref.grant
        /\ \/ cred[c].ref = row.cred.ref
           \/ rotates /\ row.cred.ref.gen < last[row.cred.ref.grant]
    BY <1>4 DEF CredInv, SameGrant
  <2> QED BY <2>1, <2>2, RowTyped DEF RefLives
<1> QED BY <1>5, <1>6, <1>7, <1>8, <1>9 DEF CredInv

\* Consent gives a new grant, of which only the row knows.
LEMMA RelinkInv == ASSUME CredInv, DataOK, Relink PROVE CredInv' /\ DataOK'
<1>1. PICK g \in Grant :
        /\ \A h \in Grant : h >= g => last[h] = 0 /\ h \notin grants
        /\ issued < MaxIssue
        /\ grants' = grants \union {g} /\ issued' = issued + 1
        /\ row' = [cred |-> Linked(issued + 1, g), status |-> "active"]
  BY DEF Relink
<1>2. /\ crossed' = (crossed \/ Carriers \union Holders # {})
      /\ UNCHANGED <<rotates, last, expired, pc, cred, lock, pending, sent, faults>>
  BY DEF Relink, callVars
<1>3. /\ row'.cred.tok.n = issued + 1 /\ row'.cred.ref.grant = g /\ row'.cred.ref.gen = 0
      /\ row'.status = "active"
  BY <1>1 DEF Linked
<1>4. last[g] = 0
  BY <1>1, Bounds DEF Grant
<1>5. issued \in Nat /\ issued + 1 \in 0..MaxIssue /\ expired \in 0..(issued + 1)
  BY <1>1, Bounds DEF DataOK
<1>6. row' \in [cred : Cred, status : Statuses]
  BY <1>1, <1>5, Bounds DEF Linked, Cred, Tok, Ref, Statuses
<1>7. DataOK'
  BY <1>1, <1>2, <1>5, <1>6 DEF DataOK
<1>8. GivenOut'
  BY <1>1, <1>2, <1>3, <1>4, <1>5, RowTyped DEF CredInv, GivenOut
<1>9. SendsItsOwn'
  BY <1>2 DEF CredInv, SendsItsOwn
<1>10. Carriers' = Carriers /\ Holders' = Holders
  BY <1>2 DEF Carriers, Holders
<1>11. ~crossed' => ~crossed /\ Carriers = {} /\ Holders = {}
  BY <1>2
<1>12. CarriersAlone' /\ SameGrant'
  BY <1>10, <1>11 DEF CarriersAlone, SameGrant
<1>13. Refused'
  <2> SUFFICES ASSUME ~crossed', NEW c \in Call, pc[c] \in {"flag", "log", "mark", "marking"}
               PROVE  FALSE
    BY <1>2 DEF Refused
  <2>1. c \in Holders
    BY DEF Holders, InTx
  <2> QED BY <1>11, <2>1
<1>14. LastKept' /\ FlagMeansDead'
  BY <1>2, <1>3, <1>4 DEF LastKept, FlagMeansDead
<1> QED BY <1>7, <1>8, <1>9, <1>12, <1>13, <1>14 DEF CredInv

\* Time passes and consent is withdrawn: what was dead stays so.
LEMMA ProviderInv ==
  ASSUME CredInv, DataOK, Expire \/ Revoke PROVE CredInv' /\ DataOK'
<1>1. UNCHANGED <<rotates, last, issued, row, pc, cred, lock, pending, sent, faults, crossed>>
      /\ grants' \subseteq grants
  BY DEF Expire, Revoke, callVars
<1>2. DataOK'
  BY Bounds DEF DataOK, Expire, Revoke, callVars
<1>3. Carriers' = Carriers /\ Holders' = Holders
  BY <1>1 DEF Carriers, Holders
<1>4. GivenOut' /\ SendsItsOwn' /\ CarriersAlone' /\ SameGrant' /\ LastKept'
  BY <1>1, <1>3 DEF CredInv, GivenOut, SendsItsOwn, CarriersAlone, SameGrant, LastKept
<1>5. Refused' /\ FlagMeansDead'
  BY <1>1 DEF CredInv, Refused, FlagMeansDead, RefLives
<1> QED BY <1>2, <1>4, <1>5 DEF CredInv

-----------------------------------------------------------------------------
(* The actions *)

CoreInv == DataOK /\ StepsOK /\ CredInv

LEMMA CoreIsInv == Inv <=> CoreInv
  BY Parts DEF Inv, CoreInv

LEMMA InitInv == Init => CoreInv
<1> SUFFICES ASSUME Init PROVE CoreInv
  OBVIOUS
<1>1. Linked(1, 1) \in Cred /\ NoCred \in Cred
  BY Bounds DEF Linked, NoCred, Cred, Tok, Ref, Grant
<1>2. DataOK
  <2>1. rotates \in BOOLEAN /\ grants \subseteq Grant /\ last \in [Grant -> 0..MaxIssue]
    BY Bounds DEF Init, Grant
  <2>2. issued \in 0..MaxIssue /\ expired \in 0..issued /\ faults \in 0..MaxFaults
    BY Bounds DEF Init
  <2>5. crossed \in BOOLEAN
    BY DEF Init
  <2>3. row \in [cred : Cred, status : Statuses] /\ cred \in [Call -> Cred]
    BY <1>1 DEF Init, Statuses
  <2>4. pending \in [Call -> [some : BOOLEAN, cred : Cred]]
    BY <1>1 DEF Init, NoWrite
  <2> QED BY <2>1, <2>2, <2>3, <2>4, <2>5 DEF Init, DataOK
<1>3. InPool = {} /\ sent = {}
  BY DEF Init, InPool, InTx
<1>4. PoolFinite /\ InUse <= POOL
  BY <1>3, FS_EmptySet, InUseIs, Bounds DEF PoolFinite
<1>5. StepsOK
  BY <1>4 DEF Init, StepsOK, OneOwner, Steps, PoolSteps, LockSteps
<1>6. GivenOut /\ SendsItsOwn
  BY Bounds DEF Init, GivenOut, SendsItsOwn, Linked, NoCred, NoWrite, Grant
<1>7. Carriers = {} /\ Holders = {}
  BY StepSets DEF Init, Carriers, NoWrite, HoldSteps
<1>8. CarriersAlone /\ SameGrant
  BY <1>7 DEF CarriersAlone, SameGrant
<1>9. Refused /\ LastKept /\ FlagMeansDead
  BY Bounds DEF Init, Refused, LastKept, FlagMeansDead, Linked, Grant
<1> QED BY <1>2, <1>5, <1>6, <1>8, <1>9 DEF CoreInv, CredInv

\* An exchange whose outcome is a refusal or an error changes nothing.
LEMMA StepOnly ==
  ASSUME CoreInv, NEW c \in Call, NEW step \in Steps, Goto(c, step),
         UNCHANGED <<provVars, row, cred, pending, sent, crossed>>,
         faults' = faults \/ Fault,
         pc[c] # "update" /\ step # "update",
         step \in HoldSteps => pc[c] \in HoldSteps,
         pending[c].some => step \in {"use", "idle"},
         step \in FlagSteps => pc[c] \in FlagSteps \/ ~RefLives(cred[c].ref),
         step \in PoolSteps => pc[c] \in PoolSteps \/ Free,
         \/ lock' = lock /\ (step \in LockSteps => c \in lock)
         \/ lock' = {} /\ c \in lock /\ step \notin LockSteps
         \/ lock = {} /\ lock' = {c}
  PROVE  CoreInv'
<1>1. UNCHANGED <<rotates, grants, last, issued, expired>> /\ pc' = [pc EXCEPT ![c] = step]
  BY DEF provVars, Goto
<1>2. faults' \in 0..MaxFaults /\ (faults' = 0 => faults = 0)
  BY Bounds DEF Fault, CoreInv, DataOK
<1>3. DataOK'
  BY <1>1, <1>2 DEF CoreInv, DataOK
<1>4. StepsOK'
  BY <1>1, StepsMove DEF CoreInv
<1>5. CredInv'
  BY <1>1, <1>2, QuietStep DEF CoreInv
<1> QED BY <1>3, <1>4, <1>5 DEF CoreInv

\* Which pending writes a call in each step may have.
LEMMA PendingAt ==
  ASSUME CoreInv, NEW c \in Call
  PROVE  /\ pending[c].some => pc[c] \in {"use", "idle"}
         /\ pc[c] \in LockSteps => c \in lock
  BY DEF CoreInv, CredInv, SendsItsOwn, StepsOK

LEMMA ReadInv ==
  ASSUME CoreInv, NEW c \in Call, Begin(c) \/ Reread(c) PROVE CoreInv'
<1>1. ~pending[c].some /\ pc[c] # "update" /\ (pc[c] = "reread" => c \in lock)
  BY PendingAt DEF Begin, Reread, LockSteps
<1>2. PICK step \in {"begin", "use", "exchange"} :
        /\ pc' = [pc EXCEPT ![c] = step]
        /\ step \in PoolSteps => pc[c] \in PoolSteps
        /\ \/ lock' = lock /\ (step \in LockSteps => c \in lock)
           \/ lock' = {} /\ c \in lock /\ step \notin LockSteps
  <2>1. CASE Begin(c)
    BY <2>1 DEF Begin, Goto, PoolSteps, LockSteps
  <2>2. CASE Reread(c)
    <3>1. CASE row.cred.tok.n > expired
      BY <1>1, <2>2, <3>1 DEF Reread, Goto, PoolSteps, LockSteps
    <3>2. CASE ~(row.cred.tok.n > expired)
      BY <1>1, <2>2, <3>2 DEF Reread, Goto, PoolSteps, LockSteps
    <3> QED BY <3>1, <3>2
  <2> QED BY <2>1, <2>2
<1>3. /\ cred' = [cred EXCEPT ![c] = row.cred] /\ crossed' = (crossed \/ Carriers # {})
      /\ UNCHANGED <<rotates, grants, last, issued, expired, row, pending, sent, faults>>
  BY DEF Begin, Reread, provVars
<1>4. step \in Steps /\ step \notin FlagSteps /\ step # "update"
  BY DEF Steps, PoolSteps, FlagSteps
<1>5. DataOK'
  BY <1>3, RowTyped DEF CoreInv, DataOK
<1>6. StepsOK'
  BY <1>2, <1>3, <1>4, StepsMove DEF CoreInv
<1>7. CredInv'
  BY <1>1, <1>2, <1>3, <1>4, ReadStep DEF CoreInv
<1> QED BY <1>5, <1>6, <1>7 DEF CoreInv

\* Both exchanges: in the transaction, and the driver's own.
LEMMA ExchangeInv ==
  ASSUME CoreInv, NEW c \in Call, ExchangeInTx(c) \/ Refresh(c) PROVE CoreInv'
<1>1. /\ ~pending[c].some /\ pc[c] \in {"exchange", "use"} /\ (pc[c] = "exchange" => c \in lock)
      /\ sent' = sent
  BY PendingAt DEF ExchangeInTx, Refresh, Unauthorized, LockSteps
<1>2. PICK success \in {"update", "use"}, dead \in {"flag", "mark"}, trouble \in {"commit", "idle"} :
        /\ Exchange(c, success, dead, trouble)
        /\ \/ pc[c] = "exchange" /\ success = "update" /\ dead = "flag" /\ trouble = "commit"
              /\ pending' = pending
           \/ /\ pc[c] = "use" /\ success = "use" /\ dead = "mark" /\ trouble = "idle"
              /\ pending' = IF cred' # cred
                            THEN [pending EXCEPT ![c] = [some |-> TRUE, cred |-> cred'[c]]]
                            ELSE pending
  <2>1. CASE ExchangeInTx(c)
    BY <2>1 DEF ExchangeInTx
  <2>2. CASE Refresh(c)
    BY <2>2 DEF Refresh, Renew, Unauthorized
  <2> QED BY <2>1, <2>2
<1>3. CASE /\ RefLives(cred[c].ref) /\ issued < MaxIssue
           /\ issued' = issued + 1
           /\ last' = [last EXCEPT ![cred[c].ref.grant] = IF rotates THEN @ + 1 ELSE @]
           /\ cred' = [cred EXCEPT ![c] = NewCred(c)]
           /\ crossed' = (crossed \/ Carriers \union (Holders \ {c}) # {})
           /\ Goto(c, success)
           /\ UNCHANGED <<rotates, grants, expired, row, lock, faults>>
  <2>1. pc' = [pc EXCEPT ![c] = success]
    BY <1>3 DEF Goto
  <2> DEFINE g == cred[c].ref.grant
  <2>2. g \in Grant /\ last[g] \in Nat /\ last[g] < issued /\ issued \in Nat
    BY RowTyped DEF CoreInv, CredInv, GivenOut
  <2>3. last[g] + 1 \in 0..MaxIssue /\ issued + 1 \in 0..MaxIssue
    BY <1>3, <2>2, Bounds
  <2>4. NewCred(c) \in Cred /\ NewCred(c).tok.n = issued + 1
    BY <2>2, <2>3, RowTyped DEF NewCred, Cred, Tok, Ref, CoreInv
  <2>5. cred' # cred
    <3>1. cred'[c] = NewCred(c)
      BY <1>3 DEF CoreInv, DataOK
    <3>2. cred[c].tok.n <= issued /\ cred[c].tok.n \in Nat
      BY RowTyped DEF CoreInv, CredInv, GivenOut
    <3> QED BY <2>2, <2>4, <3>1, <3>2
  <2>6. \/ pc' = [pc EXCEPT ![c] = "update"] /\ pending' = pending /\ c \in lock
           /\ pc[c] = "exchange"
        \/ /\ pc' = [pc EXCEPT ![c] = "use"]
           /\ pending' = [pending EXCEPT ![c] = [some |-> TRUE, cred |-> cred'[c]]]
    BY <1>1, <1>2, <2>1, <2>5
  <2>7. cred' \in [Call -> Cred] /\ cred'[c] \in Cred
    BY <1>3, <2>4 DEF CoreInv, DataOK
  <2>8. pending' \in [Call -> [some : BOOLEAN, cred : Cred]]
        /\ \A d \in Call : pending[d].some => pending'[d].some
    <3>1. pending \in [Call -> [some : BOOLEAN, cred : Cred]]
      BY DEF CoreInv, DataOK
    <3>2. CASE pending' = pending
      BY <3>1, <3>2
    <3>3. CASE pending' = [pending EXCEPT ![c] = [some |-> TRUE, cred |-> cred'[c]]]
      <4> DEFINE r == [some |-> TRUE, cred |-> cred'[c]]
      <4>1. r \in [some : BOOLEAN, cred : Cred] /\ r.some
        BY <2>7
      <4> HIDE DEF r
      <4>2. pending' = [pending EXCEPT ![c] = r]
        BY <3>3 DEF r
      <4> QED BY <3>1, <4>1, <4>2
    <3> QED BY <2>6, <3>2, <3>3
  <2>9. last' \in [Grant -> 0..MaxIssue]
    BY <1>3, <2>2, <2>3 DEF CoreInv, DataOK
  <2>10. issued' \in 0..MaxIssue /\ expired' \in 0..issued'
    BY <1>3, <2>2, <2>3, Bounds DEF CoreInv, DataOK
  <2>11. DataOK'
    BY <1>1, <1>3, <2>7, <2>8, <2>9, <2>10 DEF CoreInv, DataOK
  <2>12. StepsOK'
    BY <1>1, <1>3, <2>6, StepsMove DEF CoreInv, Steps, PoolSteps, LockSteps
  <2>13. CredInv'
    <3>1. pc[c] \in HoldSteps \ {"update"}
      BY <1>1 DEF HoldSteps
    <3> QED BY <1>1, <1>3, <2>6, <3>1, NewTokensStep DEF CoreInv
  <2> QED BY <2>11, <2>12, <2>13 DEF CoreInv
<1>4. CASE /\ ~RefLives(cred[c].ref) /\ Goto(c, dead)
           /\ UNCHANGED <<provVars, row, cred, lock, faults, crossed>>
  <2>1. pending' = pending
    BY <1>2, <1>4
  <2> QED BY <1>1, <1>2, <1>4, <2>1, StepOnly
          DEF Steps, PoolSteps, LockSteps, HoldSteps
<1>5. CASE /\ Fault /\ Goto(c, trouble)
           /\ UNCHANGED <<provVars, row, cred, lock, crossed>>
  <2>1. pending' = pending
    BY <1>2, <1>5
  <2> QED BY <1>1, <1>2, <1>5, <2>1, StepOnly
          DEF Steps, PoolSteps, LockSteps, HoldSteps, FlagSteps
<1> QED BY <1>2, <1>3, <1>4, <1>5 DEF Exchange

LEMMA UpdateInv == ASSUME CoreInv, NEW c \in Call, Update(c) PROVE CoreInv'
<1>1. /\ pc[c] = "update" /\ pc' = [pc EXCEPT ![c] = "use"] /\ lock' = {} /\ c \in lock
      /\ row' = [cred |-> cred[c], status |-> "active"]
      /\ UNCHANGED <<rotates, grants, last, issued, expired, cred, pending, sent, faults, crossed>>
  BY PendingAt DEF Update, Goto, provVars, LockSteps, Refreshed
<1>2. ~pending[c].some /\ \A d \in Call : pending[d].some => pc[d] \in {"use", "idle"}
  BY <1>1, PendingAt
<1>3. pc'[c] = "use" /\ \A d \in Call : d # c => pc'[d] = pc[d]
  BY <1>1 DEF CoreInv, StepsOK
<1>4. c \in Carriers /\ Carriers' = Carriers \ {c}
  <2>1. c \in Carriers
    BY <1>1 DEF Carriers
  <2>2. Carriers' = {d \in Call : pc'[d] = "update" \/ pending[d].some}
    BY <1>1 DEF Carriers
  <2> QED BY <1>2, <1>3, <2>1, <2>2 DEF Carriers
<1>5. SendsItsOwn'
  BY <1>1, <1>3 DEF CoreInv, CredInv, SendsItsOwn
<1>6. \A d \in Call : /\ pc'[d] \in HoldSteps => pc[d] \in HoldSteps \/ d = c
                      /\ pc'[d] \in FlagSteps => pc[d] \in FlagSteps
  BY <1>3 DEF FlagSteps
<1>7. row'.cred = cred[c] /\ row'.status = "active"
  BY <1>1
<1>8. DataOK'
  <2>1. row' \in [cred : Cred, status : Statuses]
    BY <1>1, RowTyped DEF CoreInv, Statuses
  <2> QED BY <1>1, <2>1 DEF CoreInv, DataOK
<1>9. StepsOK'
  BY <1>1, StepsMove DEF CoreInv, Steps, PoolSteps, LockSteps
<1>10. CredInv'
  BY <1>1, <1>4, <1>5, <1>6, <1>7, WriteStep DEF CoreInv
<1> QED BY <1>8, <1>9, <1>10 DEF CoreInv

LEMMA FlagInv == ASSUME CoreInv, NEW c \in Call, Log(c) \/ Marked(c) PROVE CoreInv'
<1>1. PICK step \in {"use", "idle"} :
        /\ pc[c] \in FlagSteps /\ pc' = [pc EXCEPT ![c] = step]
        /\ lock' = lock \/ (lock' = {} /\ c \in lock)
        /\ row' = [row EXCEPT !.status = "reauth_required"]
        /\ UNCHANGED <<rotates, grants, last, issued, expired, cred, pending, sent, faults, crossed>>
  <2>1. CASE Log(c)
    BY <2>1, PendingAt DEF Log, Goto, provVars, LockSteps, FlagSteps
  <2>2. CASE Marked(c)
    BY <2>2 DEF Marked, Goto, provVars, FlagSteps
  <2> QED BY <2>1, <2>2
<1>2. step \in Steps /\ step \notin PoolSteps /\ step \notin LockSteps
  BY DEF Steps, PoolSteps, LockSteps
<1>3. DataOK'
  <2>1. row' \in [cred : Cred, status : Statuses]
    BY <1>1 DEF CoreInv, DataOK, Statuses
  <2> QED BY <1>1, <2>1 DEF CoreInv, DataOK
<1>4. StepsOK'
  BY <1>1, <1>2, StepsMove DEF CoreInv
<1>5. CredInv'
  BY <1>1, FlagStep DEF CoreInv
<1> QED BY <1>3, <1>4, <1>5 DEF CoreInv

LEMMA PersistInv == ASSUME CoreInv, NEW c \in Call, Persist(c) PROVE CoreInv'
<1>1. /\ row' = IF row.cred.tok.n < pending[c].cred.tok.n THEN Persisted(pending[c].cred) ELSE row
      /\ sent' = sent \ {c} /\ pending' = [pending EXCEPT ![c] = NoWrite] /\ c \in sent
      /\ UNCHANGED <<rotates, grants, last, issued, expired, pc, cred, lock, faults, crossed>>
  BY DEF Persist, provVars
<1>2. pending[c].some /\ pc[c] \in {"use", "idle"} /\ pending[c].cred = cred[c]
  BY <1>1 DEF CoreInv, DataOK, CredInv, SendsItsOwn
<1>3. ~pending'[c].some /\ \A d \in Call : d # c => pending'[d] = pending[d]
  BY <1>1 DEF CoreInv, DataOK, NoWrite
<1>4. c \in Carriers /\ Carriers' = Carriers \ {c}
  <2>1. c \in Carriers
    BY <1>2 DEF Carriers
  <2>2. Carriers' = {d \in Call : pc[d] = "update" \/ pending'[d].some}
    BY <1>1 DEF Carriers
  <2> QED BY <1>2, <1>3, <2>1, <2>2 DEF Carriers
<1>5. SendsItsOwn'
  BY <1>1, <1>3 DEF CoreInv, CredInv, SendsItsOwn
<1>6. NoWrite \in [some : BOOLEAN, cred : Cred]
  BY Bounds DEF NoWrite, NoCred, Linked, Cred, Tok, Ref, Grant
<1>7. row' \in [cred : Cred, status : Statuses]
  <2>1. [tok |-> cred[c].tok, ref |-> IF rotates THEN cred[c].ref ELSE row.cred.ref] \in Cred
    BY RowTyped DEF CoreInv, Cred
  <2> QED BY <1>1, <1>2, <2>1 DEF CoreInv, DataOK, Persisted, Refreshed, Statuses
<1>8. DataOK'
  <2>1. pending' \in [Call -> [some : BOOLEAN, cred : Cred]]
    BY <1>1, <1>6 DEF CoreInv, DataOK
  <2>2. sent' \subseteq {d \in Call : pending'[d].some}
    BY <1>1, <1>3 DEF CoreInv, DataOK
  <2> QED BY <1>1, <1>7, <2>1, <2>2 DEF CoreInv, DataOK
<1>9. StepsOK'
  BY <1>1, SentMoves DEF CoreInv
<1>10. CASE row.cred.tok.n < cred[c].tok.n
  <2>1. /\ row'.cred = [tok |-> cred[c].tok, ref |-> IF rotates THEN cred[c].ref ELSE row.cred.ref]
        /\ row'.status = "active"
    BY <1>1, <1>2, <1>10 DEF Persisted, Refreshed
  <2>2. rotates => row'.cred = cred[c]
    <3>1. cred[c] = [tok |-> cred[c].tok, ref |-> cred[c].ref]
      BY RowTyped DEF CoreInv, Cred
    <3> QED BY <2>1, <3>1
  <2>3. CredInv'
    BY <1>1, <1>4, <1>5, <2>1, <2>2, WriteStep DEF CoreInv
  <2> QED BY <1>8, <1>9, <2>3 DEF CoreInv
<1>11. CASE ~(row.cred.tok.n < cred[c].tok.n)
  <2>1. crossed /\ row' = row
    BY <1>1, <1>2, <1>4, <1>11 DEF CoreInv, CredInv, CarriersAlone
  <2>2. GivenOut'
    BY <1>1, <2>1 DEF CoreInv, CredInv, GivenOut
  <2>3. CredInv'
    BY <1>1, <1>5, <2>1, <2>2
       DEF CredInv, CarriersAlone, SameGrant, Refused, LastKept, FlagMeansDead
  <2> QED BY <1>8, <1>9, <2>3 DEF CoreInv
<1> QED BY <1>10, <1>11

LEMMA LosePersistInv == ASSUME CoreInv, NEW c \in Call, LosePersist(c) PROVE CoreInv'
<1>1. /\ pending' = [pending EXCEPT ![c] = NoWrite] /\ c \notin sent /\ pending[c].some
      /\ UNCHANGED <<rotates, grants, last, issued, expired, row, pc, cred, lock, sent, crossed>>
      /\ faults' \in 1..MaxFaults
  BY Bounds DEF LosePersist, Fault, provVars, CoreInv, DataOK
<1>2. ~pending'[c].some /\ \A d \in Call : d # c => pending'[d] = pending[d]
  BY <1>1 DEF CoreInv, DataOK, NoWrite
<1>3. NoWrite \in [some : BOOLEAN, cred : Cred]
  BY Bounds DEF NoWrite, NoCred, Linked, Cred, Tok, Ref, Grant
<1>4. DataOK'
  <2>1. pending' \in [Call -> [some : BOOLEAN, cred : Cred]]
    BY <1>1, <1>3 DEF CoreInv, DataOK
  <2>2. sent' \subseteq {d \in Call : pending'[d].some}
    BY <1>1, <1>2 DEF CoreInv, DataOK
  <2> QED BY <1>1, <2>1, <2>2, Bounds DEF CoreInv, DataOK
<1>5. StepsOK'
  BY <1>1, StepsKept DEF CoreInv
<1>6. SendsItsOwn'
  BY <1>1, <1>2 DEF CoreInv, CredInv, SendsItsOwn
<1>7. Carriers' \subseteq Carriers /\ Holders' = Holders
  BY <1>1, <1>2 DEF Carriers, Holders
<1>8. GivenOut' /\ Refused' /\ FlagMeansDead' /\ LastKept'
  BY <1>1 DEF CoreInv, CredInv, GivenOut, Refused, FlagMeansDead, RefLives, LastKept
<1>9. CarriersAlone' /\ SameGrant'
  BY <1>1, <1>7 DEF CoreInv, CredInv, CarriersAlone, SameGrant
<1> QED BY <1>4, <1>5, <1>6, <1>8, <1>9 DEF CoreInv, CredInv

\* The steps that only move a call on: into the pool, to the lock, and out.
LEMMA MoveInv ==
  ASSUME CoreInv, NEW c \in Call,
         Transact(c) \/ Lock(c) \/ Flag(c) \/ Commit(c) \/ Use(c) \/ Mark(c)
  PROVE  CoreInv'
<1>1. UNCHANGED <<provVars, row, cred, pending, sent, crossed, faults>>
  BY DEF Transact, Lock, Flag, Commit, Use, Mark
<1>2. /\ pending[c].some => pc[c] \in {"use", "idle"}
      /\ pc[c] \in LockSteps => c \in lock
  BY PendingAt
<1>3. CASE Transact(c)
  BY <1>1, <1>2, <1>3, StepOnly DEF Transact, Steps, PoolSteps, LockSteps, HoldSteps, FlagSteps
<1>4. CASE Lock(c)
  BY <1>1, <1>2, <1>4, StepOnly DEF Lock, Steps, PoolSteps, LockSteps, HoldSteps, FlagSteps
<1>5. CASE Flag(c)
  BY <1>1, <1>2, <1>5, StepOnly DEF Flag, Steps, PoolSteps, LockSteps, HoldSteps, FlagSteps
<1>6. CASE Commit(c)
  BY <1>1, <1>2, <1>6, StepOnly DEF Commit, Steps, PoolSteps, LockSteps, HoldSteps, FlagSteps
<1>7. CASE Use(c)
  BY <1>1, <1>2, <1>7, StepOnly DEF Use, Steps, PoolSteps, LockSteps, HoldSteps, FlagSteps
<1>8. CASE Mark(c)
  BY <1>1, <1>2, <1>8, StepOnly DEF Mark, Steps, PoolSteps, LockSteps, HoldSteps, FlagSteps
<1> QED BY <1>3, <1>4, <1>5, <1>6, <1>7, <1>8

LEMMA SendInv == ASSUME CoreInv, NEW c \in Call, Send(c) PROVE CoreInv'
<1>1. /\ pending[c].some /\ c \notin sent /\ Free /\ sent' = sent \union {c}
      /\ UNCHANGED <<rotates, grants, last, issued, expired, row, pc, cred, lock, pending, faults,
                     crossed>>
  BY DEF Send, provVars
<1>2. DataOK'
  BY <1>1 DEF CoreInv, DataOK
<1>3. StepsOK'
  BY <1>1, SentMoves DEF CoreInv
<1>4. Carriers' = Carriers /\ Holders' = Holders
  BY <1>1 DEF Carriers, Holders
<1>5. CredInv'
  BY <1>1, <1>4 DEF CoreInv, CredInv, GivenOut, SendsItsOwn, CarriersAlone, SameGrant, Refused,
                    LastKept, FlagMeansDead, RefLives
<1> QED BY <1>2, <1>3, <1>5 DEF CoreInv

LEMMA NextInv == CoreInv /\ [Next]_vars => CoreInv'
<1> SUFFICES ASSUME CoreInv, [Next]_vars PROVE CoreInv'
  OBVIOUS
<1>1. CASE Expire \/ Revoke \/ Relink
  <2>1. UNCHANGED <<pc, lock, sent>>
    BY <1>1 DEF Expire, Revoke, Relink, callVars
  <2> QED BY <1>1, <2>1, ProviderInv, RelinkInv, StepsKept DEF CoreInv
<1>2. ASSUME NEW c \in Call, Begin(c) \/ Proceed(c) \/ Write(c) \/ LosePersist(c) PROVE CoreInv'
  BY <1>2, ReadInv, ExchangeInv, UpdateInv, FlagInv, PersistInv, LosePersistInv, MoveInv, SendInv
     DEF Proceed, Write
<1>3. CASE UNCHANGED vars
  <2>1. UNCHANGED <<rotates, grants, last, issued, expired, row, pc, cred, lock, pending, sent,
                    faults, crossed>>
    BY <1>3 DEF vars, provVars, callVars
  <2>2. DataOK'
    BY <2>1 DEF CoreInv, DataOK
  <2>3. StepsOK'
    BY <2>1, StepsKept DEF CoreInv
  <2>4. Carriers' = Carriers /\ Holders' = Holders
    BY <2>1 DEF Carriers, Holders
  <2>5. CredInv'
    BY <2>1, <2>4 DEF CoreInv, CredInv, GivenOut, SendsItsOwn, CarriersAlone, SameGrant, Refused,
                      LastKept, FlagMeansDead, RefLives
  <2> QED BY <2>2, <2>3, <2>5 DEF CoreInv
<1> QED BY <1>1, <1>2, <1>3 DEF Next

-----------------------------------------------------------------------------
(* The theorems *)

\* The inductive invariant holds whatever calls, drivers, the provider and the
\* user do.
THEOREM Invariance == Spec => []Inv
<1>1. Spec => []CoreInv
  BY InitInv, NextInv, PTL DEF Spec
<1> QED BY <1>1, CoreIsInv, PTL

\* Each variable has its type, no more connections are in use than the pool has,
\* and a call past pg_advisory_xact_lock is the lock's owner.
THEOREM TypeCorrect == Spec => []TypeOK
<1>1. Inv => TypeOK
  BY DEF Inv
<1> QED BY <1>1, Invariance, PTL

\* ensureFreshAccessToken, persistRefreshedTokens: as long as no two parties
\* cross and no write is lost, the last refresh token the provider gave out is
\* in the row or on its way there.
THEOREM TokensKept == Spec => []CredentialKept
<1>1. Inv => CredentialKept
  <2> SUFFICES ASSUME Inv, ~crossed, faults = 0, row.cred.ref.grant \in grants
               PROVE  RefLives(row.cred.ref) \/ \E c \in Carriers : RefLives(cred[c].ref)
    BY DEF CredentialKept
  <2>1. CASE ~rotates
    BY <2>1 DEF RefLives
  <2>2. CASE rotates /\ row.cred.ref.gen = last[row.cred.ref.grant]
    BY <2>2 DEF RefLives
  <2>3. CASE \E c \in Carriers : cred[c].ref.gen = last[cred[c].ref.grant]
    <3>1. PICK c \in Carriers : cred[c].ref.gen = last[cred[c].ref.grant]
      BY <2>3
    <3>2. cred[c].ref.grant = row.cred.ref.grant
      BY DEF Inv, CredInv, SameGrant
    <3> QED BY <3>1, <3>2 DEF RefLives
  <2> QED BY <2>1, <2>2, <2>3 DEF Inv, CredInv, LastKept
<1> QED BY <1>1, Invariance, PTL

\* ensureFreshAccessToken and markActiveConnectionReauthRequired: unless two
\* parties crossed, a flagged connection's refresh token is dead.
THEOREM FlaggedIsDead == Spec => []FlagMeansDead
<1>1. Inv => FlagMeansDead
  BY DEF Inv, CredInv
<1> QED BY <1>1, Invariance, PTL

-----------------------------------------------------------------------------
(* What linking stores in a row: any mailboxes, any number of links at once *)

CONSTANTS Mailbox, Own, Worker, MaxLinks, MaxRevokes
VARIABLES now, linked, link, renewal, torn, counts
Linking == INSTANCE Links WITH row <- linked

\* A mailbox is named by its provider and its address.
MailboxesArePairs == \A m \in Mailbox : m = <<m[1], m[2]>>

Credentials == [of : Mailbox \union {Linking!Nothing.of}, v : Nat]
Providers == {"google", "microsoft", "icloud", "yahoo", "custom", "none"}

RowStates ==
  [provider : Providers, access : Credentials, refresh : Credentials,
   config : Linking!Address \union {"none"}, status : {"none", "active", "reauth_required"},
   cursor : Providers]

LinkStates ==
  [at : {"idle", "borrow", "who", "discover", "validate", "store"},
   of : Mailbox \union {Linking!Nothing.of}, access : Credentials, refresh : Credentials,
   config : Linking!Address \union {"none"}]

LinkTypes ==
  /\ now \in [Mailbox -> Nat] /\ torn \subseteq Linking!Address
  /\ linked \in [Linking!Address -> RowStates]
  /\ link \in [Worker -> LinkStates]
  /\ renewal \in [Linking!Address ->
       [at : {"idle", "got", "dead"}, provider : Providers, got : Credentials]]

\* Whose credentials a row holds, and what goes with them.
WholeRow(a) ==
  /\ linked[a].access.of = <<linked[a].provider, a>>
  /\ linked[a].refresh.of = IF Linking!Oauth(linked[a].provider) THEN <<linked[a].provider, a>>
                         ELSE Linking!Nothing.of
  /\ linked[a].config = IF linked[a].provider = "custom" THEN a ELSE "none"

\* A consent is for the user's own address; its refresh token may be borrowed.
ByConsent(l) ==
  /\ Linking!Oauth(l.of[1]) /\ l.of[2] = Own /\ l.config = "none" /\ l.at \in {"borrow", "who", "store"}
  /\ l.at # "borrow" /\ Own \notin torn => l.refresh.of = l.of

\* A password brings nothing with it but, of a server of one's own, its folders.
ByPassword(l) ==
  /\ l.of[1] \in {"icloud", "yahoo", "custom"} /\ l.refresh = Linking!Nothing
  /\ l.at \in {"discover", "validate", "store"} /\ (l.at = "discover" => l.of[1] = "custom" /\ l.config = "none")
  /\ l.at # "discover" => l.config = IF l.of[1] = "custom" THEN l.of[2] ELSE "none"

LinkHolds(l) ==
  l.at # "idle" => l.of \in Mailbox /\ l.access.of = l.of /\ (ByConsent(l) \/ ByPassword(l))

\* A refresh renews the tokens of the row that it has read.
RenewalHolds(a) ==
  /\ renewal[a].at = "idle" => renewal[a] = Linking!NoRenewal
  /\ renewal[a].at # "idle" => Linking!Oauth(renewal[a].provider)
  /\ renewal[a].at = "got" /\ a \notin torn => renewal[a].got.of = <<renewal[a].provider, a>>

LinkInv ==
  /\ LinkTypes
  /\ \A a \in Linking!Rows \ torn : WholeRow(a)
  /\ \A a \in Linking!Rows \ {Own} : ~Linking!Oauth(linked[a].provider)
  /\ \A w \in Worker : LinkHolds(link[w])
  /\ \A a \in Linking!Address : RenewalHolds(a)

LEMMA OwnerOfCredential ==
  ASSUME MailboxesArePairs, NEW m \in Mailbox
  PROVE  m[2] \in Linking!Address /\ m = <<m[1], m[2]>>
BY DEF MailboxesArePairs, Linking!Address

\* A link that ends or goes one step on holds nothing new.
LEMMA LinkOfOne ==
  ASSUME LinkInv, NEW w \in Worker, UNCHANGED <<now, linked, renewal, torn>>,
         NEW l \in LinkStates, LinkHolds(l), link' = [link EXCEPT ![w] = l]
  PROVE  LinkInv'
<1>1. LinkTypes'
  BY DEF LinkInv, LinkTypes
<1>2. \A x \in Worker : LinkHolds(link[x])'
  BY DEF LinkInv, LinkTypes, LinkStates, LinkHolds, ByConsent, ByPassword
<1> QED BY <1>1, <1>2 DEF LinkInv, WholeRow, RenewalHolds, Linking!Rows

LEMMA IdleHolds == LinkHolds(Linking!Idle) /\ Linking!Idle \in LinkStates
BY DEF LinkHolds, Linking!Idle, LinkStates, Credentials, Linking!Nothing

LEMMA EndsKeeps ==
  ASSUME LinkInv, NEW w \in Worker, UNCHANGED <<now, linked, renewal, torn>>, Linking!Ends(w)
  PROVE  LinkInv'
BY LinkOfOne, IdleHolds DEF Linking!Ends

LEMMA ConsentKeeps ==
  ASSUME MailboxesArePairs, LinkInv, NEW w \in Worker, NEW m \in Mailbox,
         Linking!Consent(w, m), Linking!Oauth(m[1])
  PROVE  LinkInv'
<1>1. UNCHANGED <<now, linked, renewal, torn>> /\ m[2] = Own
  BY DEF Linking!Consent, Linking!Elsewhere
<1>2. PICK refresh \in {Linking!Credential(m), Linking!Nothing} :
        link' = [link EXCEPT ![w] = [Linking!Idle EXCEPT !.of = m, !.access = Linking!Credential(m),
                   !.refresh = refresh, !.at = IF refresh = Linking!Nothing THEN "borrow" ELSE "who"]]
  BY DEF Linking!Consent
<1>3. Linking!Credential(m) \in Credentials /\ refresh \in Credentials
        /\ Linking!Credential(m).of = m
  BY DEF LinkInv, LinkTypes, Credentials, Linking!Credential, Linking!Nothing
<1> DEFINE l == [Linking!Idle EXCEPT !.of = m, !.access = Linking!Credential(m),
                   !.refresh = refresh, !.at = IF refresh = Linking!Nothing THEN "borrow" ELSE "who"]
<1>4. /\ l \in LinkStates /\ l.of = m /\ l.access = Linking!Credential(m) /\ l.refresh = refresh
      /\ l.at = (IF refresh = Linking!Nothing THEN "borrow" ELSE "who") /\ l.config = "none"
  BY <1>3 DEF Linking!Idle, LinkStates
<1>5. LinkHolds(l)
  BY <1>1, <1>3, <1>4 DEF LinkHolds, ByConsent
<1> QED BY <1>1, <1>2, <1>4, <1>5, LinkOfOne

LEMMA TypedKeeps ==
  ASSUME MailboxesArePairs, LinkInv, NEW w \in Worker,
         NEW provider \in {"icloud", "yahoo", "custom"},
         NEW at \in {"discover", "validate"}, (at = "discover") <=> (provider = "custom"),
         Linking!Typed(w, provider, at)
  PROVE  LinkInv'
<1>0. PICK m \in Mailbox : \E v \in 0..now[m] :
        /\ m[1] = provider
        /\ link' = [link EXCEPT ![w] = [Linking!Idle EXCEPT !.of = m,
                     !.access = [of |-> m, v |-> v], !.at = at]]
  BY DEF Linking!Typed
<1>1. PICK v \in 0..now[m] :
        /\ m[1] = provider
        /\ link' = [link EXCEPT ![w] = [Linking!Idle EXCEPT !.of = m,
                     !.access = [of |-> m, v |-> v], !.at = at]]
  BY <1>0
<1> DEFINE l == [Linking!Idle EXCEPT !.of = m, !.access = [of |-> m, v |-> v], !.at = at]
<1>2. [of |-> m, v |-> v] \in Credentials
  BY DEF LinkInv, LinkTypes, Credentials
<1>3. /\ l \in LinkStates /\ l.of = m /\ l.access.of = m /\ l.refresh = Linking!Nothing
      /\ l.at = at /\ l.config = "none"
  BY <1>2 DEF Linking!Idle, LinkStates, Credentials, Linking!Nothing
<1>4. LinkHolds(l)
  BY <1>1, <1>3 DEF LinkHolds, ByPassword
<1>5. UNCHANGED <<now, linked, renewal, torn>>
  BY DEF Linking!Typed, Linking!Elsewhere
<1> QED BY <1>1, <1>3, <1>4, <1>5, LinkOfOne

LEMMA GoesOn ==
  ASSUME LinkInv, NEW w \in Worker, UNCHANGED <<now, linked, renewal, torn>>,
         NEW at \in {"who", "validate", "store"}, Linking!Goto(w, at),
         \/ link[w].at = "who" /\ at = "store"
         \/ link[w].at = "validate" /\ at = "store"
  PROVE  LinkInv'
<1> DEFINE l == [link[w] EXCEPT !.at = at]
<1>1. link' = [link EXCEPT ![w] = l]
  BY DEF Linking!Goto, LinkInv, LinkTypes
<1>2. LinkHolds(l)
  BY DEF LinkInv, LinkTypes, LinkStates, LinkHolds, ByConsent, ByPassword
<1> HIDE DEF l
<1>3. l \in LinkStates
  BY DEF LinkInv, LinkTypes, LinkStates, l
<1> QED BY <1>1, <1>2, <1>3, LinkOfOne

\* What is borrowed is of the one row with that provider, the user's own.
LEMMA BorrowKeeps ==
  ASSUME MailboxesArePairs, LinkInv, NEW w \in Worker, Linking!Borrow(w)
  PROVE  LinkInv'
<1>1. UNCHANGED <<now, linked, renewal, torn>> /\ link[w].at = "borrow"
  BY DEF Linking!Borrow, Linking!Elsewhere
<1>2. link[w].of \in Mailbox /\ link[w].access.of = link[w].of /\ ByConsent(link[w])
  BY <1>1 DEF LinkInv, LinkHolds, ByPassword
<1>3. ASSUME NEW a \in Linking!Rows, linked[a].provider = link[w].of[1],
             link' = [link EXCEPT ![w].refresh = linked[a].refresh, ![w].at = "who"]
      PROVE  LinkInv'
  <2> DEFINE l == [link[w] EXCEPT !.refresh = linked[a].refresh, !.at = "who"]
  <2>1. a = Own
    BY <1>2, <1>3 DEF LinkInv, ByConsent
  <2>2. link[w].of = <<linked[a].provider, a>>
    BY <1>2, <1>3, <2>1, OwnerOfCredential DEF ByConsent
  <2>3. a \notin torn => linked[a].refresh.of = link[w].of
    BY <1>2, <1>3, <2>2 DEF LinkInv, WholeRow, ByConsent
  <2>4. linked[a].refresh \in Credentials
    BY DEF LinkInv, LinkTypes, RowStates, Linking!Rows
  <2>5. /\ l \in LinkStates /\ l.of = link[w].of /\ l.access = link[w].access
        /\ l.refresh = linked[a].refresh /\ l.at = "who" /\ l.config = link[w].config
    BY <2>4 DEF LinkInv, LinkTypes, LinkStates
  <2>6. LinkHolds(l)
    BY <1>2, <2>1, <2>3, <2>5 DEF LinkHolds, ByConsent
  <2>7. link' = [link EXCEPT ![w] = l]
    BY <1>3 DEF LinkInv, LinkTypes
  <2> QED BY <1>1, <2>5, <2>6, <2>7, LinkOfOne
<1>4. Linking!Ends(w) \/ \E a \in Linking!Rows : /\ linked[a].provider = link[w].of[1]
        /\ link' = [link EXCEPT ![w].refresh = linked[a].refresh, ![w].at = "who"]
  BY DEF Linking!Borrow
<1> QED BY <1>1, <1>3, <1>4, EndsKeeps

LEMMA DiscoverKeeps ==
  ASSUME MailboxesArePairs, LinkInv, NEW w \in Worker, Linking!Discover(w)
  PROVE  LinkInv'
<1>1. UNCHANGED <<now, linked, renewal, torn>> /\ link[w].at = "discover"
  BY DEF Linking!Discover, Linking!Elsewhere
<1>2. link[w].of \in Mailbox /\ link[w].access.of = link[w].of /\ ByPassword(link[w])
  BY <1>1 DEF LinkInv, LinkHolds, ByConsent
<1>3. CASE link' = [link EXCEPT ![w].config = link[w].of[2], ![w].at = "validate"]
  <2> DEFINE l == [link[w] EXCEPT !.config = link[w].of[2], !.at = "validate"]
  <2>1. /\ l \in LinkStates /\ l.of = link[w].of /\ l.access = link[w].access
        /\ l.refresh = link[w].refresh /\ l.at = "validate" /\ l.config = link[w].of[2]
    BY <1>2, OwnerOfCredential DEF LinkInv, LinkTypes, LinkStates
  <2>2. LinkHolds(l)
    BY <1>1, <1>2, <2>1 DEF LinkHolds, ByPassword
  <2>3. link' = [link EXCEPT ![w] = l]
    BY <1>3 DEF LinkInv, LinkTypes
  <2> QED BY <1>1, <2>1, <2>2, <2>3, LinkOfOne
<1> QED BY <1>1, <1>3, EndsKeeps DEF Linking!Discover

\* The row that a link leaves opens the mailbox it was made for.
LEMMA StoreKeeps ==
  ASSUME MailboxesArePairs, LinkInv, NEW w \in Worker, Linking!Store(w)
  PROVE  LinkInv'
<1>1. link[w].of \in Mailbox /\ link[w].access.of = link[w].of /\ link[w].at = "store"
        /\ (ByConsent(link[w]) \/ ByPassword(link[w]))
  BY DEF LinkInv, LinkHolds, Linking!Store
<1>2. PICK a \in Linking!Address : a = link[w].of[2] /\ link[w].of = <<link[w].of[1], a>>
  BY <1>1, OwnerOfCredential
<1>3. UNCHANGED <<now, renewal, torn>> /\ link' = [link EXCEPT ![w] = Linking!Idle]
        /\ linked' = [linked EXCEPT ![a] = Linking!Stored(linked[a], link[w])]
  BY <1>2 DEF Linking!Store, Linking!Ends
<1>4. link[w].of[1] \in Providers
  BY <1>1 DEF ByConsent, ByPassword, Linking!Oauth, Providers
<1>5. Linking!Stored(linked[a], link[w]) \in RowStates
  <2>1. linked[a] \in RowStates /\ link[w] \in LinkStates
    BY DEF LinkInv, LinkTypes
  <2> QED BY <1>4, <2>1 DEF LinkStates, RowStates, Linking!Stored
<1>6. /\ linked'[a].provider = link[w].of[1] /\ linked'[a].access = link[w].access
      /\ linked'[a].refresh = link[w].refresh /\ linked'[a].config = link[w].config
  BY <1>3 DEF Linking!Stored, LinkInv, LinkTypes, RowStates
<1>7. LinkTypes'
  BY <1>3, <1>5, IdleHolds DEF LinkInv, LinkTypes
<1>8. \A b \in Linking!Address : b # a => linked'[b] = linked[b]
  BY <1>3 DEF LinkInv, LinkTypes
<1>9. (a \notin torn => WholeRow(a)') /\ (a # Own => ~Linking!Oauth(linked'[a].provider))
  <2>1. CASE ByConsent(link[w])
    BY <1>1, <1>2, <1>3, <1>6, <2>1 DEF WholeRow, ByConsent, Linking!Oauth
  <2>2. CASE ByPassword(link[w])
    BY <1>1, <1>2, <1>3, <1>6, <2>2 DEF WholeRow, ByPassword, Linking!Oauth
  <2> QED BY <1>1, <2>1, <2>2
<1>10. \A b \in Linking!Rows' \ torn' : WholeRow(b)'
  BY <1>3, <1>8, <1>9 DEF LinkInv, WholeRow, Linking!Rows
<1>11. \A b \in Linking!Rows' \ {Own} : ~Linking!Oauth(linked'[b].provider)
  BY <1>8, <1>9 DEF LinkInv, Linking!Rows
<1>12. \A x \in Worker : LinkHolds(link[x])'
  BY <1>3, IdleHolds DEF LinkInv, LinkTypes, LinkHolds, ByConsent, ByPassword
<1> QED BY <1>3, <1>7, <1>10, <1>11, <1>12 DEF LinkInv, RenewalHolds

LEMMA StartRefreshKeeps ==
  ASSUME LinkInv, NEW a \in Linking!Address, Linking!StartRefresh(a)
  PROVE  LinkInv'
<1>1. UNCHANGED <<now, linked, link, torn>> /\ Linking!Oauth(linked[a].provider)
  BY DEF Linking!StartRefresh
<1>2. PICK at \in {"got", "dead"} : renewal' = [renewal EXCEPT ![a] =
        [at |-> at, provider |-> linked[a].provider, got |-> linked[a].refresh]]
  BY DEF Linking!StartRefresh
<1>3. LinkTypes'
  BY <1>1, <1>2 DEF LinkInv, LinkTypes, RowStates
<1>4. a \in Linking!Rows
  BY <1>1 DEF Linking!Rows, Linking!NoRow, Linking!Oauth
<1>5. RenewalHolds(a)'
  BY <1>1, <1>2, <1>4 DEF LinkInv, LinkTypes, RenewalHolds, WholeRow
<1>6. \A b \in Linking!Address : RenewalHolds(b)'
  BY <1>1, <1>2, <1>5 DEF LinkInv, LinkTypes, RenewalHolds
<1> QED BY <1>1, <1>3, <1>6 DEF LinkInv, WholeRow, LinkHolds, ByConsent, ByPassword, Linking!Rows

\* The update that ends a refresh keeps the provider of the linked, or tears it.
LEMMA EndRefreshKeeps ==
  ASSUME LinkInv, NEW a \in Linking!Address, Linking!EndRefresh(a)
  PROVE  LinkInv'
<1>1. UNCHANGED <<now, link>> /\ renewal' = [renewal EXCEPT ![a] = Linking!NoRenewal]
        /\ renewal[a].at # "idle" /\ torn \subseteq torn' /\ torn' \subseteq torn \union {a}
  BY DEF Linking!EndRefresh
<1>2. /\ linked' \in [Linking!Address -> RowStates]
      /\ \A b \in Linking!Address : b # a => linked'[b] = linked[b]
      /\ linked'[a].provider = linked[a].provider /\ linked'[a].config = linked[a].config
      /\ a \in Linking!Rows' => a \in Linking!Rows
  <2>1. CASE renewal[a].at = "got" /\ a \in Linking!Rows
    <3> DEFINE r == [linked[a] EXCEPT !.access = renewal[a].got, !.refresh = renewal[a].got,
                                   !.status = "active"]
    <3>1. linked[a] \in RowStates /\ renewal[a].got \in Credentials
      BY DEF LinkInv, LinkTypes
    <3>2. r \in RowStates /\ r.provider = linked[a].provider /\ r.config = linked[a].config
      BY <3>1 DEF RowStates
    <3>3. linked' = [linked EXCEPT ![a] = r]
      BY <2>1 DEF Linking!EndRefresh, LinkInv, LinkTypes
    <3> QED BY <2>1, <3>2, <3>3 DEF LinkInv, LinkTypes
  <2>2. CASE renewal[a].at = "dead" /\ a \in Linking!Rows
    BY <2>2 DEF Linking!EndRefresh, LinkInv, LinkTypes, RowStates
  <2>3. CASE a \notin Linking!Rows
    BY <2>3 DEF Linking!EndRefresh, LinkInv, LinkTypes, Linking!Rows
  <2> QED BY <1>1, <2>1, <2>2, <2>3 DEF LinkInv, LinkTypes
<1>3. a \in Linking!Rows /\ a \notin torn' => WholeRow(a)'
  <2> SUFFICES ASSUME a \in Linking!Rows, a \notin torn' PROVE WholeRow(a)'
    OBVIOUS
  <2>1. CASE renewal[a].at = "got"
    <3>1. linked'[a].access = renewal[a].got /\ linked'[a].refresh = renewal[a].got
            /\ linked[a].provider = renewal[a].provider
      BY <2>1 DEF Linking!EndRefresh, LinkInv, LinkTypes, RowStates
    <3>2. renewal[a].got.of = <<linked[a].provider, a>> /\ Linking!Oauth(linked[a].provider)
      BY <1>1, <2>1, <3>1 DEF LinkInv, RenewalHolds
    <3> QED BY <1>1, <1>2, <3>1, <3>2 DEF LinkInv, WholeRow
  <2>2. CASE renewal[a].at = "dead"
    <3>1. linked'[a].access = linked[a].access /\ linked'[a].refresh = linked[a].refresh
      BY <2>2 DEF Linking!EndRefresh, LinkInv, LinkTypes, RowStates
    <3> QED BY <1>1, <1>2, <3>1 DEF LinkInv, WholeRow
  <2> QED BY <1>1, <2>1, <2>2 DEF LinkInv, LinkTypes
<1>4. LinkTypes'
  BY <1>1, <1>2 DEF LinkInv, LinkTypes, Linking!NoRenewal, Credentials, Linking!Nothing, Providers
<1>5. \A b \in Linking!Rows' \ torn' : WholeRow(b)'
  BY <1>1, <1>2, <1>3 DEF LinkInv, WholeRow, Linking!Rows
<1>6. \A b \in Linking!Rows' \ {Own} : ~Linking!Oauth(linked'[b].provider)
  BY <1>2 DEF LinkInv, Linking!Rows
<1>7. \A w \in Worker : LinkHolds(link[w])'
  BY <1>1 DEF LinkInv, LinkHolds, ByConsent, ByPassword
<1>8. \A b \in Linking!Address : RenewalHolds(b)'
  BY <1>1 DEF LinkInv, LinkTypes, RenewalHolds, Linking!NoRenewal
<1> QED BY <1>4, <1>5, <1>6, <1>7, <1>8 DEF LinkInv

LEMMA SyncKeeps ==
  ASSUME LinkInv, NEW a \in Linking!Address, Linking!Sync(a)
  PROVE  LinkInv'
<1>1. UNCHANGED <<now, link, renewal, torn>> /\ a \in Linking!Rows
        /\ linked' = [linked EXCEPT ![a].cursor = linked[a].provider]
  BY DEF Linking!Sync
<1>2. /\ linked' \in [Linking!Address -> RowStates]
      /\ \A b \in Linking!Address : /\ linked'[b].provider = linked[b].provider
           /\ linked'[b].access = linked[b].access /\ linked'[b].refresh = linked[b].refresh
           /\ linked'[b].config = linked[b].config
      /\ Linking!Rows' \subseteq Linking!Rows
  BY <1>1 DEF LinkInv, LinkTypes, RowStates, Linking!Rows
<1> QED BY <1>1, <1>2 DEF LinkInv, LinkTypes, WholeRow, LinkHolds, ByConsent, ByPassword, RenewalHolds

LEMMA DisconnectKeeps ==
  ASSUME LinkInv, NEW a \in Linking!Address, Linking!Disconnect(a)
  PROVE  LinkInv'
<1>1. /\ UNCHANGED <<link, torn>> /\ linked' = [linked EXCEPT ![a] = Linking!NoRow]
      /\ renewal' = renewal \/ renewal' = [renewal EXCEPT ![a] = Linking!NoRenewal]
      /\ Linking!RevokeToken(linked[a])
  BY DEF Linking!Disconnect, Linking!deleteConnection
<1>2. now' \in [Mailbox -> Nat]
  BY <1>1 DEF Linking!RevokeToken, LinkInv, LinkTypes
<1>3. LinkTypes'
  BY <1>1, <1>2 DEF LinkInv, LinkTypes, RowStates, Linking!NoRow, Linking!NoRenewal, Credentials,
     Linking!Nothing, Providers
<1>4. \A b \in Linking!Rows' : b \in Linking!Rows /\ linked'[b] = linked[b]
  BY <1>1 DEF LinkInv, LinkTypes, Linking!Rows
<1>5. \A b \in Linking!Address : RenewalHolds(b)'
  BY <1>1 DEF LinkInv, LinkTypes, RenewalHolds, Linking!NoRenewal
<1> QED BY <1>1, <1>3, <1>4, <1>5 DEF LinkInv, WholeRow, LinkHolds, ByConsent, ByPassword

LEMMA RevokeKeeps == LinkInv /\ Linking!Revoke => LinkInv'
<1> SUFFICES ASSUME LinkInv, Linking!Revoke PROVE LinkInv'
  OBVIOUS
<1>1. UNCHANGED <<linked, link, renewal, torn>> /\ now' \in [Mailbox -> Nat]
  BY DEF Linking!Revoke, LinkInv, LinkTypes
<1> QED BY <1>1 DEF LinkInv, LinkTypes, WholeRow, LinkHolds, ByConsent, ByPassword, RenewalHolds,
  Linking!Rows

LEMMA LinksInvariance ==
  ASSUME MailboxesArePairs, LinkInv, [Linking!Next]_(Linking!vars) PROVE LinkInv'
<1>1. CASE UNCHANGED Linking!vars
  BY <1>1 DEF Linking!vars, LinkInv, LinkTypes, WholeRow, LinkHolds, ByConsent, ByPassword,
     RenewalHolds, Linking!Rows
<1>2. ASSUME NEW w \in Worker, Linking!Link(w) PROVE LinkInv'
  <2>1. CASE Linking!LinkOauth(w)
    BY <2>1, ConsentKeeps DEF Linking!LinkOauth
  <2>2. CASE Linking!createIcloudConnection(w) \/ Linking!createYahooConnection(w)
               \/ Linking!createCustomConnection(w)
    BY <2>2, TypedKeeps DEF Linking!createIcloudConnection, Linking!createYahooConnection,
       Linking!createCustomConnection
  <2> QED BY <1>2, <2>1, <2>2 DEF Linking!Link
<1>3. ASSUME NEW w \in Worker, NEW a \in Linking!Address, Linking!Reconnect(w, a) PROVE LinkInv'
  <2>1. Linking!Consent(w, <<linked[a].provider, a>>) /\ Linking!Oauth(linked[a].provider)
    BY <1>3 DEF Linking!Reconnect
  <2>2. <<linked[a].provider, a>> \in Mailbox
    BY <2>1 DEF Linking!Consent
  <2> QED BY <2>1, <2>2, ConsentKeeps
<1>4. ASSUME NEW w \in Worker, Linking!Serve(w) PROVE LinkInv'
  <2>1. CASE Linking!WhoIsIt(w) \/ Linking!Validate(w)
    <3>1. UNCHANGED <<now, linked, renewal, torn>>
      BY <2>1 DEF Linking!WhoIsIt, Linking!Validate, Linking!Elsewhere
    <3>2. \/ Linking!Ends(w)
          \/ link[w].at \in {"who", "validate"} /\ Linking!Goto(w, "store")
      BY <2>1 DEF Linking!WhoIsIt, Linking!Validate
    <3> QED BY <3>1, <3>2, EndsKeeps, GoesOn
  <2> QED BY <1>4, <2>1, BorrowKeeps, DiscoverKeeps, StoreKeeps DEF Linking!Serve
<1>5. ASSUME NEW a \in Linking!Address, Linking!Use(a) PROVE LinkInv'
  BY <1>5, StartRefreshKeeps, EndRefreshKeeps, SyncKeeps, DisconnectKeeps DEF Linking!Use
<1> QED BY <1>1, <1>2, <1>3, <1>4, <1>5, RevokeKeeps DEF Linking!Next

\* createConnection of server-utils.ts: whatever links of an address meet, by
\* whatever providers, and whatever is refreshed, synced, revoked and removed
\* meanwhile, its row opens that mailbox with what its provider needs, unless a
\* refresh of another provider's tokens ended on it.
THEOREM LinkedRowsAreWhole ==
  MailboxesArePairs => (Linking!Spec => []Linking!RowsAreWhole)
<1> SUFFICES ASSUME MailboxesArePairs PROVE Linking!Spec => []Linking!RowsAreWhole
  OBVIOUS
<1>1. Linking!Init => LinkInv
  BY DEF Linking!Init, LinkInv, LinkTypes, RowStates, LinkStates, LinkHolds, RenewalHolds, Linking!Rows,
     Linking!NoRow, Linking!NoRenewal, Linking!Idle, Linking!Nothing, Credentials, Providers
<1>2. LinkInv => Linking!RowsAreWhole
  BY DEF LinkInv, WholeRow, Linking!RowsAreWhole
<1>3. LinkInv /\ [Linking!Next]_(Linking!vars) => LinkInv'
  BY LinksInvariance
<1> QED BY <1>1, <1>2, <1>3, PTL DEF Linking!Spec
=============================================================================
