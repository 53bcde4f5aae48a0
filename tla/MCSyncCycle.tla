---------------------------- MODULE MCSyncCycle ----------------------------
(* Small instances of SyncCycle for TLC. *)
EXTENDS SyncCycle, TLC

CONSTANTS t1, t2, t3, r1, r2

\* Two threads in the inbox when the connection is made, a third to come.
MCInitialMail == [t \in Thread |-> IF t = t1 THEN 1 ELSE IF t = t2 THEN 2 ELSE 0]

Symmetry == Permutations(Run)
=============================================================================
