---------------------------- MODULE MCActionLog ----------------------------
(* Small instances of ActionLog for TLC. *)
EXTENDS ActionLog, TLC

CONSTANTS k1, k2, w1, w2, a, b

\* w1 publishes two records and deletes them together, w2 competes for each.
\* Only w1 deletes k1; both delete k2.
MCRequest ==
  (w1 :> {(k1 :> a) @@ (k2 :> a), (k1 :> Absent) @@ (k2 :> Absent)})
  @@ (w2 :> {(k1 :> b) @@ (k2 :> Untouched), (k1 :> Untouched) @@ (k2 :> a),
             (k1 :> Untouched) @@ (k2 :> Absent)})
=============================================================================
