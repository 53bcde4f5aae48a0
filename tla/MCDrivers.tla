----------------------------- MODULE MCDrivers -----------------------------
(* Drivers with a thread of two messages and a thread of one.              *)
EXTENDS Drivers, TLC

MCRoot == <<1, 1, 3>>
MCMailboxes == {<<{"INBOX", "UNREAD"}, {"SENT"}, {"INBOX"}>>}
\* The workers are interchangeable, and the run checks no liveness property.
Workers == Permutations(Worker)
=============================================================================
