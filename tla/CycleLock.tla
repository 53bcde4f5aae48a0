----------------------------- MODULE CycleLock -----------------------------
(***************************************************************************)
(* What the lock of a connection promises its cycles ("Claims the row-     *)
(* level lock"), however the row keeps it: whoever finds it taken stays    *)
(* out, and it is free again only when nobody is at work under it, whether *)
(* they released it or are gone.                                           *)
(***************************************************************************)
CONSTANT Run

VARIABLES
  taken,   \* a contender would be refused
  working  \* the runs that are between their claim and their release

vars == <<taken, working>>

Init == taken = FALSE /\ working = {}

Enter(r) == ~taken /\ taken' = TRUE /\ working' = working \union {r}

\* It is taken for nobody: the claim's result was lost.
TakeInVain == ~taken /\ taken' = TRUE /\ UNCHANGED working

Leave(r) == r \in working /\ working' = working \ {r} /\ UNCHANGED taken

Free == taken /\ working = {} /\ taken' = FALSE /\ UNCHANGED working

Next == (\E r \in Run : Enter(r) \/ Leave(r)) \/ TakeInVain \/ Free

Spec == Init /\ [][Next]_vars
=============================================================================
