---------------------------- MODULE MailManager ----------------------------
(***************************************************************************)
(* What the MailManager interface (driver/types.ts) promises of a change   *)
(* of labels, whichever provider stands behind it: the messages asked for  *)
(* change, nothing else does, and the answer is ok only when they have;    *)
(* but for the messages that excused names, which Graph may change by tags *)
(* that are no longer theirs, and IMAP may leave.                          *)
(***************************************************************************)
EXTENDS Labels, Naturals

CONSTANTS Message, Worker, Change

VARIABLES
  kind, box, asked,
  excused,  \* the messages of each change which others have changed in what it
            \* goes by, or which were in a folder that failed, or in none it visits
  faults    \* requests that have failed

vars == <<kind, box, asked, excused, faults>>

Idle == [change |-> "none", of |-> {}, left |-> {}, answer |-> "none"]

Init ==
  /\ kind \in Kind
  /\ box \in [Message -> SUBSET Label]
  /\ asked = [w \in Worker |-> Idle]
  /\ excused = [w \in Worker |-> {}] /\ faults = 0

Asking(w) == asked[w].change # "none" /\ asked[w].answer = "none"

\* The folders in which IMAP looks for the messages of a change.
Visited(ch) == IF IsReadMark(ch) \/ ch = "delete" THEN Folders \ {"TRASH"} ELSE Folders

\* A server action asks for a change of some messages.
Ask(w) ==
  \E ch \in Change, of \in (SUBSET Message) \ {{}} :
    /\ ~Asking(w)
    /\ asked' = [asked EXCEPT ![w] =
                   [change |-> ch, of |-> of, left |-> of, answer |-> "none"]]
    /\ excused' = [excused EXCEPT ![w] =
                     {m \in of : kind = "imap" /\ box[m] \intersect Visited(ch) = {}}]
    /\ UNCHANGED <<kind, box, faults>>

\* What w's change may make of message m: the change, or, when others have
\* changed the tags since Graph read them, the change of some other tags.
Makes(w, m) ==
  {Changed(kind, asked[w].change, box[m])}
    \union {(box[m] \ Tags) \union Changed(kind, asked[w].change, read) :
              read \in IF kind = "graph" /\ IsTagging(asked[w].change) /\ m \in excused[w]
                       THEN SUBSET Tags ELSE {}}

\* What w has not done to some, in a folder in which something goes wrong.
Passed(w) ==
  {{}} \union {{m \in asked[w].of : f \in box[m]} :
                f \in IF kind = "imap" /\ faults' = faults + 1 THEN Folders ELSE {}}

\* Some of them change, and the answer may be given: ok only if they all have.
\* Requests that are under way may do their work after a failure.
Work(w) ==
  \E some \in SUBSET asked[w].of, answer \in {"none", "ok", "failed"} :
    /\ asked[w].answer = "none" \/ (asked[w].answer = "failed" /\ answer = "failed")
    /\ box' \in [Message -> SUBSET Label]
    /\ \A m \in Message : box'[m] \in IF m \in some THEN Makes(w, m) ELSE {box[m]}
    /\ asked' = [asked EXCEPT ![w].left = @ \ some, ![w].answer = answer]
    /\ faults' \in {faults, faults + 1}
    /\ \E passed \in Passed(w) :
         excused' = [v \in Worker |->
           excused[v] \union
             IF v = w THEN passed
             ELSE {m \in asked[v].left : Footing(kind, box'[m]) # Footing(kind, box[m])}]
    /\ answer = "ok" => asked'[w].left \subseteq IF kind = "imap" THEN excused'[w] ELSE {}
    /\ UNCHANGED kind

Next == \E w \in Worker : Ask(w) \/ Work(w)

Spec == Init /\ [][Next]_vars
=============================================================================
