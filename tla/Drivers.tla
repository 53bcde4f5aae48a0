------------------------------- MODULE Drivers -------------------------------
(***************************************************************************)
(* How the three kinds of driver change labels: GoogleMailManager and      *)
(* OutlookMailManager (driver/google.ts, driver/microsoft.ts) and the      *)
(* managers over transport/imap.ts.  One change is many requests, each of  *)
(* which may fail, and the changes of other workers come in between.       *)
(***************************************************************************)
EXTENDS Labels, Integers, Sequences

CONSTANTS
  Message,
  Root,        \* the first message of each message's thread
  Mailboxes,   \* the labels the messages may begin with
  Worker,      \* server actions that change labels, in their processes
  Change,      \* the changes they ask for
  ChunkSize,   \* threads Gmail is asked to modify at once, 15 in the code
  MaxRetries,  \* times Graph's throttled parts are sent again, 3 in the code
  MaxOps,      \* bound: changes asked for
  MaxFaults    \* bound: requests that fail

ASSUME DriversAssumption ==
  /\ Root \in [Message -> Message]
  /\ Mailboxes \subseteq [Message -> SUBSET Label] /\ Change \subseteq DOMAIN ChangeOf
  /\ ChunkSize \in Nat \ {0} /\ MaxRetries \in Nat
  /\ MaxOps \in Nat /\ MaxFaults \in Nat

VARIABLES
  kind,     \* the provider
  box,      \* the labels of each message
  version,  \* Graph: the number of each message's id, which a move renews
  listed,   \* the ids the client has
  op,       \* each worker's change
  ops, faults,
  excused   \* history: see MailManager

vars == <<kind, box, version, listed, op, ops, faults, excused>>

\* A folder pass of imap.ts, in order.
Passes(ch) ==
  IF IsReadMark(ch) THEN <<"INBOX", "SENT", "ARCHIVE">>
  ELSE IF ch = "delete" THEN <<"INBOX", "ARCHIVE", "SENT">>
  ELSE <<"INBOX", "SENT", "TRASH", "ARCHIVE">>

NoTags == [m \in Message |-> {}]
Idle == [pc |-> "idle", change |-> "none", of |-> {}, ids |-> version, todo |-> {}, flight |-> {},
         bad |-> FALSE, tags |-> NoTags, round |-> 0, undone |-> {}]

\* The messages a request for id changes: a thread's, or with Graph, whose lists
\* give the ids of messages, the message's (resolveMessageIds finds no
\* conversation of that name and passes the id through).
Members(id) == IF kind = "graph" THEN {id} ELSE {m \in Message : Root[m] = id}
Ids == IF kind = "graph" THEN Message ELSE {Root[m] : m \in Message}
MembersOf(ids) == UNION {Members(i) : i \in ids}

Fault == faults < MaxFaults /\ faults' = faults + 1
NoFault == UNCHANGED faults
Goto(w, pc) == op' = [op EXCEPT ![w].pc = pc]

\* Worker w's change is made to the messages ms, and its record becomes r.
Make(w, ms, r) ==
  /\ box' = [m \in Message |->
               IF m \in ms THEN Changed(kind, op[w].change, box[m]) ELSE box[m]]
  /\ op' = [op EXCEPT ![w] = [r EXCEPT !.undone = @ \ ms]]

-----------------------------------------------------------------------------
(* The server action: markAsRead, modifyLabels, toggleStar, bulkArchive, ... *)

Busy(w) == op[w].pc \notin {"idle", "ok", "failed"}

\* The messages in no folder that a change's passes visit.
Unvisited(ch, of) ==
  {m \in of : kind = "imap" /\ \A i \in DOMAIN Passes(ch) : Passes(ch)[i] \notin box[m]}

Begin(w) ==
  /\ ~Busy(w) /\ op[w].flight = {} /\ ops < MaxOps /\ ops' = ops + 1
  /\ \E ch \in Change, ids \in (SUBSET Ids) \ {{}} :
       /\ ch = "delete" => kind = "imap" /\ Cardinality(ids) = 1   \* else one request
       /\ op' = [op EXCEPT ![w] = [Idle EXCEPT
                   !.change = ch, !.of = MembersOf(ids), !.ids = listed, !.todo = ids,
                   !.undone = MembersOf(ids),
                   !.pc = IF kind = "gmail" /\ IsReadMark(ch) THEN "collect"
                          ELSE IF kind = "graph" /\ IsTagging(ch) THEN "tags"
                          ELSE IF kind = "imap" THEN "folders" ELSE "send"]]
       /\ excused' = [excused EXCEPT ![w] = Unvisited(ch, MembersOf(ids))]
  /\ UNCHANGED <<kind, box, version, listed, faults>>

\* The client lists the mail again.
List ==
  /\ listed # version /\ listed' = version
  /\ UNCHANGED <<kind, box, version, op, ops, faults, excused>>

-----------------------------------------------------------------------------
(* Gmail *)

\* modifyThreadLabels sends a chunk.
SendChunk(w) ==
  /\ kind = "gmail" /\ op[w].pc = "send" /\ op[w].flight = {} /\ op[w].todo # {}
  /\ \E chunk \in SUBSET op[w].todo :
       /\ Cardinality(chunk) = IF Cardinality(op[w].todo) < ChunkSize
                               THEN Cardinality(op[w].todo) ELSE ChunkSize
       /\ op' = [op EXCEPT ![w].todo = @ \ chunk, ![w].flight = chunk]
  /\ UNCHANGED <<kind, box, version, listed, ops, faults>>

\* threads.modify changes the messages of a thread together.  The first request
\* that fails ends the operation (Effect.all), whatever is still under way.
Modified(w) ==
  \E id \in op[w].flight :
    /\ kind = "gmail"
    /\ \/ NoFault /\ Make(w, Members(id), [op[w] EXCEPT !.flight = @ \ {id}])
       \/ /\ Fault    \* its response is lost
          /\ Make(w, Members(id), [op[w] EXCEPT !.flight = @ \ {id}, !.pc = "failed"])
    /\ UNCHANGED <<kind, version, listed, ops>>

NotModified(w) ==
  \E id \in op[w].flight :
    /\ kind = "gmail" /\ Fault
    /\ op' = [op EXCEPT ![w].flight = @ \ {id}, ![w].pc = "failed"]
    /\ UNCHANGED <<kind, box, version, listed, ops>>

\* Variant: a change is over when its last chunk has been sent.
AllSentEarly(w) == op[w].todo = {}

\* Every chunk is answered.
AllSent(w) == op[w].todo = {} /\ op[w].flight = {}

ChunksDone(w) ==
  /\ kind = "gmail" /\ op[w].pc = "send" /\ AllSent(w) /\ Goto(w, "ok")
  /\ UNCHANGED <<kind, box, version, listed, ops, faults>>

\* collectMessageIds: the messages that are not yet as they are to be.
ToMark(ch, ms) == {m \in ms : Changed(kind, ch, box[m]) # box[m]}

Collect(w) ==
  /\ op[w].pc = "collect"
  /\ \/ /\ NoFault
        /\ LET to == ToMark(op[w].change, op[w].of)
           IN op' = [op EXCEPT ![w].pc = "mark", ![w].todo = to, ![w].undone = to]
     \/ Fault /\ Goto(w, "failed")
  /\ UNCHANGED <<kind, box, version, listed, ops>>

\* batchModifyMessages: one request.
Mark(w) ==
  /\ op[w].pc = "mark"
  /\ \/ NoFault /\ Make(w, op[w].todo, [op[w] EXCEPT !.pc = "ok", !.todo = {}])
     \/ Fault /\ Make(w, op[w].todo, [op[w] EXCEPT !.pc = "failed"])
     \/ Fault /\ Goto(w, "failed") /\ UNCHANGED box
  /\ UNCHANGED <<kind, version, listed, ops>>

-----------------------------------------------------------------------------
(* Graph *)

Known(w, m) == op[w].ids[m] = version[m]

\* The categories of a message are read, to be written with the change; an id
\* that a move has renewed is not found.
ReadTags(w) ==
  /\ op[w].pc = "tags"
  /\ \E m \in op[w].todo :
       \/ /\ Known(w, m) /\ NoFault
          /\ LET todo == op[w].todo \ {m}
             IN op' = [op EXCEPT ![w].todo = IF todo = {} THEN op[w].of ELSE todo,
                                 ![w].tags[m] = box[m] \intersect Tags,
                                 ![w].pc = IF todo = {} THEN "send" ELSE "tags"]
       \/ ~Known(w, m) /\ NoFault /\ Goto(w, "failed")
       \/ Fault /\ Goto(w, "failed")
  /\ UNCHANGED <<kind, box, version, listed, ops>>

\* What a part leaves: a PATCH of categories writes those that were read.
Written(w, m) ==
  IF IsTagging(op[w].change)
  THEN (box[m] \ Tags) \union Changed(kind, op[w].change, op[w].tags[m])
  ELSE Changed(kind, op[w].change, box[m])

Moves(ch) == ~IsTagging(ch) /\ ~IsReadMark(ch)

\* executeBatch: a part is answered; it is done, ...
PartDone(w) ==
  \E m \in op[w].todo :
    /\ kind = "graph" /\ op[w].pc = "send" /\ Known(w, m) /\ m \notin op[w].flight
    /\ box' = [box EXCEPT ![m] = Written(w, m)]
    /\ version' = IF Moves(op[w].change) THEN [version EXCEPT ![m] = @ + 1] ELSE version
    /\ op' = [op EXCEPT ![w].todo = @ \ {m}, ![w].undone = @ \ {m}]
    /\ UNCHANGED <<kind, listed, ops, faults>>

\* ... throttled, to be sent again while there are retries, ...
PartThrottled(w) ==
  \E m \in op[w].todo \ op[w].flight :
    /\ kind = "graph" /\ op[w].pc = "send" /\ Fault
    /\ op' = [op EXCEPT ![w] =
                IF op[w].round < MaxRetries THEN [op[w] EXCEPT !.flight = @ \union {m}]
                ELSE [op[w] EXCEPT !.todo = @ \ {m}, !.bad = TRUE]]
    /\ UNCHANGED <<kind, box, version, listed, ops>>

\* ... or refused.
PartRefused(w) ==
  \E m \in op[w].todo \ op[w].flight :
    /\ kind = "graph" /\ op[w].pc = "send"
    /\ IF Known(w, m) THEN Fault ELSE NoFault
    /\ op' = [op EXCEPT ![w].todo = @ \ {m}, ![w].bad = TRUE]
    /\ UNCHANGED <<kind, box, version, listed, ops>>

\* The parts of the batch have been answered: a refused one fails the change,
\* and throttled ones make the next batch.
Answered(w) == op[w].todo = op[w].flight

BatchDone(w) ==
  /\ kind = "graph" /\ op[w].pc = "send" /\ Answered(w)
  /\ op' = [op EXCEPT ![w].pc = IF op[w].bad THEN "failed"
                                ELSE IF op[w].todo = {} THEN "ok" ELSE "send",
                      ![w].flight = {}, ![w].round = @ + 1]
  /\ UNCHANGED <<kind, box, version, listed, ops, faults>>

-----------------------------------------------------------------------------
(* IMAP *)

Folder(w) == Passes(op[w].change)[op[w].round + 1]
InFolder(w) == {m \in op[w].of : Folder(w) \in box[m]}

\* modifyLabels, markMessages and deleteMessages of imap.ts pass through the folders.  What goes
\* wrong in one is caught, and the next is begun.
FolderPass(w) ==
  /\ op[w].pc = "folders" /\ op[w].round < Len(Passes(op[w].change))
  /\ \/ NoFault /\ Make(w, InFolder(w), [op[w] EXCEPT !.round = @ + 1])
     \/ Fault /\ op' = [op EXCEPT ![w].round = @ + 1] /\ UNCHANGED box
     \/ Fault /\ op[w].round = 0 /\ Goto(w, "failed") /\ UNCHANGED box   \* connect
  /\ UNCHANGED <<kind, version, listed, ops>>

PassesDone(w) ==
  /\ op[w].pc = "folders" /\ op[w].round = Len(Passes(op[w].change)) /\ Goto(w, "ok")
  /\ UNCHANGED <<kind, box, version, listed, ops, faults>>

-----------------------------------------------------------------------------
\* Where there are folders, a message is in one of them.
InOneFolder == kind # "gmail" => \A m \in Message : Cardinality(box[m] \intersect Folders) = 1

Init ==
  /\ kind \in Kind
  /\ box \in Mailboxes /\ InOneFolder
  /\ version = [m \in Message |-> 0] /\ listed = version
  /\ op = [w \in Worker |-> Idle] /\ ops = 0 /\ faults = 0
  /\ excused = [w \in Worker |-> {}]

\* A step of w excuses what is in a folder that has failed w, and what it has
\* shaken under the changes of others.
Excuse(w) ==
  excused' = [v \in Worker |->
    excused[v] \union
      IF v # w THEN {m \in op[v].undone : Footing(kind, box'[m]) # Footing(kind, box[m])}
      ELSE IF kind = "imap" /\ faults' # faults THEN InFolder(w) ELSE {}]

Request(w) ==
  \/ SendChunk(w) \/ Modified(w) \/ NotModified(w) \/ ChunksDone(w)
  \/ Collect(w) \/ Mark(w)
  \/ ReadTags(w) \/ PartDone(w) \/ PartThrottled(w) \/ PartRefused(w) \/ BatchDone(w)
  \/ FolderPass(w) \/ PassesDone(w)
Step(w) == Request(w) /\ Excuse(w)
Next == List \/ \E w \in Worker : Begin(w) \/ Step(w)

\* Requests are answered and a server action runs on.
Spec == Init /\ [][Next]_vars /\ \A w \in Worker : WF_vars(Step(w))

-----------------------------------------------------------------------------
(* Properties *)

\* Each variable has its type, and a message stays in one folder.
TypeOK ==
  /\ kind \in Kind /\ box \in [Message -> SUBSET Label] /\ InOneFolder
  /\ version \in [Message -> Nat] /\ listed \in [Message -> Nat]
  /\ \A w \in Worker :
       /\ op[w].pc \in {"idle", "collect", "mark", "tags", "send", "folders", "ok", "failed"}
       /\ op[w].of \subseteq Message /\ op[w].undone \subseteq op[w].of
       /\ op[w].todo \subseteq Message /\ op[w].flight \subseteq Message
       /\ excused[w] \subseteq Message

\* A worker's change as the interface sees it.
Asked(w) ==
  [change |-> op[w].change, of |-> op[w].of, left |-> op[w].undone,
   answer |-> IF op[w].pc \in {"ok", "failed"} THEN op[w].pc ELSE "none"]

\* The drivers do what the interface promises: a request changes only the
\* messages it is for, and only as the change says, though others change them
\* too; and ok is answered only when every one has changed.  Others may shake
\* two of the kinds under way: Graph writes tags over those it has read
\* (microsoft.ts:736-757), and IMAP leaves what is moved past its passes, and
\* what is in a folder that fails (imap.ts:654, :723).  Each of these is let
\* off for just the messages it has happened to.
Manager == INSTANCE MailManager WITH asked <- [w \in Worker |-> Asked(w)]
Implements == Manager!Spec

\* Every change is answered, throttled or not.
OpsEnd == \A w \in Worker : Busy(w) ~> ~Busy(w)

\* microsoft.ts:732-733, of a PATCH of categories: "read each message's current
\* categories first, then write the merged set": it changes no other tag.
TagsMerged ==
  [][\A w \in Worker, m \in Message :
       (PartDone(w) /\ box'[m] # box[m]) => box'[m] = Changed(kind, op[w].change, box[m])]_vars

\* imap.ts:608, of what goes wrong in a folder: "skip folders that don't exist
\* or can't be opened".  A change of messages in folders that do is made before
\* it is called done.
OnlyMissingSkipped ==
  \A w \in Worker : (kind = "imap" /\ op[w].pc = "ok") => op[w].undone = {}

\* microsoft.ts:726: "Callers pass thread ids (= Graph conversation ids)".
\* A change is not refused for an id that a move has renewed.
IdsLast ==
  [][\A w \in Worker : PartRefused(w) => faults' # faults]_vars
=============================================================================
