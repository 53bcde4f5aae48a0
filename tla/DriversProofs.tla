--------------------------- MODULE DriversProofs ---------------------------
(***************************************************************************)
(* Proofs about Drivers, for any messages, threads, workers, chunk size    *)
(* and retries: type correctness (which includes that a message is always  *)
(* in one folder), and that the drivers implement MailManager.             *)
(***************************************************************************)
EXTENDS Drivers, FiniteSetTheorems, TLAPS

Pcs == {"idle", "collect", "mark", "tags", "send", "folders", "ok", "failed"}

Op ==
  [pc : Pcs, change : Change \union {"none"}, of : SUBSET Message, ids : [Message -> Nat],
   todo : SUBSET Message, flight : SUBSET Message, bad : BOOLEAN,
   tags : [Message -> SUBSET Tags], round : Nat, undone : SUBSET Message]

Typed ==
  /\ kind \in Kind /\ box \in [Message -> SUBSET Label]
  /\ version \in [Message -> Nat] /\ listed \in [Message -> Nat]
  /\ op \in [Worker -> Op] /\ ops \in Nat /\ faults \in Nat
  /\ excused \in [Worker -> SUBSET Message]

\* Where there are folders, a message is in one.
OneFolder == kind # "gmail" => \A m \in Message : \E f \in Folders : box[m] \intersect Folders = {f}

\* What is undone of a change is still to be asked of the provider, or under way.
Shape(k, r) ==
  /\ r.undone \subseteq r.of
  /\ r.pc = "idle" => r.change = "none" /\ r.of = {} /\ r.undone = {}
  /\ r.pc # "idle" => r.change \in Change
  /\ r.pc = "collect" => k = "gmail" /\ r.undone = r.of
  /\ r.pc = "mark" => k = "gmail" /\ r.undone \subseteq r.todo /\ r.todo \subseteq r.of
  /\ r.pc = "tags" => /\ k = "graph" /\ r.todo \subseteq r.of /\ r.undone = r.of /\ ~r.bad
                      /\ r.flight = {}
  /\ r.pc = "folders" => k = "imap"
  /\ r.pc = "send" =>
       /\ k # "imap"
       /\ k = "gmail" =>
            /\ \A m \in Message : Root[m] \in r.todo => m \in r.of
            /\ \A m \in r.undone : Root[m] \in r.todo \union r.flight
       /\ k = "graph" => /\ r.flight \subseteq r.todo /\ r.todo \subseteq r.of \intersect r.undone
                         /\ ~r.bad => r.undone \subseteq r.todo
  /\ k = "gmail" => /\ r.pc \notin {"send", "failed"} => r.flight = {}
                    /\ \A m \in Message : Root[m] \in r.flight => m \in r.of

\* With Graph, what a change of tags has read is still so, but of the messages
\* that others have shaken under it.
Tagging(w) == Busy(w) /\ IsTagging(op[w].change)
TagsRead(w, r) ==
  /\ r.pc = "tags" =>
       \A m \in (r.of \ r.todo) \ excused[w] : r.tags[m] = box[m] \intersect Tags
  /\ r.pc = "send" => \A m \in r.todo \ excused[w] : r.tags[m] = box[m] \intersect Tags
TagsInv == kind = "graph" => \A w \in Worker : Tagging(w) => TagsRead(w, op[w])

\* With IMAP, what is undone is in a folder that is still to be visited.
Ahead(r, labels) ==
  \E i \in (r.round + 1)..Len(Passes(r.change)) : Passes(r.change)[i] \in labels
PassesInv ==
  kind = "imap" => \A w \in Worker :
    op[w].pc = "folders" => \A m \in op[w].undone \ excused[w] : Ahead(op[w], box[m])

Inv ==
  Typed /\ OneFolder /\ (\A w \in Worker : Shape(kind, op[w])) /\ TagsInv /\ PassesInv
-----------------------------------------------------------------------------
(* Changes of labels *)

LEMMA Constants ==
  /\ Root \in [Message -> Message] /\ Mailboxes \subseteq [Message -> SUBSET Label]
  /\ Change \subseteq DOMAIN ChangeOf /\ "none" \notin DOMAIN ChangeOf
  /\ ChunkSize \in Nat \ {0} /\ MaxRetries \in Nat
  BY DriversAssumption DEF ChangeOf

\* A change is of tags, or of none.
LEMMA ChangeTyped ==
  ASSUME NEW ch \in DOMAIN ChangeOf
  PROVE  /\ ChangeOf[ch].add \subseteq Label /\ ChangeOf[ch].remove \subseteq Label
         /\ ~IsTagging(ch) => (ChangeOf[ch].add \union ChangeOf[ch].remove) \intersect Tags = {}
         /\ \/ ChangeOf[ch].add \intersect Folders = {}
            \/ \E f \in Folders : ChangeOf[ch].add \intersect Folders = {f}
<1>1. ch \in {"archive", "unarchive", "trash", "delete", "star", "unstar", "important", "read",
              "unread"}
  BY DEF ChangeOf
<1>2. CASE ch = "archive"
  BY <1>2 DEF ChangeOf, IsTagging, Tags, Label, Folders
<1>3. CASE ch = "unarchive"
  BY <1>3 DEF ChangeOf, IsTagging, Tags, Label, Folders
<1>4. CASE ch \in {"trash", "delete"}
  BY <1>4 DEF ChangeOf, IsTagging, Tags, Label, Folders
<1>5. CASE ch \in {"star", "unstar", "important"}
  BY <1>5 DEF ChangeOf, IsTagging, Tags, Label, Folders
<1>6. CASE ch \in {"read", "unread"}
  BY <1>6 DEF ChangeOf, IsTagging, Tags, Label, Folders
<1> QED BY <1>1, <1>2, <1>3, <1>4, <1>5, <1>6

\* What Tag makes of the labels of a change.
LEMMA TagTyped ==
  ASSUME NEW k, NEW ls \in SUBSET Label
  PROVE  Tag(k, ls) \subseteq Label /\ Tag(k, ls) \intersect Folders = ls \intersect Folders
         /\ (k # "imap" => Tag(k, ls) = ls)
  BY DEF Tag, Label, Tags, Folders

LEMMA ChangedTyped ==
  ASSUME NEW k \in Kind, NEW ch \in DOMAIN ChangeOf, NEW ls \in SUBSET Label
  PROVE  Changed(k, ch, ls) \subseteq Label
<1> DEFINE add == Tag(k, ChangeOf[ch].add)
           remove == Tag(k, ChangeOf[ch].remove)
<1>1. add \subseteq Label /\ remove \subseteq Label
  BY ChangeTyped, TagTyped
<1> HIDE DEF add, remove
<1>2. Place(add, remove, ls) \subseteq Label
  BY <1>1 DEF Place, Label, Folders
<1>3. Changed(k, ch, ls) = IF k = "gmail" THEN (ls \union add) \ remove
                           ELSE (((ls \union add) \ remove) \ Folders) \union Place(add, remove, ls)
  BY DEF Changed, add, remove
<1> QED BY <1>1, <1>2, <1>3

\* Where there are folders, a message in one is in one afterwards.
LEMMA OneFolderStays ==
  ASSUME NEW k \in Kind, k # "gmail", NEW ch \in DOMAIN ChangeOf, NEW ls \in SUBSET Label,
         NEW f \in Folders, ls \intersect Folders = {f}
  PROVE  \E g \in Folders : Changed(k, ch, ls) \intersect Folders = {g}
<1> DEFINE add == Tag(k, ChangeOf[ch].add)
           remove == Tag(k, ChangeOf[ch].remove)
           place == Place(add, remove, ls)
<1>1. add \intersect Folders = {} \/ \E g \in Folders : add \intersect Folders = {g}
  BY ChangeTyped, TagTyped
<1>2. Changed(k, ch, ls) = (((ls \union add) \ remove) \ Folders) \union place
  BY DEF Changed
<1> HIDE DEF add, remove
<1>3. \E g \in Folders : place = {g}
  BY <1>1 DEF Place, Folders
<1>4. place \subseteq Folders
  BY <1>3
<1> HIDE DEF place
<1>5. Changed(k, ch, ls) \intersect Folders = place
  BY <1>2, <1>4
<1> QED BY <1>3, <1>5

\* With Graph, a change of tags depends on the tags only, and leaves the rest;
\* any other change leaves the tags.
LEMMA TaggingOfTags ==
  ASSUME NEW ch \in DOMAIN ChangeOf, IsTagging(ch), NEW ls \in SUBSET Label, NEW ts \in SUBSET Tags
  PROVE  /\ Changed("graph", ch, ts) \subseteq Tags
         /\ ts = ls \intersect Tags =>
              Changed("graph", ch, ls) = (ls \ Tags) \union Changed("graph", ch, ts)
<1> DEFINE add == ChangeOf[ch].add
           remove == ChangeOf[ch].remove
<1>1. add \subseteq Tags /\ remove \subseteq Tags /\ Tags \intersect Folders = {}
  BY DEF IsTagging, Tags, Folders
<1>2. \A s : Changed("graph", ch, s)
               = (((s \union add) \ remove) \ Folders) \union Place(add, remove, s)
  BY DEF Changed, Tag
<1> HIDE DEF add, remove
<1>3. \A s : Place(add, remove, s) = s \intersect Folders
  BY <1>1 DEF Place
<1>4. \A s : Changed("graph", ch, s)
               = (((s \union add) \ remove) \ Folders) \union (s \intersect Folders)
  BY <1>2, <1>3
<1>5. Changed("graph", ch, ts) = (ts \union add) \ remove
  BY <1>1, <1>4
<1>6. ts = ls \intersect Tags =>
        (((ls \union add) \ remove) \ Folders) \union (ls \intersect Folders)
          = (ls \ Tags) \union ((ts \union add) \ remove)
  BY <1>1
<1> QED BY <1>1, <1>4, <1>5, <1>6

LEMMA OthersLeaveTags ==
  ASSUME NEW ch \in DOMAIN ChangeOf, ~IsTagging(ch), NEW ls \in SUBSET Label
  PROVE  Changed("graph", ch, ls) \intersect Tags = ls \intersect Tags
<1> DEFINE add == ChangeOf[ch].add
           remove == ChangeOf[ch].remove
<1>1. (add \union remove) \intersect Tags = {} /\ Tags \intersect Folders = {}
  BY ChangeTyped DEF Tags, Folders
<1>2. Changed("graph", ch, ls)
        = (((ls \union add) \ remove) \ Folders) \union Place(add, remove, ls)
  BY DEF Changed, Tag
<1> HIDE DEF add, remove
<1>3. Place(add, remove, ls) \subseteq Folders
  BY DEF Place, Folders
<1> QED BY <1>1, <1>2, <1>3

LEMMA FoldersCount ==
  ASSUME NEW ls \in SUBSET Label
  PROVE  Cardinality(ls \intersect Folders) = 1 <=> \E f \in Folders : ls \intersect Folders = {f}
<1>1. IsFiniteSet(ls \intersect Folders)
  <2>1. IsFiniteSet(Folders)
    <3>1. Folders = {"INBOX"} \union {"SENT"} \union {"TRASH"} \union {"ARCHIVE"}
      BY DEF Folders
    <3> QED BY <3>1, FS_Singleton, FS_Union
  <2> QED BY <2>1, FS_Subset
<1>2. ASSUME Cardinality(ls \intersect Folders) = 1
      PROVE  \E f \in Folders : ls \intersect Folders = {f}
  BY <1>1, <1>2, FS_Singleton
<1>3. ASSUME NEW f \in Folders, ls \intersect Folders = {f}
      PROVE  Cardinality(ls \intersect Folders) = 1
  <2>1. Cardinality({f}) = 1
    BY FS_Singleton
  <2> QED BY <1>3, <2>1
<1> QED BY <1>2, <1>3

-----------------------------------------------------------------------------
(* What every step of a change does *)

\* Worker w's record becomes r, with the messages ms no longer undone.
Turns(w, r, ms) ==
  /\ op' = [op EXCEPT ![w] = r] /\ r \in Op /\ Shape(kind, r)
  /\ ms \subseteq op[w].of
  /\ r.change = op[w].change /\ r.of = op[w].of /\ r.undone = op[w].undone \ ms
  /\ op[w].pc \notin {"idle", "ok"} /\ r.pc # "idle"
  /\ op[w].pc = "failed" => r.pc = "failed"
  /\ r.pc = "ok" => r.undone \subseteq IF kind = "imap" THEN excused[w] ELSE {}
  /\ UNCHANGED <<kind, ops>>
  /\ version' \in [Message -> Nat] /\ listed' \in [Message -> Nat]
  /\ faults' \in {faults, faults + 1}

\* The messages ms have w's change made to them.
Made(w, ms) ==
  box' = [m \in Message |->
            IF m \in ms THEN Changed(kind, op[w].change, box[m]) ELSE box[m]]

\* They have it made to them, or Graph's change of tags which they no longer have.
MadeOf(w, m) ==
  {Changed(kind, op[w].change, box[m])}
    \union {(box[m] \ Tags) \union Changed(kind, op[w].change, read) :
              read \in IF kind = "graph" /\ IsTagging(op[w].change) /\ m \in excused[w]
                       THEN SUBSET Tags ELSE {}}
Wrote(w, ms) ==
  \A m \in Message : box'[m] \in IF m \in ms THEN MadeOf(w, m) ELSE {box[m]}

LEMMA MadeWrote == ASSUME NEW w, NEW ms, Made(w, ms) PROVE Wrote(w, ms)
  BY DEF Made, Wrote, MadeOf

LEMMA OpTyped ==
  ASSUME Inv, NEW w \in Worker
  PROVE  op[w] \in Op /\ Shape(kind, op[w]) /\ op \in [Worker -> Op]
  BY DEF Inv, Typed

LEMMA FaultTyped == faults' = faults \/ Fault => faults' \in {faults, faults + 1}
  BY DEF Fault

LEMMA NothingMade == ASSUME Inv, NEW w, box' = box PROVE Made(w, {})
  BY DEF Inv, Typed, Made

\* What Make does.
LEMMA Makes ==
  ASSUME NEW w \in Worker, NEW ms, NEW r, Make(w, ms, r)
  PROVE  Made(w, ms) /\ op' = [op EXCEPT ![w] = [r EXCEPT !.undone = r.undone \ ms]]
  BY DEF Make, Made

LEMMA MembersAre ==
  ASSUME Inv
  PROVE  /\ kind # "graph" => \A i : Members(i) = {m \in Message : Root[m] = i}
         /\ kind = "graph" => \A i : Members(i) = {i}
         /\ Ids \subseteq Message
  BY Constants DEF Members, Ids

-----------------------------------------------------------------------------
(* Gmail *)

LEMMA SendChunkTurns ==
  ASSUME Inv, NEW w \in Worker, SendChunk(w)
  PROVE  Made(w, {}) /\ \E r : Turns(w, r, {})
<1>1. PICK chunk \in SUBSET op[w].todo :
        op' = [op EXCEPT ![w].todo = @ \ chunk, ![w].flight = chunk]
  BY DEF SendChunk
<1>2. op[w] \in Op /\ Shape("gmail", op[w]) /\ op[w].pc = "send" /\ op[w].flight = {}
      /\ kind = "gmail"
  BY OpTyped DEF SendChunk
<1> DEFINE r == [op[w] EXCEPT !.todo = @ \ chunk, !.flight = chunk]
<1>3. op' = [op EXCEPT ![w] = r]
  BY <1>1, OpTyped DEF Op
<1>4. /\ r \in Op /\ r.todo = op[w].todo \ chunk /\ r.flight = chunk /\ r.pc = "send"
      /\ r.change = op[w].change /\ r.of = op[w].of /\ r.undone = op[w].undone
  BY <1>2 DEF Op
<1> HIDE DEF r
<1>5. Shape("gmail", r)
  BY <1>2, <1>4 DEF Shape
<1>6. Turns(w, r, {})
  BY <1>2, <1>3, <1>4, <1>5 DEF Turns, SendChunk, Inv, Typed
<1> QED BY <1>6, NothingMade DEF SendChunk

LEMMA ModifiedTurns ==
  ASSUME Inv, NEW w \in Worker, Modified(w)
  PROVE  \E r, ms : Turns(w, r, ms) /\ Made(w, ms)
<1>1. PICK id \in op[w].flight, pc \in {op[w].pc, "failed"} :
        /\ Make(w, Members(id), [op[w] EXCEPT !.flight = @ \ {id}, !.pc = pc])
        /\ faults' = faults \/ Fault
  <2>1. PICK id \in op[w].flight :
          \/ NoFault /\ Make(w, Members(id), [op[w] EXCEPT !.flight = @ \ {id}])
          \/ /\ Fault
             /\ Make(w, Members(id), [op[w] EXCEPT !.flight = @ \ {id}, !.pc = "failed"])
    BY DEF Modified
  <2>2. [op[w] EXCEPT !.flight = @ \ {id}] = [op[w] EXCEPT !.flight = @ \ {id}, !.pc = op[w].pc]
    BY OpTyped DEF Op
  <2> QED BY <2>1, <2>2 DEF NoFault
<1>2. kind = "gmail" /\ op[w] \in Op /\ Shape("gmail", op[w]) /\ op[w].pc \in {"send", "failed"}
  BY <1>1, OpTyped DEF Modified, Shape
<1> DEFINE ms == Members(id)
           s == [op[w] EXCEPT !.flight = @ \ {id}, !.pc = pc]
           r == [s EXCEPT !.undone = s.undone \ ms]
<1>3. Made(w, ms) /\ op' = [op EXCEPT ![w] = r]
  BY <1>1, Makes
<1>4. ms = {m \in Message : Root[m] = id}
  BY <1>2, MembersAre
<1> HIDE DEF ms
<1>5. /\ r \in Op /\ r.todo = op[w].todo /\ r.flight = op[w].flight \ {id} /\ r.pc = pc
      /\ r.change = op[w].change /\ r.of = op[w].of /\ r.undone = op[w].undone \ ms
  BY <1>1, <1>2 DEF Op, Pcs
<1> HIDE DEF r, s
<1>6. ms \subseteq op[w].of
  BY <1>2, <1>4 DEF Shape
<1>7. \A m \in r.undone : m \in op[w].undone /\ Root[m] # id
  BY <1>2, <1>4, <1>5 DEF Op
<1>8. Shape("gmail", r)
  BY <1>1, <1>2, <1>5, <1>7 DEF Shape
<1>9. Turns(w, r, ms)
  BY <1>1, <1>2, <1>3, <1>5, <1>6, <1>8, FaultTyped DEF Turns, Modified, Inv, Typed
<1> QED BY <1>3, <1>9

\* A step that only moves a change on, or ends it.
LEMMA GotoTurns ==
  ASSUME Inv, NEW w \in Worker, NEW pc \in Pcs, NEW fl \in SUBSET op[w].flight,
         op' = [op EXCEPT ![w] = [op[w] EXCEPT !.pc = pc, !.flight = fl]],
         op[w].pc \notin {"idle", "ok"}, op[w].pc = "failed" => pc = "failed",
         \/ pc = "failed"
         \/ pc = "ok" /\ fl = {} /\ op[w].undone = {},
         UNCHANGED <<kind, box, version, listed, ops>>, faults' = faults \/ Fault
  PROVE  Made(w, {}) /\ \E r : Turns(w, r, {})
<1>1. op[w] \in Op /\ Shape(kind, op[w])
  BY OpTyped
<1> DEFINE r == [op[w] EXCEPT !.pc = pc, !.flight = fl]
<1>2. /\ r \in Op /\ r.todo = op[w].todo /\ r.flight = fl /\ r.pc = pc
      /\ r.change = op[w].change /\ r.of = op[w].of /\ r.undone = op[w].undone
  BY <1>1 DEF Op
<1>3. op' = [op EXCEPT ![w] = r]
  OBVIOUS
<1> HIDE DEF r
<1>4. Shape(kind, r)
  BY <1>1, <1>2 DEF Shape
<1>5. Turns(w, r, {})
  BY <1>1, <1>2, <1>3, <1>4, FaultTyped DEF Turns, Inv, Typed
<1> QED BY <1>5, NothingMade

\* A record with its step renewed has its flight as it was.
LEMMA GotoIs ==
  ASSUME Inv, NEW w \in Worker, NEW pc, Goto(w, pc)
  PROVE  op' = [op EXCEPT ![w] = [op[w] EXCEPT !.pc = pc, !.flight = op[w].flight]]
  BY OpTyped DEF Goto, Op

LEMMA NotModifiedTurns ==
  ASSUME Inv, NEW w \in Worker, NotModified(w)
  PROVE  Made(w, {}) /\ \E r : Turns(w, r, {})
<1>1. PICK id \in op[w].flight :
        op' = [op EXCEPT ![w].flight = @ \ {id}, ![w].pc = "failed"]
  BY DEF NotModified
<1>2. op[w].pc \notin {"idle", "ok"}
  BY OpTyped DEF NotModified, Shape
<1>3. op' = [op EXCEPT ![w] = [op[w] EXCEPT !.pc = "failed", !.flight = op[w].flight \ {id}]]
  BY <1>1, OpTyped DEF Op
<1> DEFINE fl == op[w].flight \ {id}
<1>4. fl \in SUBSET op[w].flight /\ "failed" \in Pcs
  BY DEF Pcs
<1>5. UNCHANGED <<kind, box, version, listed, ops>> /\ Fault
  BY DEF NotModified
<1> QED BY <1>2, <1>3, <1>4, <1>5, GotoTurns

LEMMA ChunksDoneTurns ==
  ASSUME Inv, NEW w \in Worker, ChunksDone(w)
  PROVE  Made(w, {}) /\ \E r : Turns(w, r, {})
<1>1. op[w].pc = "send" /\ op[w].flight = {} /\ op[w].todo = {} /\ kind = "gmail"
  BY DEF ChunksDone, AllSent
<1>2. op[w].undone = {}
  BY <1>1, OpTyped DEF Shape, Op
<1> QED BY <1>1, <1>2, GotoIs, GotoTurns DEF ChunksDone, Pcs

\* Messages that are as they are to be have nothing undone.
LEMMA CollectTurns ==
  ASSUME Inv, NEW w \in Worker, Collect(w)
  PROVE  \E r, ms : Turns(w, r, ms) /\ Made(w, ms)
<1>1. op[w] \in Op /\ Shape(kind, op[w]) /\ op[w].pc = "collect" /\ kind = "gmail"
      /\ op[w].flight = {} /\ op[w].undone = op[w].of
  BY OpTyped DEF Collect, Shape
<1> DEFINE to == ToMark(op[w].change, op[w].of)
<1>2. CASE NoFault /\ op' = [op EXCEPT ![w].pc = "mark", ![w].todo = to, ![w].undone = to]
  <2> DEFINE r == [op[w] EXCEPT !.pc = "mark", !.todo = to, !.undone = to]
             ms == op[w].of \ to
  <2>1. to \subseteq op[w].of /\ \A m \in ms : Changed(kind, op[w].change, box[m]) = box[m]
    BY DEF ToMark
  <2> HIDE DEF to
  <2>2. op' = [op EXCEPT ![w] = r]
    BY <1>2, OpTyped DEF Op
  <2>3. /\ r \in Op /\ r.todo = to /\ r.flight = op[w].flight /\ r.pc = "mark"
        /\ r.change = op[w].change /\ r.of = op[w].of /\ r.undone = to
    BY <1>1, <2>1 DEF Op, Pcs
  <2> HIDE DEF r
  <2>4. Shape(kind, r)
    BY <1>1, <2>1, <2>3 DEF Shape
  <2>5. r.undone = op[w].undone \ ms /\ ms \subseteq op[w].of
    BY <1>1, <2>1, <2>3
  <2>6. Turns(w, r, ms)
    BY <1>1, <1>2, <2>2, <2>3, <2>4, <2>5, FaultTyped DEF Turns, Collect, NoFault, Inv, Typed
  <2>7. Made(w, ms)
    BY <2>1 DEF Made, Collect, Inv, Typed
  <2> QED BY <2>6, <2>7
<1>3. CASE Fault /\ Goto(w, "failed")
  BY <1>1, <1>3, GotoIs, GotoTurns DEF Collect, Pcs
<1> QED BY <1>2, <1>3 DEF Collect

LEMMA MarkTurns ==
  ASSUME Inv, NEW w \in Worker, Mark(w)
  PROVE  \E r, ms : Turns(w, r, ms) /\ Made(w, ms)
<1>1. op[w] \in Op /\ Shape(kind, op[w]) /\ op[w].pc = "mark" /\ kind = "gmail"
      /\ op[w].flight = {} /\ op[w].undone \subseteq op[w].todo /\ op[w].todo \subseteq op[w].of
  BY OpTyped DEF Mark, Shape
<1>2. ASSUME NEW s, s \in {[op[w] EXCEPT !.pc = "ok", !.todo = {}], [op[w] EXCEPT !.pc = "failed"]},
             Make(w, op[w].todo, s), faults' = faults \/ Fault
      PROVE  \E r, ms : Turns(w, r, ms) /\ Made(w, ms)
  <2> DEFINE ms == op[w].todo
             r == [s EXCEPT !.undone = s.undone \ ms]
  <2>1. Made(w, ms) /\ op' = [op EXCEPT ![w] = r]
    BY <1>2, Makes
  <2>2. /\ s \in Op /\ s.pc \in {"ok", "failed"} /\ s.change = op[w].change /\ s.of = op[w].of
        /\ s.undone = op[w].undone /\ s.flight = {}
    BY <1>1, <1>2 DEF Op, Pcs
  <2>3. /\ r \in Op /\ r.pc \in {"ok", "failed"} /\ r.change = op[w].change /\ r.of = op[w].of
        /\ r.undone = {} /\ r.undone = op[w].undone \ ms /\ r.flight = {}
    BY <1>1, <2>2 DEF Op
  <2> HIDE DEF r
  <2>4. Shape(kind, r)
    BY <1>1, <2>3 DEF Shape
  <2>5. Turns(w, r, ms)
    BY <1>1, <1>2, <2>1, <2>3, <2>4, FaultTyped DEF Turns, Mark, Inv, Typed
  <2> QED BY <2>1, <2>5
<1>3. CASE Fault /\ Goto(w, "failed") /\ UNCHANGED box
  BY <1>1, <1>3, GotoIs, GotoTurns DEF Mark, Pcs
<1> QED BY <1>2, <1>3 DEF Mark, NoFault

-----------------------------------------------------------------------------
(* IMAP *)

\* A change's passes visit these folders.
LEMMA PassesAre ==
  ASSUME NEW ch
  PROVE  /\ Len(Passes(ch)) \in Nat /\ DOMAIN Passes(ch) = 1..Len(Passes(ch))
         /\ \A i \in 1..Len(Passes(ch)) : Passes(ch)[i] \in Folders
         /\ {Passes(ch)[i] : i \in DOMAIN Passes(ch)} = Manager!Visited(ch)
<1>1. CASE IsReadMark(ch)
  <2>1. Passes(ch) = <<"INBOX", "SENT", "ARCHIVE">>
    BY <1>1 DEF Passes
  <2>2. Manager!Visited(ch) = {"INBOX", "SENT", "ARCHIVE"}
    BY <1>1 DEF Manager!Visited, Manager!IsReadMark, IsReadMark, Manager!Folders
  <2> QED BY <2>1, <2>2 DEF Folders
<1>2. CASE ~IsReadMark(ch) /\ ch = "delete"
  <2>1. Passes(ch) = <<"INBOX", "ARCHIVE", "SENT">>
    BY <1>2 DEF Passes
  <2>2. Manager!Visited(ch) = {"INBOX", "SENT", "ARCHIVE"}
    BY <1>2 DEF Manager!Visited, Manager!Folders
  <2> QED BY <2>1, <2>2 DEF Folders
<1>3. CASE ~IsReadMark(ch) /\ ch # "delete"
  <2>1. Passes(ch) = <<"INBOX", "SENT", "TRASH", "ARCHIVE">>
    BY <1>3 DEF Passes
  <2>2. Manager!Visited(ch) = {"INBOX", "SENT", "TRASH", "ARCHIVE"}
    BY <1>3 DEF Manager!Visited, Manager!IsReadMark, IsReadMark, Manager!Folders
  <2> QED BY <2>1, <2>2 DEF Folders
<1> QED BY <1>1, <1>2, <1>3

\* A step of w keeps what is ahead of the passes of others.
LEMMA PassesKept ==
  ASSUME Inv, NEW w \in Worker, NEW r, NEW ms, Turns(w, r, ms), Excuse(w),
         r.pc = "folders" => \A m \in r.undone \ excused'[w] : Ahead(r, box'[m])
  PROVE  PassesInv'
<1> SUFFICES ASSUME kind = "imap", NEW v \in Worker, op'[v].pc = "folders",
                    NEW m \in op'[v].undone \ excused'[v]
             PROVE  Ahead(op'[v], box'[m])
  BY DEF PassesInv, Turns, Ahead
<1>1. op'[w] = r /\ \A u \in Worker : u # w => op'[u] = op[u]
  BY OpTyped DEF Turns
<1>2. CASE v = w
  BY <1>1, <1>2
<1>3. CASE v # w
  <2>1. op'[v] = op[v] /\ m \in op[v].undone \ excused[v]
        /\ box'[m] \intersect Folders = box[m] \intersect Folders
    BY <1>1, <1>3 DEF Excuse, Footing
  <2>2. Ahead(op[v], box[m])
    BY <2>1 DEF Inv, PassesInv
  <2>3. PICK i \in (op[v].round + 1)..Len(Passes(op[v].change)) :
          Passes(op[v].change)[i] \in box[m]
    BY <2>2 DEF Ahead
  <2>4. op[v].round \in Nat
    BY OpTyped DEF Op
  <2>5. Passes(op[v].change)[i] \in Folders
    BY <2>3, <2>4, PassesAre
  <2> QED BY <2>1, <2>3, <2>5 DEF Ahead
<1> QED BY <1>2, <1>3

LEMMA FolderPassTurns ==
  ASSUME Inv, NEW w \in Worker, FolderPass(w), Excuse(w)
  PROVE  /\ PassesInv' /\ \E r, ms : Turns(w, r, ms) /\ Made(w, ms)
         /\ Folder(w) \in Folders
<1>1. /\ op[w] \in Op /\ Shape("imap", op[w]) /\ op[w].pc = "folders" /\ kind = "imap"
      /\ op[w].round \in Nat /\ op[w].round < Len(Passes(op[w].change)) /\ faults \in Nat
  BY OpTyped DEF FolderPass, Shape, Op, Inv, Typed
<1> DEFINE s == [op[w] EXCEPT !.round = @ + 1]
<1>2. /\ s \in Op /\ s.pc = "folders" /\ s.change = op[w].change /\ s.of = op[w].of
      /\ s.undone = op[w].undone /\ s.flight = op[w].flight /\ s.round = op[w].round + 1
  BY <1>1 DEF Op
<1>3. Folder(w) \in Folders
  BY <1>1, PassesAre DEF Folder
<1>4. excused[w] \subseteq excused'[w] /\ (faults' # faults => InFolder(w) \subseteq excused'[w])
  BY <1>1 DEF Excuse
\* What is undone, and not in this folder, is in a later one.
<1>5. ASSUME NEW m \in op[w].undone \ excused'[w], m \notin InFolder(w), box'[m] = box[m],
             NEW r, r.change = op[w].change, r.round = op[w].round + 1
      PROVE  Ahead(r, box'[m])
  <2>1. PICK i \in (op[w].round + 1)..Len(Passes(op[w].change)) :
          Passes(op[w].change)[i] \in box[m]
    BY <1>1, <1>4, <1>5 DEF Inv, PassesInv, Ahead
  <2>2. i # op[w].round + 1
    BY <1>1, <1>5, <2>1 DEF InFolder, Folder, Shape
  <2>3. i \in (r.round + 1)..Len(Passes(r.change))
    BY <1>1, <1>5, <2>1, <2>2, PassesAre
  <2> QED BY <1>5, <2>1, <2>3 DEF Ahead
<1>6. CASE NoFault /\ Make(w, InFolder(w), s)
  <2> DEFINE ms == InFolder(w)
             r == [s EXCEPT !.undone = s.undone \ ms]
  <2>1. Made(w, ms) /\ op' = [op EXCEPT ![w] = r]
    BY <1>6, Makes
  <2>2. ms \subseteq op[w].of
    BY DEF InFolder
  <2> HIDE DEF ms, s
  <2>3. /\ r \in Op /\ r.pc = "folders" /\ r.change = op[w].change /\ r.of = op[w].of
        /\ r.undone = op[w].undone \ ms /\ r.flight = op[w].flight /\ r.round = op[w].round + 1
    BY <1>2 DEF Op
  <2> HIDE DEF r
  <2>4. Shape("imap", r)
    BY <1>1, <2>3 DEF Shape
  <2>5. Turns(w, r, ms)
    BY <1>1, <1>6, <2>1, <2>2, <2>3, <2>4 DEF Turns, FolderPass, Inv, Typed, NoFault
  <2>6. \A m \in r.undone \ excused'[w] : Ahead(r, box'[m])
    <3> SUFFICES ASSUME NEW m \in r.undone \ excused'[w] PROVE Ahead(r, box'[m])
      OBVIOUS
    <3>1. m \in op[w].undone \ excused'[w] /\ m \notin ms /\ m \in Message
      BY <1>1, <2>3 DEF Op
    <3>2. box'[m] = box[m]
      BY <2>1, <3>1 DEF Made
    <3> QED BY <1>5, <2>3, <3>1, <3>2 DEF ms
  <2> QED BY <1>3, <2>1, <2>5, <2>6, PassesKept
<1>7. CASE Fault /\ op' = [op EXCEPT ![w].round = @ + 1] /\ UNCHANGED box
  <2>1. op' = [op EXCEPT ![w] = s]
    BY <1>7, OpTyped DEF Op
  <2> HIDE DEF s
  <2>2. Shape("imap", s)
    BY <1>1, <1>2 DEF Shape
  <2>3. Turns(w, s, {})
    BY <1>1, <1>2, <1>7, <2>1, <2>2, FaultTyped DEF Turns, FolderPass, Inv, Typed
  <2>4. faults' # faults
    BY <1>1, <1>7 DEF Fault
  <2>5. \A m \in s.undone \ excused'[w] : Ahead(s, box'[m])
    BY <1>2, <1>4, <1>5, <1>7, <2>4
  <2> QED BY <1>3, <1>7, <2>3, <2>5, NothingMade, PassesKept
<1>8. CASE Fault /\ Goto(w, "failed") /\ UNCHANGED box
  <2>1. PICK r : Turns(w, r, {}) /\ Made(w, {})
    BY <1>1, <1>8, GotoIs, GotoTurns DEF FolderPass, Pcs
  <2>2. op'[w].pc = "failed" /\ op'[w] = r
    BY <1>8, <2>1, OpTyped DEF Goto, Turns, Op
  <2>3. r.pc # "folders"
    BY <2>2
  <2> QED BY <1>3, <2>1, <2>3, PassesKept
<1> QED BY <1>6, <1>7, <1>8 DEF FolderPass

LEMMA PassesDoneTurns ==
  ASSUME Inv, NEW w \in Worker, PassesDone(w), Excuse(w)
  PROVE  PassesInv' /\ Made(w, {}) /\ \E r : Turns(w, r, {})
<1>1. op[w] \in Op /\ Shape(kind, op[w]) /\ op[w].pc = "folders" /\ kind = "imap"
  BY OpTyped DEF PassesDone, Shape
<1> DEFINE r == [op[w] EXCEPT !.pc = "ok"]
<1>2. op' = [op EXCEPT ![w] = r]
  BY OpTyped DEF PassesDone, Goto, Op
<1>3. /\ r \in Op /\ r.pc = "ok" /\ r.change = op[w].change /\ r.of = op[w].of
      /\ r.undone = op[w].undone
  BY <1>1 DEF Op, Pcs
<1> HIDE DEF r
<1>4. Shape("imap", r)
  BY <1>1, <1>3 DEF Shape
<1>5. op[w].undone \subseteq excused[w]
  <2>1. \A m : ~Ahead(op[w], box[m])
    BY PassesAre DEF Ahead, PassesDone
  <2> QED BY <1>1, <2>1 DEF Inv, PassesInv
<1>6. Turns(w, r, {})
  BY <1>1, <1>2, <1>3, <1>4, <1>5 DEF Turns, PassesDone, Inv, Typed
<1>7. r.pc # "folders"
  BY <1>3
<1> QED BY <1>6, <1>7, NothingMade, PassesKept DEF PassesDone

-----------------------------------------------------------------------------
(* Graph *)

\* What is written of a message whose tags were read and have not changed is
\* the change; in any case it leaves the message in its folder or moves it to one.
LEMMA WrittenIs ==
  ASSUME Inv, NEW w \in Worker, kind = "graph", op[w].change \in Change, NEW m \in Message
  PROVE  /\ Written(w, m) \subseteq Label
         /\ \E f \in Folders : Written(w, m) \intersect Folders = {f}
         /\ (IsTagging(op[w].change) /\ m \notin excused[w] =>
                op[w].tags[m] = box[m] \intersect Tags) => Written(w, m) \in MadeOf(w, m)
         /\ ~IsTagging(op[w].change) => Written(w, m) \intersect Tags = box[m] \intersect Tags
<1> DEFINE ch == op[w].change
           ts == op[w].tags[m]
<1>1. ch \in DOMAIN ChangeOf /\ box[m] \in SUBSET Label /\ ts \in SUBSET Tags /\ kind \in Kind
  BY Constants, OpTyped DEF Inv, Typed, Op
<1>2. PICK f \in Folders : box[m] \intersect Folders = {f}
  BY DEF Inv, OneFolder
<1>3. CASE IsTagging(ch)
  <2>1. Written(w, m) = (box[m] \ Tags) \union Changed(kind, ch, ts)
    BY <1>3 DEF Written
  <2>2. Changed("graph", ch, ts) \subseteq Tags
        /\ (ts = box[m] \intersect Tags =>
              Changed("graph", ch, box[m]) = (box[m] \ Tags) \union Changed("graph", ch, ts))
    BY <1>1, <1>3, TaggingOfTags
  <2>3. Tags \subseteq Label /\ Tags \intersect Folders = {}
    BY DEF Tags, Label, Folders
  <2>4. Written(w, m) \intersect Folders = {f}
    BY <1>2, <2>1, <2>2, <2>3
  <2>5. m \in excused[w] => Written(w, m) \in MadeOf(w, m)
    BY <1>1, <1>3, <2>1 DEF MadeOf
  <2>6. ts = box[m] \intersect Tags => Written(w, m) \in MadeOf(w, m)
    BY <2>1, <2>2 DEF MadeOf
  <2> QED BY <1>1, <1>3, <2>1, <2>2, <2>3, <2>4, <2>5, <2>6
<1>4. CASE ~IsTagging(ch)
  <2>1. Written(w, m) = Changed(kind, ch, box[m])
    BY <1>4 DEF Written
  <2>2. Changed(kind, ch, box[m]) \subseteq Label
    BY <1>1, ChangedTyped
  <2>3. \E g \in Folders : Changed(kind, ch, box[m]) \intersect Folders = {g}
    BY <1>1, <1>2, OneFolderStays
  <2>4. Changed(kind, ch, box[m]) \intersect Tags = box[m] \intersect Tags
    BY <1>1, <1>4, OthersLeaveTags
  <2>5. Written(w, m) \in MadeOf(w, m)
    BY <2>1 DEF MadeOf
  <2> QED BY <1>4, <2>1, <2>2, <2>3, <2>4, <2>5
<1> QED BY <1>3, <1>4

\* Steps of other workers keep what a change has read of the tags, or excuse it.
LEMMA TagsKept ==
  ASSUME Inv, NEW w \in Worker, NEW r, NEW ms, Turns(w, r, ms), Excuse(w),
         kind = "graph" /\ Tagging(w)' =>
           /\ r.pc = "tags" =>
                \A m \in (r.of \ r.todo) \ excused[w] : r.tags[m] = box'[m] \intersect Tags
           /\ r.pc = "send" =>
                \A m \in r.todo \ excused[w] : r.tags[m] = box'[m] \intersect Tags
  PROVE  TagsInv'
<1> SUFFICES ASSUME kind = "graph", NEW v \in Worker, Tagging(v)'
             PROVE  TagsRead(v, op[v])'
  BY DEF TagsInv, Turns
<1>1. /\ op'[w] = r /\ \A u \in Worker : u # w => op'[u] = op[u]
  BY OpTyped DEF Turns
<1>2. CASE v = w
  <2>1. excused'[w] = excused[w]
    BY DEF Excuse, Inv, Typed
  <2> QED BY <1>1, <1>2, <2>1 DEF TagsRead
<1>3. CASE v # w
  <2>1. Tagging(v) /\ op'[v] = op[v] /\ op[v] \in Op /\ Shape("graph", op[v])
    BY <1>1, <1>3, OpTyped DEF Tagging, Busy
  <2>2. \A m \in op[v].undone \ excused'[v] :
          m \notin excused[v] /\ box'[m] \intersect Tags = box[m] \intersect Tags
    BY <1>3 DEF Excuse, Footing
  <2>3. /\ op[v].pc = "tags" => op[v].undone = op[v].of
        /\ op[v].pc = "send" => op[v].todo \subseteq op[v].undone
    BY <2>1 DEF Shape
  <2>4. TagsRead(v, op[v])
    BY <2>1 DEF Inv, TagsInv
  <2> QED BY <2>1, <2>2, <2>3, <2>4 DEF TagsRead
<1> QED BY <1>2, <1>3

LEMMA ReadTagsTurns ==
  ASSUME Inv, NEW w \in Worker, ReadTags(w), Excuse(w)
  PROVE  TagsInv' /\ Made(w, {}) /\ \E r : Turns(w, r, {})
<1>1. op[w] \in Op /\ Shape("graph", op[w]) /\ op[w].pc = "tags" /\ kind = "graph" /\ box' = box
  BY OpTyped DEF ReadTags, Shape
<1>2. ASSUME NEW m \in op[w].todo, NoFault,
             LET todo == op[w].todo \ {m}
             IN op' = [op EXCEPT ![w].todo = IF todo = {} THEN op[w].of ELSE todo,
                                 ![w].tags[m] = box[m] \intersect Tags,
                                 ![w].pc = IF todo = {} THEN "send" ELSE "tags"]
      PROVE  TagsInv' /\ \E r : Turns(w, r, {})
  <2> DEFINE todo == op[w].todo \ {m}
             left == IF todo = {} THEN op[w].of ELSE todo
             pc == IF todo = {} THEN "send" ELSE "tags"
             tags == [op[w].tags EXCEPT ![m] = box[m] \intersect Tags]
             r == [op[w] EXCEPT !.todo = left, !.tags = tags, !.pc = pc]
  <2>1. op' = [op EXCEPT ![w] = r]
    BY <1>1, <1>2, OpTyped DEF Op
  <2>2. op[w].tags \in [Message -> SUBSET Tags] /\ op[w].todo \subseteq op[w].of
        /\ op[w].of \subseteq Message
    BY <1>1 DEF Op, Shape
  <2>3. /\ tags \in [Message -> SUBSET Tags] /\ tags[m] = box[m] \intersect Tags
        /\ \A n \in Message : n # m => tags[n] = op[w].tags[n]
    BY <2>2
  <2>4. left \subseteq op[w].of /\ left \subseteq Message /\ pc \in {"send", "tags"}
        /\ (pc = "send" => left = op[w].of /\ op[w].todo = {m})
        /\ (pc = "tags" => left = op[w].todo \ {m})
    BY <2>2
  <2> HIDE DEF left, pc, tags
  <2>5. /\ r \in Op /\ r.todo = left /\ r.pc = pc /\ r.tags = tags /\ r.flight = op[w].flight
        /\ r.bad = op[w].bad
        /\ r.change = op[w].change /\ r.of = op[w].of /\ r.undone = op[w].undone
    BY <1>1, <2>3, <2>4 DEF Op, Pcs
  <2> HIDE DEF r
  <2>6. Shape("graph", r)
    BY <1>1, <2>4, <2>5 DEF Shape
  <2>7. Turns(w, r, {})
    BY <1>1, <1>2, <2>1, <2>4, <2>5, <2>6 DEF Turns, ReadTags, NoFault, Inv, Typed
  <2>8. Tagging(w)' => Tagging(w)
    BY <1>1, <2>1, <2>5, OpTyped DEF Tagging, Busy
  <2>9. ASSUME Tagging(w)'
        PROVE  /\ r.pc = "tags" =>
                    \A n \in (r.of \ r.todo) \ excused[w] : r.tags[n] = box[n] \intersect Tags
               /\ r.pc = "send" =>
                    \A n \in r.todo \ excused[w] : r.tags[n] = box[n] \intersect Tags
    <3>1. \A n \in (op[w].of \ op[w].todo) \ excused[w] :
            op[w].tags[n] = box[n] \intersect Tags
      BY <1>1, <2>8, <2>9 DEF Inv, TagsInv, TagsRead
    <3>2. \A n \in (op[w].of \ (op[w].todo \ {m})) \ excused[w] :
            tags[n] = box[n] \intersect Tags
      BY <2>2, <2>3, <3>1
    <3> QED BY <2>4, <2>5, <3>2
  <2>10. TagsInv'
    BY <1>1, <2>7, <2>9, TagsKept
  <2> QED BY <2>7, <2>10
<1>3. ASSUME Goto(w, "failed"), faults' = faults \/ Fault
      PROVE  TagsInv' /\ \E r : Turns(w, r, {})
  <2> DEFINE r == [op[w] EXCEPT !.pc = "failed"]
  <2>1. op' = [op EXCEPT ![w] = r]
    BY <1>3, OpTyped DEF Goto, Op
  <2>2. /\ r \in Op /\ r.pc = "failed" /\ r.change = op[w].change /\ r.of = op[w].of
        /\ r.undone = op[w].undone
    BY <1>1 DEF Op, Pcs
  <2> HIDE DEF r
  <2>3. Shape("graph", r)
    BY <1>1, <2>2 DEF Shape
  <2>4. Turns(w, r, {})
    BY <1>1, <1>3, <2>1, <2>2, <2>3, FaultTyped DEF Turns, ReadTags, Inv, Typed
  <2>5. ~Tagging(w)'
    BY <2>1, <2>2, OpTyped DEF Tagging, Busy
  <2> QED BY <1>1, <2>4, <2>5, TagsKept
<1> QED BY <1>1, <1>2, <1>3, NothingMade DEF ReadTags, NoFault

\* The parts of a batch that are not done leave the messages as they are.
LEMMA PartLeftTurns ==
  ASSUME Inv, NEW w \in Worker, kind = "graph", op[w].pc = "send", Excuse(w),
         NEW r \in Op, op' = [op EXCEPT ![w] = r],
         r.todo \subseteq op[w].todo, r.flight \subseteq r.todo,
         r.pc \in {"send", "ok", "failed"}, r.tags = op[w].tags,
         r.change = op[w].change, r.of = op[w].of, r.undone = op[w].undone,
         ~r.bad => ~op[w].bad /\ r.todo = op[w].todo,
         r.pc = "ok" => ~r.bad /\ r.todo = {},
         UNCHANGED <<kind, box, version, listed, ops>>, faults' = faults \/ Fault
  PROVE  TagsInv' /\ Made(w, {}) /\ \E s : Turns(w, s, {})
<1>1. op[w] \in Op /\ Shape("graph", op[w])
  BY OpTyped
<1>2. Shape("graph", r) /\ (r.pc = "ok" => r.undone = {})
  BY <1>1 DEF Shape
<1>3. Turns(w, r, {})
  BY <1>1, <1>2, FaultTyped DEF Turns, Inv, Typed
<1>4. Tagging(w)' => Tagging(w)
  BY OpTyped DEF Tagging, Busy
<1>5. Tagging(w)' => \A m \in r.todo \ excused[w] : r.tags[m] = box[m] \intersect Tags
  BY <1>4 DEF Inv, TagsInv, TagsRead
<1>6. r.pc # "tags"
  OBVIOUS
<1>7. TagsInv'
  BY <1>3, <1>5, <1>6, TagsKept
<1> QED BY <1>3, <1>7, NothingMade

LEMMA PartThrottledTurns ==
  ASSUME Inv, NEW w \in Worker, PartThrottled(w), Excuse(w)
  PROVE  TagsInv' /\ Made(w, {}) /\ \E r : Turns(w, r, {})
<1>1. op[w] \in Op /\ Shape("graph", op[w]) /\ op[w].pc = "send" /\ kind = "graph" /\ Fault
      /\ UNCHANGED <<kind, box, version, listed, ops>>
  BY OpTyped DEF PartThrottled
<1>2. PICK m \in op[w].todo \ op[w].flight :
        op' = [op EXCEPT ![w] =
                 IF op[w].round < MaxRetries THEN [op[w] EXCEPT !.flight = @ \union {m}]
                 ELSE [op[w] EXCEPT !.todo = @ \ {m}, !.bad = TRUE]]
  BY DEF PartThrottled
<1>3. op[w].flight \subseteq op[w].todo /\ op[w].todo \subseteq Message /\ op[w] \in Op
  BY <1>1 DEF Shape, Op
<1> DEFINE again == [op[w] EXCEPT !.flight = @ \union {m}]
           never == [op[w] EXCEPT !.todo = @ \ {m}, !.bad = TRUE]
<1>4. op' = [op EXCEPT ![w] = IF op[w].round < MaxRetries THEN again ELSE never]
  BY <1>2
<1>5. CASE op[w].round < MaxRetries
  <2> DEFINE r == again
  <2>1. /\ r \in Op /\ r.todo = op[w].todo /\ r.flight = op[w].flight \union {m}
        /\ r.pc = op[w].pc /\ r.tags = op[w].tags /\ r.bad = op[w].bad
        /\ r.change = op[w].change /\ r.of = op[w].of /\ r.undone = op[w].undone
    BY <1>3 DEF Op
  <2> HIDE DEF again
  <2>2. op' = [op EXCEPT ![w] = r]
    BY <1>5, <1>4
  <2> HIDE DEF r
  <2> QED BY <1>1, <1>3, <2>2, <2>1, PartLeftTurns
<1>6. CASE ~(op[w].round < MaxRetries)
  <2> DEFINE r == never
  <2>1. /\ r \in Op /\ r.todo = op[w].todo \ {m} /\ r.flight = op[w].flight
        /\ r.pc = op[w].pc /\ r.tags = op[w].tags /\ r.bad = TRUE
        /\ r.change = op[w].change /\ r.of = op[w].of /\ r.undone = op[w].undone
    BY <1>3 DEF Op
  <2> HIDE DEF never
  <2>2. op' = [op EXCEPT ![w] = r]
    BY <1>6, <1>4
  <2> HIDE DEF r
  <2> QED BY <1>1, <1>3, <2>2, <2>1, PartLeftTurns
<1> QED BY <1>5, <1>6

LEMMA PartRefusedTurns ==
  ASSUME Inv, NEW w \in Worker, PartRefused(w), Excuse(w)
  PROVE  TagsInv' /\ Made(w, {}) /\ \E r : Turns(w, r, {})
<1>1. op[w] \in Op /\ Shape("graph", op[w]) /\ op[w].pc = "send" /\ kind = "graph"
      /\ UNCHANGED <<kind, box, version, listed, ops>>
  BY OpTyped DEF PartRefused
<1>2. PICK m \in op[w].todo \ op[w].flight :
        /\ op' = [op EXCEPT ![w].todo = @ \ {m}, ![w].bad = TRUE]
        /\ IF Known(w, m) THEN Fault ELSE NoFault
  BY DEF PartRefused
<1>3. op[w].flight \subseteq op[w].todo /\ op[w].todo \subseteq Message /\ op[w] \in Op
  BY <1>1 DEF Shape, Op
<1> DEFINE r == [op[w] EXCEPT !.todo = @ \ {m}, !.bad = TRUE]
<1>4. op' = [op EXCEPT ![w] = r]
  BY <1>2, OpTyped DEF Op
<1>5. /\ r \in Op /\ r.todo = op[w].todo \ {m} /\ r.flight = op[w].flight
      /\ r.pc = op[w].pc /\ r.tags = op[w].tags /\ r.bad = TRUE
      /\ r.change = op[w].change /\ r.of = op[w].of /\ r.undone = op[w].undone
  BY <1>3 DEF Op
<1>6. faults' = faults \/ Fault
  BY <1>2 DEF NoFault
<1> HIDE DEF r
<1> QED BY <1>1, <1>3, <1>4, <1>5, <1>6, PartLeftTurns

LEMMA BatchDoneTurns ==
  ASSUME Inv, NEW w \in Worker, BatchDone(w), Excuse(w)
  PROVE  TagsInv' /\ Made(w, {}) /\ \E r : Turns(w, r, {})
<1>1. op[w] \in Op /\ op[w].pc = "send" /\ kind = "graph"
  BY OpTyped DEF BatchDone
<1>2. UNCHANGED <<kind, box, version, listed, ops>> /\ faults' = faults
  BY DEF BatchDone
<1> DEFINE pc == IF op[w].bad THEN "failed" ELSE IF op[w].todo = {} THEN "ok" ELSE "send"
           round == op[w].round + 1
           r == [op[w] EXCEPT !.pc = pc, !.flight = {}, !.round = round]
<1>3. op' = [op EXCEPT ![w].pc = pc, ![w].flight = {}, ![w].round = round]
  BY OpTyped DEF BatchDone, Op
<1>4. pc \in Pcs /\ pc \in {"send", "ok", "failed"} /\ (pc = "ok" => ~op[w].bad /\ op[w].todo = {})
  BY DEF Pcs
<1>5. round \in Nat
  BY <1>1 DEF Op
<1> HIDE DEF pc, round
<1>6. op' = [op EXCEPT ![w] = r]
  BY <1>3, OpTyped DEF Op
<1>7. /\ r \in Op /\ r.todo = op[w].todo /\ r.flight = {}
      /\ r.pc = pc /\ r.tags = op[w].tags /\ r.bad = op[w].bad
      /\ r.change = op[w].change /\ r.of = op[w].of /\ r.undone = op[w].undone
  BY <1>1, <1>4, <1>5 DEF Op
<1> HIDE DEF r
<1> QED BY <1>1, <1>2, <1>4, <1>6, <1>7, PartLeftTurns

LEMMA PartDoneTurns ==
  ASSUME Inv, NEW w \in Worker, PartDone(w), Excuse(w)
  PROVE  /\ TagsInv' /\ box' \in [Message -> SUBSET Label] /\ OneFolder'
         /\ \E r, m : Turns(w, r, {m}) /\ Wrote(w, {m})
<1>1. op[w] \in Op /\ Shape("graph", op[w]) /\ op[w].pc = "send" /\ kind = "graph" /\ kind' = kind
      /\ op[w].change \in Change
  BY OpTyped DEF PartDone, Shape
<1>2. PICK m \in op[w].todo :
        /\ m \notin op[w].flight
        /\ box' = [box EXCEPT ![m] = Written(w, m)]
        /\ version' = IF Moves(op[w].change) THEN [version EXCEPT ![m] = @ + 1] ELSE version
        /\ op' = [op EXCEPT ![w].todo = @ \ {m}, ![w].undone = @ \ {m}]
        /\ UNCHANGED <<kind, listed, ops, faults>>
  BY DEF PartDone
<1>3. m \in Message /\ m \in op[w].of
  BY <1>1 DEF Op, Shape
<1> DEFINE r == [op[w] EXCEPT !.todo = @ \ {m}, !.undone = @ \ {m}]
<1>4. op' = [op EXCEPT ![w] = r]
  BY <1>2, OpTyped DEF Op
<1>5. /\ r \in Op /\ r.todo = op[w].todo \ {m} /\ r.pc = "send" /\ r.bad = op[w].bad
      /\ r.flight = op[w].flight /\ r.tags = op[w].tags
      /\ r.change = op[w].change /\ r.of = op[w].of /\ r.undone = op[w].undone \ {m}
  BY <1>1 DEF Op
<1> HIDE DEF r
<1>6. Shape("graph", r)
  BY <1>1, <1>2, <1>5 DEF Shape
<1>7. Turns(w, r, {m})
  <2>1. version' \in [Message -> Nat]
    <3>1. version \in [Message -> Nat] /\ [version EXCEPT ![m] = @ + 1] \in [Message -> Nat]
      BY <1>3 DEF Inv, Typed
    <3> QED BY <1>2, <3>1
  <2>2. listed' \in [Message -> Nat] /\ faults' = faults /\ UNCHANGED <<kind, ops>>
    BY <1>2 DEF Inv, Typed
  <2> QED BY <1>1, <1>3, <1>4, <1>5, <1>6, <2>1, <2>2 DEF Turns
<1>8. /\ box \in [Message -> SUBSET Label] /\ box'[m] = Written(w, m)
      /\ \A n \in Message : n # m => box'[n] = box[n]
  BY <1>2, <1>3 DEF Inv, Typed
<1>9. box' \in [Message -> SUBSET Label] /\ OneFolder'
  <2>1. Written(w, m) \subseteq Label /\ \E f \in Folders : Written(w, m) \intersect Folders = {f}
    BY <1>1, <1>3, WrittenIs
  <2>2. \A n \in Message : \E f \in Folders : box'[n] \intersect Folders = {f}
    BY <1>1, <1>8, <2>1 DEF Inv, OneFolder
  <2> QED BY <1>2, <1>8, <2>1, <2>2 DEF OneFolder
<1>10. Tagging(w) <=> IsTagging(op[w].change)
  BY <1>1 DEF Tagging, Busy
<1>11. IsTagging(op[w].change) =>
         \A n \in op[w].todo \ excused[w] : op[w].tags[n] = box[n] \intersect Tags
  BY <1>1, <1>10 DEF Inv, TagsInv, TagsRead
<1>12. Wrote(w, {m})
  <2>1. Written(w, m) \in MadeOf(w, m)
    BY <1>1, <1>3, <1>11, WrittenIs
  <2> QED BY <1>8, <2>1 DEF Wrote
<1>13. TagsInv'
  <2>1. Tagging(w)' => Tagging(w)
    BY <1>1, <1>4, <1>5, <1>10, OpTyped DEF Tagging, Busy
  <2>2. Tagging(w)' => \A n \in r.todo \ excused[w] : r.tags[n] = box'[n] \intersect Tags
    <3>1. \A n \in r.todo : n \in Message /\ n # m /\ n \in op[w].todo
      BY <1>1, <1>5 DEF Op
    <3> QED BY <1>5, <1>8, <1>10, <1>11, <2>1, <3>1
  <2> QED BY <1>1, <1>5, <1>7, <2>2, TagsKept
<1> QED BY <1>7, <1>9, <1>12, <1>13

-----------------------------------------------------------------------------
(* Type correctness *)

\* The changes that are made leave labels, and a message in one folder.
LEMMA MadeTyped ==
  ASSUME Inv, NEW w \in Worker, NEW r, NEW ms, Turns(w, r, ms), Made(w, ms)
  PROVE  box' \in [Message -> SUBSET Label] /\ OneFolder'
<1>1. op[w].change \in DOMAIN ChangeOf /\ kind \in Kind /\ box \in [Message -> SUBSET Label]
  BY OpTyped, Constants DEF Turns, Shape, Inv, Typed
<1>2. \A m \in Message : Changed(kind, op[w].change, box[m]) \subseteq Label
  BY <1>1, ChangedTyped
<1>3. box' \in [Message -> SUBSET Label]
  BY <1>1, <1>2 DEF Made
<1>4. ASSUME kind # "gmail", NEW m \in Message
      PROVE  \E f \in Folders : box'[m] \intersect Folders = {f}
  <2>1. PICK f \in Folders : box[m] \intersect Folders = {f}
    BY <1>4 DEF Inv, OneFolder
  <2>2. \E g \in Folders : Changed(kind, op[w].change, box[m]) \intersect Folders = {g}
    BY <1>1, <1>4, <2>1, OneFolderStays
  <2>3. box'[m] = IF m \in ms THEN Changed(kind, op[w].change, box[m]) ELSE box[m]
    BY DEF Made
  <2> QED BY <2>1, <2>2, <2>3
<1> QED BY <1>3, <1>4 DEF OneFolder, Turns

LEMMA TurnsInv ==
  ASSUME Inv, NEW w \in Worker, NEW r, NEW ms, Turns(w, r, ms), Excuse(w),
         box' \in [Message -> SUBSET Label], OneFolder', TagsInv', PassesInv'
  PROVE  Inv'
<1>1. op'[w] = r /\ (\A v \in Worker : v # w => op'[v] = op[v]) /\ op' \in [Worker -> Op]
  BY OpTyped DEF Turns
<1>2. kind' = kind /\ Shape(kind, r)
  BY DEF Turns
<1>3. \A v \in Worker : Shape(kind', op'[v])
  BY <1>1, <1>2, OpTyped
<1>4. excused' \in [Worker -> SUBSET Message]
  <2>1. \A v \in Worker : op[v].undone \subseteq Message /\ op[v].of \subseteq Message
    BY OpTyped DEF Op
  <2> QED BY <2>1 DEF Excuse, InFolder, Inv, Typed
<1>5. faults' \in Nat
  BY DEF Turns, Inv, Typed
<1>6. Typed'
  BY <1>1, <1>4, <1>5 DEF Turns, Inv, Typed
<1> QED BY <1>3, <1>6 DEF Inv

\* What every step of a worker's change is.
LEMMA StepTurns ==
  ASSUME Inv, NEW w \in Worker, Step(w)
  PROVE  /\ \E r, ms : /\ Turns(w, r, ms) /\ Wrote(w, ms)
                       /\ box' \in [Message -> SUBSET Label] /\ OneFolder'
         /\ TagsInv' /\ PassesInv' /\ Excuse(w)
         /\ kind = "imap" /\ faults' # faults => Folder(w) \in Folders
<1>1. Request(w) /\ Excuse(w)
  BY DEF Step
<1>2. ASSUME NEW r, NEW ms, Turns(w, r, ms), Made(w, ms)
      PROVE  Wrote(w, ms) /\ box' \in [Message -> SUBSET Label] /\ OneFolder'
  BY <1>2, MadeTyped, MadeWrote
<1>3. CASE SendChunk(w) \/ NotModified(w) \/ ChunksDone(w) \/ Modified(w) \/ Collect(w) \/ Mark(w)
  <2>1. kind = "gmail"
    BY <1>3, OpTyped
       DEF SendChunk, NotModified, ChunksDone, Modified, Collect, Mark, Shape
  <2>2. PICK r, ms : Turns(w, r, ms) /\ Made(w, ms)
    BY <1>3, SendChunkTurns, NotModifiedTurns, ChunksDoneTurns, ModifiedTurns, CollectTurns,
       MarkTurns
  <2>3. TagsInv' /\ PassesInv'
    BY <2>1, <2>2 DEF TagsInv, PassesInv, Turns
  <2> QED BY <1>1, <1>2, <2>1, <2>2, <2>3
<1>4. CASE FolderPass(w) \/ PassesDone(w)
  <2>1. kind = "imap"
    BY <1>4, OpTyped DEF FolderPass, PassesDone, Shape
  <2>2. PICK r, ms : Turns(w, r, ms) /\ Made(w, ms)
    BY <1>1, <1>4, FolderPassTurns, PassesDoneTurns
  <2>3. TagsInv'
    BY <2>1, <2>2 DEF TagsInv, Turns
  <2>4. PassesInv' /\ (faults' # faults => Folder(w) \in Folders)
    BY <1>1, <1>4, FolderPassTurns, PassesDoneTurns DEF PassesDone
  <2> QED BY <1>1, <1>2, <2>2, <2>3, <2>4
<1>5. CASE \/ ReadTags(w) \/ PartThrottled(w) \/ PartRefused(w) \/ BatchDone(w) \/ PartDone(w)
  <2>1. kind = "graph"
    BY <1>5, OpTyped
       DEF ReadTags, PartThrottled, PartRefused, BatchDone, PartDone, Shape
  <2>2. PICK r, ms : /\ Turns(w, r, ms) /\ Wrote(w, ms) /\ TagsInv'
                     /\ box' \in [Message -> SUBSET Label] /\ OneFolder'
    <3>1. CASE PartDone(w)
      BY <1>1, <3>1, PartDoneTurns
    <3>2. CASE ~PartDone(w)
      <4>1. PICK r : TagsInv' /\ Made(w, {}) /\ Turns(w, r, {})
        BY <1>1, <1>5, <3>2, ReadTagsTurns, PartThrottledTurns, PartRefusedTurns, BatchDoneTurns
      <4> QED BY <1>2, <4>1
    <3> QED BY <3>1, <3>2
  <2>3. PassesInv'
    BY <2>1, <2>2 DEF PassesInv, Turns
  <2> QED BY <1>1, <2>1, <2>2, <2>3
<1> QED BY <1>1, <1>3, <1>4, <1>5 DEF Request

\* What Begin makes of a worker's record.
LEMMA BeginsFresh ==
  ASSUME Inv, NEW w \in Worker, Begin(w)
  PROVE  \E ch \in Change, of \in (SUBSET Message) \ {{}}, r \in Op :
           /\ op' = [op EXCEPT ![w] = r]
           /\ r.change = ch /\ r.of = of /\ r.undone = of
           /\ r.pc \in {"collect", "tags", "folders", "send"} /\ Shape(kind, r)
           /\ kind = "graph" => r.todo = of /\ (IsTagging(ch) => r.pc = "tags")
           /\ r.round = 0 /\ excused' = [excused EXCEPT ![w] = Unvisited(ch, of)]
<1>1. PICK ch \in Change, ids \in (SUBSET Ids) \ {{}} :
        /\ excused' = [excused EXCEPT ![w] = Unvisited(ch, MembersOf(ids))]
        /\ op' = [op EXCEPT ![w] = [Idle EXCEPT
                   !.change = ch, !.of = MembersOf(ids), !.ids = listed, !.todo = ids,
                   !.undone = MembersOf(ids),
                   !.pc = IF kind = "gmail" /\ IsReadMark(ch) THEN "collect"
                          ELSE IF kind = "graph" /\ IsTagging(ch) THEN "tags"
                          ELSE IF kind = "imap" THEN "folders" ELSE "send"]]
  BY DEF Begin
<1> DEFINE of == MembersOf(ids)
           pc == IF kind = "gmail" /\ IsReadMark(ch) THEN "collect"
                 ELSE IF kind = "graph" /\ IsTagging(ch) THEN "tags"
                 ELSE IF kind = "imap" THEN "folders" ELSE "send"
           r == [Idle EXCEPT !.change = ch, !.of = of, !.ids = listed, !.todo = ids,
                             !.undone = of, !.pc = pc]
<1>2. op' = [op EXCEPT ![w] = r]
  BY <1>1
<1>3. kind \in Kind /\ version \in [Message -> Nat] /\ listed \in [Message -> Nat]
      /\ ids \subseteq Message /\ ids # {}
  <2>1. kind \in Kind /\ version \in [Message -> Nat] /\ listed \in [Message -> Nat]
    BY DEF Inv, Typed
  <2>2. ids \subseteq Ids /\ ids # {}
    OBVIOUS
  <2>3. Ids \subseteq Message
    BY MembersAre
  <2> QED BY <2>1, <2>2, <2>3
<1>4. kind # "graph" => of = {m \in Message : Root[m] \in ids}
  BY MembersAre DEF MembersOf
<1>5. kind = "graph" => of = ids
  BY MembersAre DEF MembersOf
<1>6. of \subseteq Message /\ of # {}
  <2>1. CASE kind = "graph"
    BY <1>3, <1>5, <2>1
  <2>2. CASE kind # "graph"
    <3>1. \A i \in ids : \E m \in Message : Root[m] = i
      BY <2>2 DEF Ids
    <3> QED BY <1>3, <1>4, <2>2, <3>1
  <2> QED BY <2>1, <2>2
<1>7. /\ pc \in {"collect", "tags", "folders", "send"}
      /\ pc = "collect" => kind = "gmail"
      /\ pc = "tags" => kind = "graph"
      /\ pc = "folders" => kind = "imap"
      /\ pc = "send" => kind # "imap"
      /\ kind = "graph" => (IsTagging(ch) => pc = "tags")
  BY <1>3 DEF Kind
<1> HIDE DEF of, pc
<1>8. Idle \in Op /\ Idle.flight = {} /\ Idle.bad = FALSE /\ Idle.round = 0
  <2>1. NoTags \in [Message -> SUBSET Tags]
    BY DEF NoTags
  <2> QED BY <1>3, <2>1 DEF Idle, Op, Pcs
<1>9. /\ r \in Op /\ r.change = ch /\ r.of = of /\ r.todo = ids /\ r.undone = of /\ r.pc = pc
      /\ r.flight = {} /\ r.bad = FALSE /\ r.round = 0
  BY <1>3, <1>6, <1>7, <1>8 DEF Op, Pcs
<1> HIDE DEF r
<1>10. Shape(kind, r)
  BY <1>4, <1>5, <1>6, <1>7, <1>9 DEF Shape
<1>11. of \in (SUBSET Message) \ {{}} /\ (kind = "graph" => r.todo = of)
  BY <1>5, <1>6, <1>9
<1>12. r.round = 0 /\ excused' = [excused EXCEPT ![w] = Unvisited(ch, of)]
  BY <1>1, <1>9 DEF of
<1>13. /\ op' = [op EXCEPT ![w] = r]
       /\ r.change = ch /\ r.of = of /\ r.undone = of
       /\ r.pc \in {"collect", "tags", "folders", "send"} /\ Shape(kind, r)
       /\ kind = "graph" => r.todo = of /\ (IsTagging(ch) => r.pc = "tags")
  BY <1>2, <1>7, <1>9, <1>10, <1>11
<1> QED BY <1>9, <1>11, <1>12, <1>13

LEMMA BeginInv == ASSUME Inv, NEW w \in Worker, Begin(w) PROVE Inv'
<1>1. PICK ch \in Change, of \in (SUBSET Message) \ {{}}, r \in Op :
        /\ op' = [op EXCEPT ![w] = r]
        /\ r.change = ch /\ r.of = of /\ r.undone = of
        /\ r.pc \in {"collect", "tags", "folders", "send"} /\ Shape(kind, r)
        /\ kind = "graph" => r.todo = of /\ (IsTagging(ch) => r.pc = "tags")
        /\ r.round = 0 /\ excused' = [excused EXCEPT ![w] = Unvisited(ch, of)]
  BY BeginsFresh
<1>2. UNCHANGED <<kind, box, version, listed, faults>> /\ ops' = ops + 1
  BY DEF Begin
<1>3. op'[w] = r /\ (\A v \in Worker : v # w => op'[v] = op[v]) /\ op' \in [Worker -> Op]
  BY <1>1, OpTyped
<1>4. excused' \in [Worker -> SUBSET Message] /\ excused'[w] = Unvisited(ch, of)
      /\ \A v \in Worker : v # w => excused'[v] = excused[v]
  <2>1. Unvisited(ch, of) \subseteq Message
    BY DEF Unvisited
  <2> QED BY <1>1, <2>1 DEF Inv, Typed
<1>5. Typed' /\ OneFolder'
  BY <1>2, <1>3, <1>4 DEF Inv, Typed, OneFolder
<1>6. \A v \in Worker : Shape(kind', op'[v])
  BY <1>1, <1>2, <1>3, OpTyped
<1>7. TagsInv'
  <2> SUFFICES ASSUME kind = "graph", NEW v \in Worker, Tagging(v)' PROVE TagsRead(v, op[v])'
    BY <1>2 DEF TagsInv
  <2>1. CASE v = w
    <3>1. r.todo = r.of /\ r.pc = "tags"
      BY <1>1, <1>3, <2>1 DEF Tagging, Busy
    <3> QED BY <1>3, <2>1, <3>1 DEF TagsRead
  <2>2. CASE v # w
    <3>1. Tagging(v) /\ op'[v] = op[v]
      BY <1>3, <2>2 DEF Tagging, Busy
    <3> QED BY <1>2, <1>4, <2>2, <3>1 DEF Inv, TagsInv, TagsRead
  <2> QED BY <2>1, <2>2
<1>8. PassesInv'
  <2> SUFFICES ASSUME kind = "imap", NEW v \in Worker, op'[v].pc = "folders",
                      NEW m \in op'[v].undone \ excused'[v]
               PROVE  Ahead(op'[v], box'[m])
    BY <1>2 DEF PassesInv, Ahead
  <2>1. CASE v = w
    <3>1. m \in of /\ m \notin Unvisited(ch, of)
      BY <1>1, <1>3, <1>4, <2>1
    <3>2. PICK i \in DOMAIN Passes(ch) : Passes(ch)[i] \in box[m]
      BY <3>1 DEF Unvisited
    <3>3. i \in (r.round + 1)..Len(Passes(r.change))
      BY <1>1, <3>2, PassesAre
    <3> QED BY <1>1, <1>2, <1>3, <2>1, <3>2, <3>3 DEF Ahead
  <2>2. CASE v # w
    <3>1. op'[v] = op[v] /\ excused'[v] = excused[v]
      BY <1>3, <1>4, <2>2
    <3> QED BY <1>2, <3>1 DEF Inv, PassesInv
  <2> QED BY <2>1, <2>2
<1> QED BY <1>5, <1>6, <1>7, <1>8 DEF Inv

LEMMA InitInv == Init => Inv
<1> SUFFICES ASSUME Init PROVE Inv
  OBVIOUS
<1>1. kind \in Kind /\ box \in [Message -> SUBSET Label]
  BY Constants DEF Init
<1>2. version \in [Message -> Nat] /\ listed \in [Message -> Nat] /\ ops \in Nat /\ faults \in Nat
  BY DEF Init
<1>3. Idle \in Op /\ Idle.pc = "idle" /\ Idle.change = "none" /\ Idle.of = {}
      /\ Idle.undone = {} /\ Idle.flight = {}
  <2>1. NoTags \in [Message -> SUBSET Tags]
    BY DEF NoTags
  <2> QED BY <1>2, <2>1 DEF Idle, Op, Pcs
<1>4. op \in [Worker -> Op] /\ \A w \in Worker : op[w] = Idle
  BY <1>3 DEF Init
<1>5. OneFolder
  BY <1>1, FoldersCount DEF Init, InOneFolder, OneFolder
<1>6. \A w \in Worker : Shape(kind, op[w])
  BY <1>3, <1>4 DEF Shape
<1>7. TagsInv /\ PassesInv
  BY <1>3, <1>4 DEF TagsInv, PassesInv, Tagging, Busy
<1>8. excused \in [Worker -> SUBSET Message]
  BY DEF Init
<1> QED BY <1>1, <1>2, <1>4, <1>5, <1>6, <1>7, <1>8 DEF Inv, Typed

LEMMA InvKept == Inv /\ UNCHANGED <<kind, box, op, ops, faults, excused>>
                  /\ version' \in [Message -> Nat] /\ listed' \in [Message -> Nat] => Inv'
<1> SUFFICES ASSUME Inv, UNCHANGED <<kind, box, op, ops, faults, excused>>,
                    version' \in [Message -> Nat], listed' \in [Message -> Nat]
             PROVE  Inv'
  OBVIOUS
<1>1. Typed' /\ OneFolder'
  BY DEF Inv, Typed, OneFolder
<1>2. \A w \in Worker : Shape(kind', op'[w])
  BY DEF Inv
<1>3. TagsInv' /\ PassesInv'
  BY DEF Inv, TagsInv, TagsRead, Tagging, Busy, PassesInv, Ahead
<1> QED BY <1>1, <1>2, <1>3 DEF Inv

LEMMA NextInv == Inv /\ [Next]_vars => Inv'
<1> SUFFICES ASSUME Inv, [Next]_vars PROVE Inv'
  OBVIOUS
<1>1. CASE List
  BY <1>1, InvKept DEF List, Inv, Typed
<1>2. ASSUME NEW w \in Worker, Step(w) PROVE Inv'
  BY <1>2, StepTurns, TurnsInv
<1>3. CASE UNCHANGED vars
  BY <1>3, InvKept DEF vars, Inv, Typed
<1> QED BY <1>1, <1>2, <1>3, BeginInv DEF Next

\* The inductive invariant holds whatever requests fail, and however changes
\* of the same messages come between each other's.
THEOREM Invariance == Spec => []Inv
  BY InitInv, NextInv, PTL DEF Spec

\* Each variable has its type; and where a message lives in a folder, archive,
\* trash and the rest leave it in exactly one.
THEOREM TypeCorrect == Spec => []TypeOK
<1>1. Inv => TypeOK
  <2> SUFFICES ASSUME Inv PROVE TypeOK
    OBVIOUS
  <2>1. InOneFolder
    BY FoldersCount DEF Inv, Typed, OneFolder, InOneFolder
  <2>2. \A w \in Worker :
          /\ op[w].pc \in Pcs /\ op[w].of \subseteq Message /\ op[w].undone \subseteq op[w].of
          /\ op[w].todo \subseteq Message /\ op[w].flight \subseteq Message
    BY OpTyped DEF Op, Shape
  <2>3. \A w \in Worker : excused[w] \subseteq Message
    BY DEF Inv, Typed
  <2> QED BY <2>1, <2>2, <2>3 DEF TypeOK, Inv, Typed, Pcs
<1> QED BY <1>1, Invariance, PTL

-----------------------------------------------------------------------------
(* The refinement *)

\* The interface and the drivers mean the same by a change.
LEMMA ManagerChanges ==
  \A k, ch, labels : Manager!Changed(k, ch, labels) = Changed(k, ch, labels)
  BY SMTT(30) DEF Manager!Changed, Manager!Tag, Manager!Place, Manager!ChangeOf, Manager!Folders,
                  Manager!Tags, Changed, Tag, Place, ChangeOf, Folders, Tags

LEMMA ManagerLabels ==
  /\ Manager!Folders = Folders /\ Manager!Tags = Tags /\ Manager!Label = Label
  /\ \A k, labels : Manager!Footing(k, labels) = Footing(k, labels)
  /\ \A ch : Manager!IsTagging(ch) <=> IsTagging(ch)
  BY DEF Manager!Folders, Manager!Tags, Manager!Label, Manager!Footing, Manager!IsTagging,
         Manager!ChangeOf, Folders, Tags, Label, Footing, IsTagging, ChangeOf

\* What the interface lets w's change make of a message, and pass by.
LEMMA MakesAre == ASSUME NEW w \in Worker, NEW m PROVE Manager!Makes(w, m) = MadeOf(w, m)
<1> DEFINE asking == [v \in Worker |-> Asked(v)][w]
           c == op[w].change
<1>1. asking.change = c
  BY DEF Asked
<1> HIDE DEF asking, c
<1>2. ASSUME NEW x
      PROVE  x \in Manager!Makes(w, m) <=>
               \/ x = Manager!Changed(kind, c, box[m])
               \/ /\ kind = "graph" /\ Manager!IsTagging(c) /\ m \in excused[w]
                  /\ \E read \in SUBSET Manager!Tags :
                       x = (box[m] \ Manager!Tags) \union Manager!Changed(kind, c, read)
  BY <1>1 DEF Manager!Makes, asking
<1>3. ASSUME NEW x
      PROVE  x \in MadeOf(w, m) <=>
               \/ x = Changed(kind, c, box[m])
               \/ /\ kind = "graph" /\ IsTagging(c) /\ m \in excused[w]
                  /\ \E read \in SUBSET Tags :
                       x = (box[m] \ Tags) \union Changed(kind, c, read)
  BY DEF MadeOf, c
<1>4. \A x : x \in Manager!Makes(w, m) <=> x \in MadeOf(w, m)
  BY <1>2, <1>3, ManagerChanges, ManagerLabels
<1> QED BY <1>4

LEMMA PassedHas ==
  ASSUME NEW w \in Worker, kind = "imap", faults' = faults + 1, Folder(w) \in Folders
  PROVE  InFolder(w) \in Manager!Passed(w)
<1>1. [v \in Worker |-> Asked(v)][w].of = op[w].of
  BY DEF Asked
<1>2. InFolder(w) = {m \in [v \in Worker |-> Asked(v)][w].of : Folder(w) \in box[m]}
  BY <1>1 DEF InFolder
<1>3. Folder(w) \in Manager!Folders
  BY ManagerLabels
<1> QED BY <1>2, <1>3 DEF Manager!Passed

\* A step of a change is work on it: some of its messages change, and the
\* answer may be given.
LEMMA TurnsWork ==
  ASSUME Inv, NEW w \in Worker, NEW r, NEW ms, Turns(w, r, ms), Wrote(w, ms), Excuse(w),
         box' \in [Message -> SUBSET Label],
         kind = "imap" /\ faults' # faults => Folder(w) \in Folders
  PROVE  Manager!Work(w)
<1> DEFINE asked == [v \in Worker |-> Asked(v)]
           answer == IF r.pc \in {"ok", "failed"} THEN r.pc ELSE "none"
<1>1. op'[w] = r /\ (\A v \in Worker : v # w => op'[v] = op[v])
  BY OpTyped DEF Turns
<1>2. asked[w] = Asked(w) /\ asked' = [v \in Worker |-> Asked(v)']
  OBVIOUS
<1>3. \A v \in Worker : v # w => Asked(v)' = Asked(v)
  BY <1>1 DEF Asked
<1>4. Asked(w)' = [Asked(w) EXCEPT !.left = @ \ ms, !.answer = answer]
  <2> DEFINE old == IF op[w].pc \in {"ok", "failed"} THEN op[w].pc ELSE "none"
  <2>1. Asked(w)' = [change |-> r.change, of |-> r.of, left |-> r.undone, answer |-> answer]
    BY <1>1 DEF Asked
  <2>2. Asked(w) = [change |-> op[w].change, of |-> op[w].of, left |-> op[w].undone,
                    answer |-> old]
    BY DEF Asked
  <2>3. r.change = op[w].change /\ r.of = op[w].of /\ r.undone = op[w].undone \ ms
    BY DEF Turns
  <2> DEFINE before == Asked(w)
             after == [before EXCEPT !.left = @ \ ms, !.answer = answer]
  <2>4. before = [change |-> op[w].change, of |-> op[w].of, left |-> op[w].undone,
                  answer |-> old]
    BY <2>2
  <2> HIDE DEF answer, old, before
  <2>5. after = [before EXCEPT !.left = op[w].undone \ ms, !.answer = answer]
    BY <2>4
  <2> HIDE DEF after
  <2>6. after = [change |-> op[w].change, of |-> op[w].of, left |-> op[w].undone \ ms,
                 answer |-> answer]
    BY <2>4, <2>5
  <2>7. Asked(w)' = after
    BY <2>1, <2>3, <2>6
  <2> QED BY <2>7 DEF after, before
<1>5. asked' = [asked EXCEPT ![w].left = @ \ ms, ![w].answer = answer]
  BY <1>3, <1>4
<1>6. /\ Asked(w).answer = "none" \/ (Asked(w).answer = "failed" /\ answer = "failed")
      /\ Asked(w).change = op[w].change /\ Asked(w).of = op[w].of
  BY DEF Asked, Turns
<1>7. answer = "ok" => Asked(w)'.left \subseteq IF kind = "imap" THEN excused'[w] ELSE {}
  <2>1. answer = "ok" => r.pc = "ok" /\ Asked(w)'.left = r.undone
    BY <1>1 DEF Asked
  <2>2. excused[w] \subseteq excused'[w]
    BY DEF Excuse
  <2> QED BY <2>1, <2>2 DEF Turns
<1>8. answer \in {"none", "ok", "failed"} /\ ms \in SUBSET Asked(w).of /\ kind' = kind
      /\ faults' \in {faults, faults + 1}
  BY <1>6 DEF Turns
<1>9. asked'[w] = Asked(w)'
  OBVIOUS
<1>10. \A m \in Message : box'[m] \in IF m \in ms THEN Manager!Makes(w, m) ELSE {box[m]}
  <2>1. \A m : Manager!Makes(w, m) = MadeOf(w, m)
    BY MakesAre
  <2> QED BY <2>1 DEF Wrote
<1>11. \E passed \in Manager!Passed(w) :
         excused' = [v \in Worker |->
           excused[v] \union
             IF v = w THEN passed
             ELSE {m \in asked[v].left : Manager!Footing(kind, box'[m])
                                            # Manager!Footing(kind, box[m])}]
  <2> DEFINE passed == IF kind = "imap" /\ faults' # faults THEN InFolder(w) ELSE {}
  <2>1. passed \in Manager!Passed(w)
    <3>1. CASE kind = "imap" /\ faults' # faults
      <4>1. faults' = faults + 1 /\ Folder(w) \in Folders
        BY <1>8, <3>1
      <4> QED BY <3>1, <4>1, PassedHas
    <3>2. CASE ~(kind = "imap" /\ faults' # faults)
      BY <3>2 DEF Manager!Passed
    <3> QED BY <3>1, <3>2
  <2>2. \A v \in Worker : asked[v].left = op[v].undone
    BY DEF Asked
  <2> HIDE DEF asked
  <2>3. excused' = [v \in Worker |->
           excused[v] \union
             IF v = w THEN passed
             ELSE {m \in asked[v].left : Footing(kind, box'[m]) # Footing(kind, box[m])}]
    BY <2>2 DEF Excuse
  <2> HIDE DEF passed
  <2> QED BY <2>1, <2>3, ManagerLabels
<1> HIDE DEF answer
<1>12. \E some \in SUBSET asked[w].of, ans \in {"none", "ok", "failed"} :
         /\ asked[w].answer = "none" \/ (asked[w].answer = "failed" /\ ans = "failed")
         /\ box' \in [Message -> SUBSET Manager!Label]
         /\ \A m \in Message : box'[m] \in IF m \in some THEN Manager!Makes(w, m) ELSE {box[m]}
         /\ asked' = [asked EXCEPT ![w].left = @ \ some, ![w].answer = ans]
         /\ faults' \in {faults, faults + 1}
         /\ \E passed \in Manager!Passed(w) :
              excused' = [v \in Worker |->
                excused[v] \union
                  IF v = w THEN passed
                  ELSE {m \in asked[v].left : Manager!Footing(kind, box'[m])
                                                 # Manager!Footing(kind, box[m])}]
         /\ ans = "ok" => asked'[w].left \subseteq IF kind = "imap" THEN excused'[w] ELSE {}
         /\ kind' = kind
  <2>1. asked[w] = Asked(w) /\ asked'[w] = Asked(w)'
    BY <1>2, <1>9
  <2> HIDE DEF asked
  <2>2. /\ answer \in {"none", "ok", "failed"} /\ ms \in SUBSET asked[w].of
        /\ asked[w].answer = "none" \/ (asked[w].answer = "failed" /\ answer = "failed")
        /\ answer = "ok" => asked'[w].left \subseteq IF kind = "imap" THEN excused'[w] ELSE {}
        /\ kind' = kind /\ faults' \in {faults, faults + 1}
    BY <1>6, <1>7, <1>8, <2>1
  <2>3. box' \in [Message -> SUBSET Manager!Label]
    BY ManagerLabels
  <2> QED BY <1>5, <1>10, <1>11, <2>2, <2>3
<1> QED BY <1>12 DEF Manager!Work

\* A change begun is asked for.
LEMMA BeginAsks == ASSUME Inv, NEW w \in Worker, Begin(w) PROVE Manager!Ask(w)
<1>1. PICK ch \in Change, of \in (SUBSET Message) \ {{}}, r \in Op :
        /\ op' = [op EXCEPT ![w] = r]
        /\ r.change = ch /\ r.of = of /\ r.undone = of
        /\ r.pc \in {"collect", "tags", "folders", "send"}
        /\ excused' = [excused EXCEPT ![w] = Unvisited(ch, of)]
  BY BeginsFresh
<1> DEFINE asked == [v \in Worker |-> Asked(v)]
           new == [change |-> ch, of |-> of, left |-> of, answer |-> "none"]
<1>2. op'[w] = r /\ (\A v \in Worker : v # w => op'[v] = op[v])
  BY <1>1, OpTyped
<1>3. Asked(w)' = new /\ \A v \in Worker : v # w => Asked(v)' = Asked(v)
  BY <1>1, <1>2 DEF Asked
<1> HIDE DEF new
<1>4. asked' = [asked EXCEPT ![w] = new]
  BY <1>3
<1> USE DEF new
<1>5. ~(Asked(w).change # "none" /\ Asked(w).answer = "none")
  BY OpTyped DEF Begin, Busy, Asked, Shape
<1>6. UNCHANGED <<kind, box, faults>> /\ asked[w] = Asked(w)
  BY DEF Begin
<1>7. Unvisited(ch, of) = {m \in of : kind = "imap" /\ box[m] \intersect Manager!Visited(ch) = {}}
  <2> DEFINE visited == {Passes(ch)[i] : i \in DOMAIN Passes(ch)}
  <2>1. \A labels : (\A i \in DOMAIN Passes(ch) : Passes(ch)[i] \notin labels)
                     <=> labels \intersect visited = {}
    OBVIOUS
  <2>2. visited = Manager!Visited(ch)
    BY PassesAre
  <2> HIDE DEF visited
  <2> QED BY <2>1, <2>2 DEF Unvisited
<1>8. excused' = [excused EXCEPT ![w] =
                    {m \in of : kind = "imap" /\ box[m] \intersect Manager!Visited(ch) = {}}]
  BY <1>1, <1>7
<1> QED BY <1>4, <1>5, <1>6, <1>8 DEF Manager!Ask, Manager!Asking

\* modifyLabels, markAsRead, markAsUnread and delete of the three kinds of
\* driver do what the MailManager interface promises, whatever other workers
\* change in between and whichever requests fail: a request changes only the
\* messages it is for and only as asked, and ok is answered only when all are
\* changed.  Let off are just the messages that others have shaken under a
\* change of Graph's tags, or have moved past IMAP's passes, and those in a
\* folder that failed IMAP or that it never visits.
THEOREM DriversImplement == Spec => Implements
<1>1. Init => Manager!Init
  <2> SUFFICES ASSUME Init PROVE Manager!Init
    OBVIOUS
  <2>1. \A w \in Worker : Asked(w) = Manager!Idle
    BY DEF Init, Asked, Idle, Manager!Idle
  <2>2. [w \in Worker |-> Asked(w)] = [w \in Worker |-> Manager!Idle]
    BY <2>1
  <2>3. kind \in Kind /\ box \in [Message -> SUBSET Label]
    BY Constants DEF Init
  <2>4. excused = [w \in Worker |-> {}] /\ faults = 0
    BY DEF Init
  <2> QED BY <2>2, <2>3, <2>4 DEF Manager!Init, Manager!Kind, Manager!Label, Manager!Folders,
                                  Manager!Tags, Kind, Label, Folders, Tags
<1>2. Inv /\ [Next]_vars => [Manager!Next]_(Manager!vars)
  <2> SUFFICES ASSUME Inv, [Next]_vars PROVE [Manager!Next]_(Manager!vars)
    OBVIOUS
  <2>1. CASE List \/ UNCHANGED vars
    <3>1. UNCHANGED <<kind, box, op, excused, faults>>
      BY <2>1 DEF List, vars
    <3>2. [w \in Worker |-> Asked(w)]' = [w \in Worker |-> Asked(w)]
      BY <3>1 DEF Asked
    <3> QED BY <3>1, <3>2 DEF Manager!vars
  <2>2. ASSUME NEW w \in Worker, Begin(w) PROVE Manager!Next
    BY <2>2, BeginAsks DEF Manager!Next
  <2>3. ASSUME NEW w \in Worker, Step(w) PROVE Manager!Next
    BY <2>3, StepTurns, TurnsWork DEF Manager!Next
  <2> QED BY <2>1, <2>2, <2>3 DEF Next
<1>3. Spec => Init /\ [][Next]_vars
  BY PTL DEF Spec
<1> QED BY <1>1, <1>2, <1>3, Invariance, PTL DEF Implements, Manager!Spec

=============================================================================
