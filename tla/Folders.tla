------------------------------ MODULE Folders ------------------------------
(***************************************************************************)
(* The folders of an account, which the program calls labels, and emptying *)
(* the spam folder: server/actions/labels.ts, deleteAllSpam of             *)
(* server/actions/mail.ts and what the drivers do for them.  A call is its *)
(* requests, each of which may fail; calls of several processes and other  *)
(* clients of the account come in between.                                 *)
(*                                                                         *)
(* Folders are called by numbers.  Two numbers of which one is the other's *)
(* Fold differ in case only.                                               *)
(***************************************************************************)
EXTENDS Naturals, FiniteSets

CONSTANTS
  Kinds,      \* the drivers to check: "gmail", "graph", "imap"
  Worker,     \* server functions that are called
  Name,       \* names of folders
  Fold,       \* [Name -> Name]: a name in one case
  PageSize,   \* threads Gmail lists at once, 500 in the code
  MaxCalls,   \* bound: calls
  MaxMail,    \* bound: mails of the spam folder
  MaxOthers,  \* bound: what other clients do to folders
  MaxFaults   \* bound: requests that fail, or whose answer is lost

VARIABLES
  kind,
  folders,  \* at the provider: [id, name, in], in: the folder it is in, 0 at the top
  spam,     \* mails of the spam folder, by age: the younger the greater
  labels,   \* what useLabels shows: ids
  call,     \* each worker's call
  clients,  \* workers that hold an authenticated IMAP client
  counts    \* what the bounds count

vars == <<kind, folders, spam, labels, call, clients, counts>>

Idle == [op |-> "none", at |-> "idle", name |-> 0, id |-> 0, seen |-> {}, todo |-> {}, past |-> 0, ok |-> FALSE]
Counts(c, bound) == counts[c] < bound /\ counts' = [counts EXCEPT ![c] = @ + 1]
Fault == Counts("faults", MaxFaults)
NoFault == UNCHANGED counts

At(w, op, at) == call[w].op = op /\ call[w].at = at
Goto(w, at) == call' = [call EXCEPT ![w].at = at]
Ends(w, ok) == call' = [call EXCEPT ![w].at = "idle", ![w].ok = ok]

Ids == {f.id : f \in folders}
Capitals == {Fold[f.id] : f \in folders}   \* listFolders gives a path in capitals as an id
Top == {f \in folders : f.in = 0}
Inside(f) == {g \in folders : g.in = f.id}
Same(n, m) == Fold[n] = Fold[m]

\* Ids are the provider's; over IMAP the id is the folder's path.
NewFolder(name) == [id |-> IF kind = "imap" THEN name ELSE counts.ids + 1, name |-> name, in |-> 0]
Taken(name) == \E f \in Top : IF kind = "imap" THEN f.name = name ELSE Same(f.name, name)

---------------------------------------------------------------------------
(* useLabels and listLabels. *)

\* Gmail's and the IMAP drivers' getUserLabels; an error leaves what is shown.
List ==
  /\ kind # "graph"
  /\ labels' = IF kind = "imap" THEN Capitals ELSE Ids
  /\ UNCHANGED <<kind, folders, spam, call, clients, counts>>

\* processMailFoldersHierarchy asks for the folders within a folder; where that
\* fails the folder is left out, with what is in it.
ListTree ==
  /\ kind = "graph"
  /\ \/ labels' = Ids /\ NoFault
     \/ \E f \in folders :
          Fault /\ Inside(f) # {} /\ labels' = Ids \ ({f.id} \union {g.id : g \in Inside(f)})
     \/ Fault /\ labels' = {}    \* it fails as a whole
  /\ UNCHANGED <<kind, folders, spam, call, clients>>

---------------------------------------------------------------------------
(* createLabel, updateLabel, deleteLabel. *)

Begin(w) ==
  /\ call[w].at = "idle" /\ Counts("calls", MaxCalls)
  /\ \E c \in [op : {"create", "resolve"}, name : Name, id : {0}]
             \union [op : {"rename"}, name : Name, id : labels]
             \union [op : {"delete"}, name : {0}, id : labels]
             \union [op : {"empty"}, name : {0}, id : {0}] :
       /\ c.op = "resolve" => kind = "gmail"
       /\ call' = [call EXCEPT ![w] =
            [Idle EXCEPT !.op = c.op, !.name = c.name, !.id = c.id, !.seen = spam,
               !.past = MaxMail + 1,
               !.at = CASE c.op = "resolve" -> "look"
                        [] kind = "imap" -> "connect"
                        [] c.op = "empty" -> "page"
                        [] OTHER -> "request"]]
  /\ UNCHANGED <<kind, folders, spam, labels, clients>>

\* Each manager over IMAP makes a client of its own for a call.
Connect(w) ==
  /\ call[w].at = "connect"
  /\ \/ NoFault /\ clients' = clients \union {w} /\ Goto(w, "request")
     \/ Fault /\ UNCHANGED clients /\ Ends(w, FALSE)
  /\ UNCHANGED <<kind, folders, spam, labels>>

\* "Always log out": the finally of each.  The attempt ends the connection.
After(w, ok) == clients' = clients \ {w} /\ Ends(w, ok)

Create(w) ==
  /\ At(w, "create", "request")
  /\ LET name == call[w].name
         new == NewFolder(name)
     IN  \/ ~Taken(name) /\ folders' = folders \union {new} /\ After(w, TRUE)
         \/ Taken(name) /\ UNCHANGED folders /\ After(w, FALSE)
  /\ counts' = [counts EXCEPT !.ids = @ + 1]
  /\ UNCHANGED <<kind, spam, labels>>

\* What is in a folder goes along; over IMAP the path changes.
Renamed(f, name) == [f EXCEPT !.name = name, !.id = IF kind = "imap" THEN name ELSE @]

Rename(w) ==
  /\ At(w, "rename", "request")
  /\ LET name == call[w].name
         these == {f \in folders : f.id = call[w].id}
     IN  \/ /\ these # {} /\ ~Taken(name)
            /\ folders' = (folders \ these) \union {Renamed(f, name) : f \in these}
            /\ After(w, TRUE)
         \/ (these = {} \/ Taken(name)) /\ UNCHANGED folders /\ After(w, FALSE)
  /\ UNCHANGED <<kind, spam, labels, counts>>

Delete(w) ==
  /\ At(w, "delete", "request")
  /\ LET these == {f \in folders : f.id = call[w].id}
     IN  /\ folders' = (folders \ these) \ UNION {Inside(f) : f \in these}
         /\ After(w, these # {})
  /\ UNCHANGED <<kind, spam, labels, counts>>

RequestFails(w) ==
  /\ call[w].at = "request" /\ Fault /\ After(w, FALSE)
  /\ UNCHANGED <<kind, folders, spam, labels>>

---------------------------------------------------------------------------
(* resolveLabelId: the id of a label that modifyLabels is given by its name. *)

Named(w) == {f \in folders : Same(f.name, call[w].name)}

Look(w) ==
  /\ At(w, "resolve", "look")
  /\ \/ \E f \in Named(w) :
          NoFault /\ call' = [call EXCEPT ![w].id = f.id, ![w].at = "idle", ![w].ok = TRUE]
     \/ Named(w) = {} /\ NoFault /\ Goto(w, "make")
     \/ Fault /\ Ends(w, FALSE)
  /\ UNCHANGED <<kind, folders, spam, labels, clients>>

\* It is made, in a case of its own; Gmail has a name once.
Make(w) ==
  /\ At(w, "resolve", "make")
  /\ \/ /\ ~Taken(call[w].name) /\ folders' = folders \union {NewFolder(Fold[call[w].name])}
        /\ Goto(w, "again") /\ counts' = [counts EXCEPT !.ids = @ + 1]
     \/ Taken(call[w].name) /\ UNCHANGED folders /\ NoFault /\ Ends(w, FALSE)
     \/ Fault /\ UNCHANGED folders /\ Ends(w, FALSE)
  /\ UNCHANGED <<kind, spam, labels, clients>>

LookAgain(w) ==
  /\ At(w, "resolve", "again")
  /\ \/ \E f \in Named(w) :
          NoFault /\ call' = [call EXCEPT ![w].id = f.id, ![w].at = "idle", ![w].ok = TRUE]
     \/ Named(w) = {} /\ NoFault /\ Ends(w, FALSE)
     \/ Fault /\ Ends(w, FALSE)
  /\ UNCHANGED <<kind, folders, spam, labels, clients>>

---------------------------------------------------------------------------
(* deleteAllSpam. *)

Microsoft(w) ==
  /\ kind = "graph" /\ At(w, "empty", "page") /\ Ends(w, FALSE)
  /\ UNCHANGED <<kind, folders, spam, labels, clients, counts>>

Older(w) == {m \in spam : m < call[w].past}
\* What a page token stands for is Gmail's affair; here, the mail it is after.
Page(w) == {m \in Older(w) : Cardinality({n \in Older(w) : n > m}) < PageSize}

ListSpam(w) ==
  /\ kind = "gmail" /\ At(w, "empty", "page")
  /\ \/ NoFault /\ Page(w) = {} /\ Ends(w, TRUE)
     \/ /\ NoFault /\ Page(w) # {}
        /\ call' = [call EXCEPT ![w].todo = Page(w), ![w].at = "bin",
                      ![w].past = CHOOSE m \in Page(w) : \A n \in Page(w) : m <= n]
     \/ Fault /\ Ends(w, FALSE)
  /\ UNCHANGED <<kind, folders, spam, labels, clients>>

\* Variant: without a further look a page that was full is the last.
NoMore(w) == TRUE
\* No token comes with the last page.
LastPage(w) == Older(w) = {}

\* modifyLabels: to the bin, out of spam; some are done when it fails.
Bin(w) ==
  /\ kind = "gmail" /\ At(w, "empty", "bin")
  /\ \/ NoFault /\ spam' = spam \ call[w].todo /\ IF LastPage(w) THEN Ends(w, TRUE) ELSE Goto(w, "page")
     \/ Fault /\ (\E done \in SUBSET call[w].todo : spam' = spam \ done) /\ Ends(w, FALSE)
  /\ UNCHANGED <<kind, folders, labels, clients>>

\* transport/imap.ts: the search, and the messages it found.
Search(w) ==
  /\ kind = "imap" /\ At(w, "empty", "request")
  /\ IF spam = {} THEN After(w, TRUE)
     ELSE call' = [call EXCEPT ![w].todo = spam, ![w].at = "expunge"] /\ UNCHANGED clients
  /\ UNCHANGED <<kind, folders, spam, labels, counts>>

Expunge(w) ==
  /\ At(w, "empty", "expunge")
  /\ \/ NoFault /\ spam' = spam \ call[w].todo /\ After(w, TRUE)
     \/ Fault /\ UNCHANGED spam /\ After(w, FALSE)
  /\ UNCHANGED <<kind, folders, labels>>

---------------------------------------------------------------------------

Spam ==
  /\ Counts("mail", MaxMail) /\ spam' = spam \union {counts'.mail}
  /\ UNCHANGED <<kind, folders, labels, call, clients>>

\* Other clients make folders, within folders too, and delete them.
Others ==
  /\ Counts("others", MaxOthers)
  /\ \/ \E f \in folders : folders' = folders \ ({f} \union Inside(f))
     \/ \E n \in Name, in \in {0} \union IF kind = "graph" THEN {f.id : f \in Top} ELSE {} :
          ~Taken(n) /\ folders' = folders \union
            {[id |-> IF kind = "imap" THEN n ELSE MaxCalls + counts'.others, name |-> n, in |-> in]}
  /\ UNCHANGED <<kind, spam, labels, call, clients>>

Init ==
  /\ kind \in Kinds /\ folders = {} /\ spam = {} /\ labels = {} /\ clients = {}
  /\ call = [w \in Worker |-> Idle]
  /\ counts = [calls |-> 0, mail |-> 0, others |-> 0, faults |-> 0, ids |-> 0]

Serve(w) ==
  \/ Connect(w) \/ Create(w) \/ Rename(w) \/ Delete(w) \/ RequestFails(w)
  \/ Look(w) \/ Make(w) \/ LookAgain(w)
  \/ Microsoft(w) \/ ListSpam(w) \/ Bin(w) \/ Search(w) \/ Expunge(w)

Next ==
  \/ List \/ ListTree \/ Spam \/ Others
  \/ \E w \in Worker : Begin(w) \/ Serve(w)

Spec == Init /\ [][Next]_vars

---------------------------------------------------------------------------
(* Properties. *)

\* deleteAllSpam: when it answers success what was spam when it was asked for
\* is spam no more, page after page, whatever comes in meanwhile.
SpamGone ==
  \A w \in Worker : At(w, "empty", "idle") /\ call[w].ok => call[w].seen \intersect spam = {}

\* icloud.ts, yahoo.ts, custom.ts: "never leave an authenticated client
\* dangling": a call that has ended holds none, however it ended.
NoneDangling == \A w \in clients : call[w].at # "idle"

\* imap.ts, listFolders: an id that is shown is a folder's, which can be renamed
\* or deleted by it.  Ids are paths in capitals, and paths are not.
ListedExists == [][labels' # labels => labels' \subseteq Ids]_vars
=============================================================================
