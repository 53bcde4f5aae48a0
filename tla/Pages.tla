------------------------------- MODULE Pages -------------------------------
(***************************************************************************)
(* Reading mail page by page: the list operation of every driver           *)
(* (driver/google.ts, driver/microsoft.ts, transport/imap.ts, listDrafts   *)
(* of transport/smtp.ts), the local store's (lib/email-store.ts), the      *)
(* server actions over them (listThreads, listAllInboxes, pollNewMessages  *)
(* of actions/mail.ts) and the readers: the list of use-threads.ts and the *)
(* poll of use-new-mail-notifier.ts.                                       *)
(*                                                                         *)
(* Mail comes and goes while a reader walks, a message of a thread or the  *)
(* whole thread.  A message is the number of its arrival, which is its UID *)
(* and the order of its date; a thread is the number of its first message, *)
(* and is listed at its newest one.                                        *)
(***************************************************************************)
EXTENDS Integers, FiniteSetsExt

CONSTANTS
  Conn,        \* connections
  Active,      \* the active one
  View,        \* readers to check: "folder", "all" and "poll"
  Listing,     \* kinds of listing to check, see ListingKinds
  MaxStart,    \* bound: messages a folder begins with
  MaxUid,      \* bound: messages that ever arrive in a folder
  PageSize,    \* maxResults of a walk
  PollSize,    \* maxResults of a poll, 20 in the code
  MaxChanges,  \* bound: times mail comes or goes
  MaxFaults    \* bound: requests that fail

DraftKinds == {"gmailDrafts", "graphDrafts", "imapDrafts"}
ListingKinds == {"gmail", "graph", "imap", "search"} \union DraftKinds

ASSUME PagesAssumption ==
  /\ IsFiniteSet(Conn) /\ Active \in Conn /\ View \subseteq {"folder", "all", "poll"}
  /\ Listing \subseteq ListingKinds
  /\ MaxUid \in Nat /\ MaxStart \in 0..MaxUid
  /\ PageSize \in Nat \ {0} /\ PollSize \in Nat \ {0}
  /\ MaxChanges \in Nat /\ MaxFaults \in Nat

Uid == 1..MaxUid
None == 0             \* a number with no message: it is not here, or not yet
Nowhere == 0          \* nextPageToken: null
Start == [by |-> "none", at |-> MaxUid + 2]
Token(by, at) == [by |-> by, at |-> at]

VARIABLES
  view,     \* the reader: a folder of the active connection, all inboxes, the poll
  kind,     \* each connection's listing
  msgs,     \* each folder: the thread of a message, by its number
  top,      \* each folder: messages that have arrived
  ready,    \* connections whose store has had its first sync
  token,    \* each connection's cursor, in the reader's hands
  state,    \* the walk: "on" or "done"
  shown,    \* threads listed so far
  cursor,   \* the poll's: the thread that was on top
  news,     \* the threads the last poll announced
  owed,     \* history: threads in the folder, with no mail come, since the walk
            \* began, that no failure has taken from a page
  moved,    \* history: threads that mail has come into since the last poll
  mark,     \* history: the message that put the poll's thread on top
  changes, faults

mailVars == <<msgs, top, ready>>
walkVars == <<token, state, shown>>
pollVars == <<cursor, news>>
vars == <<view, kind, mailVars, walkVars, pollVars, owed, moved, mark, changes, faults>>

Here(c) == {u \in Uid : msgs[c][u] # None}
ThreadsOf(c, us) == {msgs[c][u] : u \in us}
Present(c) == ThreadsOf(c, Here(c))
Mine == IF view = "all" THEN Conn ELSE {Active}

\* The newest message of thread t among us.
Latest(c, t, us) == Max({u \in us : msgs[c][u] = t})
Tops(c, us) == {Latest(c, t, us) : t \in ThreadsOf(c, us)}

\* The n newest of a set of numbers, and the n oldest.
Newest(n, s) == {u \in s : Cardinality({v \in s : v > u}) < n}
Oldest(n, s) == {u \in s : Cardinality({v \in s : v < u}) < n}

-----------------------------------------------------------------------------
(* Pages: the threads and the next token *)

Page(threads, by, next) == [threads |-> threads, next |-> Token(by, next)]

\* Variant: the token is the first thread of the next page, not the last of this.
GmailPageLast(c, n, at) ==
  LET older == {u \in Tops(c, Here(c)) : u < at}
      page == Newest(n, older)
  IN Page(ThreadsOf(c, page), "gmail",
          IF page # older THEN Min(Newest(n + 1, older)) ELSE Nowhere)

\* GoogleMailManager.list: Gmail's page of the threads below the token.
GmailPage(c, n, at) ==
  LET older == {u \in Tops(c, Here(c)) : u < at}
      page == Newest(n, older)
  IN Page(ThreadsOf(c, page), "gmail", IF page # older THEN Min(page) ELSE Nowhere)

\* OutlookMailManager.list: a row is a message, and nextLink carries how many
\* rows have gone by.
GraphPage(c, n, at) ==
  LET skip == IF at = Start.at THEN 0 ELSE at
  IN Page(ThreadsOf(c, Newest(skip + n, Here(c)) \ Newest(skip, Here(c))), "graph",
          IF Cardinality(Here(c)) > skip + n THEN skip + n ELSE Nowhere)

\* GoogleMailManager.listDrafts: drafts.list pages as the list of threads does.
GmailDraftsPage(c, n, at) == GmailPage(c, n, at)

\* OutlookMailManager.listDrafts: the nextLink of the drafts folder; the sort by
\* date is within the page.
GraphDraftsPage(c, n, at) == GraphPage(c, n, at)

\* listThreads of imap.ts reads three messages for a thread it may return, ...
Window(n) == 3 * n

\* ... keeps n threads of them, and goes on below the lowest number it has read
\* if the page is full.
ImapPage(c, n, at) ==
  LET older == {u \in Here(c) : u < at}
      read == Newest(Window(n), older)
      page == Newest(n, Tops(c, read))
      more == read # older /\ Cardinality(page) >= n
  IN Page(ThreadsOf(c, page), "imap", IF more THEN Min(read) ELSE Nowhere)

\* listThreads of imap.ts with a query: the token counts the results gone by.
SearchPage(c, n, at) ==
  LET skip == IF at = Start.at THEN 0 ELSE at
      read == Newest(skip + Window(n), Here(c)) \ Newest(skip, Here(c))
      page == Newest(n, Tops(c, read))
      past == skip + Cardinality(read)
      more == past < Cardinality(Here(c)) /\ Cardinality(page) >= n
  IN Page(ThreadsOf(c, page), "search", IF more THEN past ELSE Nowhere)

\* listDrafts of smtp.ts: upwards from the token's number.
DraftsPage(c, n, at) ==
  LET from == IF at = Start.at THEN 1 ELSE at
      page == Oldest(n, {u \in Here(c) : u >= from})
  IN Page(ThreadsOf(c, page), "imapDrafts",
          IF Cardinality(page) >= n THEN Max(page) + 1 ELSE Nowhere)

\* The driver's list.
DriverPage(c, n, at) ==
  CASE kind[c] = "gmail" -> GmailPage(c, n, at)
    [] kind[c] = "graph" -> GraphPage(c, n, at)
    [] kind[c] = "imap" -> ImapPage(c, n, at)
    [] kind[c] = "search" -> SearchPage(c, n, at)
    [] kind[c] = "gmailDrafts" -> GmailDraftsPage(c, n, at)
    [] kind[c] = "graphDrafts" -> GraphDraftsPage(c, n, at)
    [] kind[c] = "imapDrafts" -> DraftsPage(c, n, at)

\* What new Date makes of a cursor that is not the store's: no date, and the
\* cursor is ignored; of IMAP's "u" and a number it may make an ancient one.
CursorDates(tok) ==
  IF tok.by = "store" THEN {tok.at}
  ELSE {Start.at} \union IF tok.by = "imap" THEN {1} ELSE {}

\* Variant: the last row of a page is the first of the next.
StorePageAgain(c, n, at) ==
  LET older == {u \in Tops(c, Here(c)) : u <= at}
      page == Newest(n, older)
  IN Page(ThreadsOf(c, page), "store", IF page # older THEN Min(page) ELSE Nowhere)

\* listThreadsFromStore: the rows below the cursor's date and id.
StorePage(c, n, at) ==
  LET older == {u \in Tops(c, Here(c)) : u < at}
      page == Newest(n, older)
  IN Page(ThreadsOf(c, page), "store", IF page # older THEN Min(page) ELSE Nowhere)

\* listThreads: an inbox without a query comes from the store once it is ready.
FolderPages(c) ==
  IF c \in ready /\ kind[c] \in {"gmail", "graph", "imap"}
  THEN {StorePage(c, PageSize, at) : at \in CursorDates(token[c])}
  ELSE {DriverPage(c, PageSize, token[c].at)}

-----------------------------------------------------------------------------
(* The mailbox *)

\* A row of Graph's list and a draft is a thread of its own.
SingleMessages(c) == kind[c] \in {"graph"} \union DraftKinds

\* What happens once the walk is over is no concern of the reader's.
Change == state = "on" /\ changes < MaxChanges /\ changes' = changes + 1

\* Listings by date: a message that is moved back takes its old place.  IMAP
\* gives it a new UID.
KeepsPlace(c) == kind[c] \in {"gmail", "graph", "gmailDrafts", "graphDrafts"}

\* The numbers a message that comes may have.
Places(c) ==
  {u \in Uid : u = top[c] + 1 \/ (KeepsPlace(c) /\ u <= top[c] /\ u \notin Here(c))}

\* A message arrives, or is moved back: it starts a thread or is in one.
Arrive(c) ==
  /\ Change
  /\ \E m \in Places(c) :
     \E t \in {m} \union {x \in Present(c) : x < m /\ ~SingleMessages(c)} :
       /\ msgs' = [msgs EXCEPT ![c][m] = t]
       /\ top' = [top EXCEPT ![c] = IF m > @ THEN m ELSE @]
       /\ owed' = [owed EXCEPT ![c] = @ \ {t}]
       /\ moved' = [moved EXCEPT ![c] = @ \union {t}]
  /\ UNCHANGED <<view, kind, ready, walkVars, pollVars, mark, faults>>

\* What a walk is still owed when messages of thread t have gone: rows under a
\* cursor that counts move up, a thread that keeps a message is further down.
StillOwed(c, t, gone) ==
  IF kind[c] \in {"graph", "graphDrafts", "search"} THEN {}
  ELSE IF \E u \in Here(c) \ gone : msgs[c][u] = t THEN owed[c] ELSE owed[c] \ {t}

\* Messages of a thread leave the folder, some or all: they are archived,
\* trashed, deleted one by one or, a draft, sent.
Leave(c) ==
  /\ Change
  /\ \E t \in Present(c) : \E gone \in SUBSET {u \in Here(c) : msgs[c][u] = t} :
    /\ gone # {}
    /\ msgs' = [msgs EXCEPT ![c] = [u \in Uid |-> IF u \in gone THEN None ELSE msgs[c][u]]]
    /\ owed' = [owed EXCEPT ![c] = StillOwed(c, t, gone)]
  /\ UNCHANGED <<view, kind, top, ready, walkVars, pollVars, moved, mark, faults>>

\* The first sync of the connection ends.
BecomeReady(c) ==
  /\ view = "folder" /\ c \notin ready /\ ready' = ready \union {c}
  /\ UNCHANGED <<view, kind, msgs, top, walkVars, pollVars, owed, moved, mark, changes, faults>>

-----------------------------------------------------------------------------
(* The readers *)

Show(c, threads) == {<<c, t>> : t \in threads}

\* useThreads, one folder: fetchNextPage.  Gmail's lists leave out the threads
\* and the drafts they could not get.
NextPage ==
  LET c == Active IN
  /\ view = "folder" /\ state = "on"
  /\ \E page \in FolderPages(c) :
     \E lost \in IF page.next.by = "gmail" /\ faults < MaxFaults
                 THEN SUBSET page.threads ELSE {{}} :
       /\ shown' = shown \union Show(c, page.threads \ lost)
       /\ owed' = [owed EXCEPT ![c] = @ \ lost]
       /\ faults' = IF lost = {} THEN faults ELSE faults + 1
       /\ token' = [token EXCEPT ![c] = page.next]
       /\ state' = IF page.next.at = Nowhere THEN "done" ELSE "on"
  /\ UNCHANGED <<view, kind, mailVars, pollVars, moved, mark, changes>>

\* The cursors listAllInboxes hands on: those of the connections that answered
\* and have more.  A connection without one is read from its first page.
NextCursor(page, failed) ==
  [c \in Conn |-> IF c \in failed \/ page[c].next.at = Nowhere THEN Start ELSE page[c].next]

\* listAllInboxes: a page of every connection; one that fails is left out.
NextPageOfAll ==
  /\ view = "all" /\ state = "on"
  /\ \E failed \in SUBSET Conn :
       LET page == [c \in Conn |-> DriverPage(c, PageSize, token[c].at)]
           listed == Conn \ failed
       IN /\ faults + Cardinality(failed) <= MaxFaults
          /\ faults' = faults + Cardinality(failed)
          /\ shown' = shown \union UNION {Show(c, page[c].threads) : c \in listed}
          /\ owed' = [c \in Conn |-> IF c \in failed THEN {} ELSE owed[c]]
          /\ token' = NextCursor(page, failed)
          /\ state' = IF \A c \in Conn : token'[c] = Start THEN "done" ELSE "on"
  /\ UNCHANGED <<view, kind, mailVars, pollVars, moved, mark, changes>>

\* Variant: one thread more.
FreshAndNext(c, threads) ==
  IF cursor \in threads
  THEN {t \in threads : Latest(c, t, Here(c)) >= Latest(c, cursor, Here(c))}
  ELSE threads

\* pollNewMessages: the threads of the page above the cursor's, all of them if
\* it is not there.
Fresh(c, threads) ==
  IF cursor \in threads
  THEN {t \in threads : Latest(c, t, Here(c)) > Latest(c, cursor, Here(c))}
  ELSE threads

Poll ==
  LET threads == DriverPage(Active, PollSize, Start.at).threads IN
  /\ view = "poll"
  /\ IF threads = {} THEN UNCHANGED <<cursor, mark>> /\ news' = {}
     ELSE /\ cursor' = CHOOSE t \in threads : \A o \in threads :
                         Latest(Active, o, Here(Active)) <= Latest(Active, t, Here(Active))
          /\ mark' = Latest(Active, cursor', Here(Active))
          /\ news' = IF cursor = None THEN {} ELSE Fresh(Active, threads)
  /\ moved' = [moved EXCEPT ![Active] = {}]
  /\ UNCHANGED <<view, kind, mailVars, walkVars, owed, changes, faults>>

-----------------------------------------------------------------------------
\* A folder as a reader may find it: each message starts a thread or is in one.
Folders(single) ==
  UNION {{f \in [Uid -> 0..n] : \A u \in Uid :
            IF u > n THEN f[u] = None
            ELSE f[u] = u \/ (~single /\ f[u] \in 1..(u - 1) /\ f[f[u]] = f[u])} : n \in 0..MaxStart}

Init ==
  /\ view \in View
  /\ \E k \in IF view = "folder" THEN Listing ELSE Listing \ ({"search"} \union DraftKinds) :
       kind = [c \in Conn |-> IF c = Active THEN k ELSE "gmail"]   \* bound: the others
  /\ msgs \in [Conn -> Folders(FALSE)]
  /\ \A c \in Conn : /\ SingleMessages(c) => msgs[c] \in Folders(TRUE)
                     /\ c \notin Mine => Here(c) = {}
  /\ top = [c \in Conn |-> Max(Here(c) \union {0})]
  /\ ready \in {{}, IF view = "folder" THEN {Active} ELSE {}}
  /\ token = [c \in Conn |-> Start]
  /\ state = "on" /\ shown = {} /\ cursor = None /\ news = {} /\ mark = None
  /\ changes = 0 /\ faults = 0
  /\ owed = [c \in Conn |-> Present(c)] /\ moved = [c \in Conn |-> {}]

Mailbox == \E c \in Mine : Arrive(c) \/ Leave(c) \/ BecomeReady(c)
Next == Mailbox \/ NextPage \/ NextPageOfAll \/ Poll

\* The reader scrolls on, and the interval of the poll comes round.
Spec == Init /\ [][Next]_vars /\ WF_vars(NextPage) /\ WF_vars(NextPageOfAll)

-----------------------------------------------------------------------------
(* Properties *)

\* The types of the mailboxes and of what the readers hold.
TypeOK ==
  /\ view \in {"folder", "all", "poll"} /\ kind \in [Conn -> ListingKinds]
  /\ msgs \in [Conn -> [Uid -> 0..MaxUid]] /\ top \in [Conn -> 0..MaxUid] /\ ready \subseteq Conn
  /\ token \in [Conn -> [by : ListingKinds \union {"none", "store"}, at : Nat]]
  /\ state \in {"on", "done"} /\ shown \subseteq Conn \X (0..MaxUid)
  /\ cursor \in 0..MaxUid /\ mark \in 0..MaxUid /\ news \subseteq 0..MaxUid
  /\ owed \in [Conn -> SUBSET Uid] /\ moved \in [Conn -> SUBSET Uid]
  /\ changes \in 0..MaxChanges /\ faults \in 0..MaxFaults

\* Whole(c): the pages of c do not pass over mail.  Those of imap.ts do (see
\* ImapWalkComplete).
Whole(c) == kind[c] \notin {"imap", "search"}

\* A reader who has come to the last page has seen every thread that was in the
\* folder all the while, though mail came and went between the pages, the store
\* took over from the provider on the way, or other connections failed.
WalkComplete ==
  state = "done" => \A c \in Mine : Whole(c) => Show(c, owed[c]) \subseteq shown

\* The walk of one folder comes to its last page: no page leads back.
WalkEnds == view = "folder" ~> state = "done"

\* While the thread the poll remembers is listed where it was or higher, the
\* poll announces only threads that mail has come into since the poll before,
\* whatever else has left.
NewsIsNews ==
  [][LET threads == DriverPage(Active, PollSize, Start.at).threads IN
     (Poll /\ cursor \in threads /\ Latest(Active, cursor, Here(Active)) >= mark)
       => news' \subseteq moved[Active]]_vars

\* mail.ts:591, of the poll: "don't notify for anything that already existed".
OldIsNotNews == [][Poll /\ cursor # None => news' \subseteq moved[Active]]_vars

\* imap.ts:366-367, of the token of a page: "everything strictly older than the
\* oldest UID of the previous page".  A walk with such tokens is complete.
ImapWalkComplete ==
  (view = "folder" /\ kind[Active] = "imap" /\ state = "done")
     => Show(Active, owed[Active]) \subseteq shown

\* use-threads.ts:74 and mail.ts:91-95: a next page is offered while a
\* connection has one, so the walk of all inboxes ends.
AllWalkEnds == view = "all" ~> state = "done"

\* use-new-mail-notifier.ts:12, "still learn about new mail": a listed thread
\* that has had mail since the last poll is announced.
NewMailAnnounced ==
  [][(Poll /\ cursor # None)
      => moved[Active] \intersect DriverPage(Active, PollSize, Start.at).threads
           \subseteq news']_vars
=============================================================================
