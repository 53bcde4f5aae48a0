------------------------------ MODULE MCClient ------------------------------
(***************************************************************************)
(* What a tab keeps of the server's state, part by part: the lists of mail *)
(* and the actions on them, reading with keyboard and palette, the active  *)
(* account, the settings, the signatures, the caches of whoever is signed  *)
(* in, the socket of the sync engine.  No part reads what another one      *)
(* writes, so this is their sum and not their product: a behaviour begins  *)
(* in one part and stays there.  Variables of one name in two modules are  *)
(* one here; those of the other parts are 0.                               *)
(***************************************************************************)
EXTENDS Naturals

CONSTANTS Nil, MaxFaults

VARIABLES
  part,
  fetch, faults, cursor, rows, list, counts, tab,  \* of two parts or more
  inbox, flagged, cache, stale, view, hidden, act, toasts, begun, polls, spoilt, opened, untold,
  open, selected, effect, leaving, aimed, palette, search,
  live, default, active, ask, switch, poll, switches, others, excused, announced,
  row, taken, shown, save,
  first, editing, call, composer, mail,
  cookies, alive, blob, store, turns, gone, lapsed,
  kind, registry, socket, wire

Lists == INSTANCE ThreadList WITH
  Thread <- {"t1", "t2"}, Marked <- {"t1"}, View <- {"inbox", "all"}, Act <- {"a1", "a2"},
  MaxActs <- 2, MaxPolls <- 1, Roams <- FALSE, AutoRead <- TRUE

Reading == INSTANCE Reader WITH
  Thread <- {"t1", "t2"}, Query <- 0 .. 2, None <- Nil,
  MaxRemoved <- 1, MaxListed <- 1, MaxTyped <- 2

Accounts == INSTANCE ActiveAccount WITH
  Account <- {"a", "b"}, MaxSwitches <- 1, MaxElsewhere <- 1

Options == INSTANCE Settings WITH
  Client <- {"c1"}, Worker <- {"w1", "w2"},
  Plain <- {"autoRead"}, Noted <- {"desktop", "sound"}, Legacy <- TRUE, MaxSaves <- 3

Closings == INSTANCE Signatures WITH
  Sig <- {"s1", "s2"}, Account <- {"a", "b"}, Worker <- {"w1"}, None <- Nil,
  MaxSaves <- 1, MaxOpens <- 1

Sessions == INSTANCE Sessions WITH
  User <- {"u1", "u2"}, Tab <- {"t1", "t2"}, None <- Nil, Login <- "login", MaxTurns <- 4

Sockets == INSTANCE SyncSocket WITH Socket <- {"s1", "s2"}, MaxFrames <- 2

\* The variables of one part only
ofLists == <<inbox, flagged, cache, stale, view, hidden, act, toasts, begun, polls, spoilt, opened,
             untold>>
ofReading == <<open, selected, effect, leaving, aimed, palette, search>>
ofAccounts == <<live, default, active, ask, switch, poll, switches, others, excused, announced>>
ofOptions == <<row, taken, shown, save>>
ofClosings == <<first, editing, call, composer, mail>>
ofSessions == <<cookies, alive, blob, store, turns, gone, lapsed>>
ofSockets == <<kind, registry, socket, wire>>

NoLists ==
  /\ inbox = 0 /\ flagged = 0 /\ cache = 0 /\ stale = 0 /\ view = 0 /\ hidden = 0
  /\ act = 0 /\ toasts = 0 /\ begun = 0 /\ polls = 0 /\ spoilt = 0 /\ opened = 0 /\ untold = 0
NoReading ==
  /\ open = 0 /\ selected = 0 /\ effect = 0 /\ leaving = 0 /\ aimed = 0
  /\ palette = 0 /\ search = 0
NoAccounts ==
  /\ live = 0 /\ default = 0 /\ active = 0 /\ ask = 0 /\ switch = 0 /\ poll = 0
  /\ switches = 0 /\ others = 0 /\ excused = 0 /\ announced = 0
NoOptions == row = 0 /\ taken = 0 /\ shown = 0 /\ save = 0
NoClosings ==
  first = 0 /\ editing = 0 /\ call = 0 /\ composer = 0 /\ mail = 0
NoSessions ==
  /\ cookies = 0 /\ alive = 0 /\ blob = 0 /\ store = 0 /\ turns = 0
  /\ gone = 0 /\ lapsed = 0
NoSockets == kind = 0 /\ registry = 0 /\ socket = 0 /\ wire = 0

Init ==
  \/ /\ part = "lists" /\ Lists!Init
     /\ NoReading /\ NoAccounts /\ NoOptions /\ NoClosings /\ NoSessions /\ NoSockets
     /\ cursor = 0 /\ rows = 0 /\ list = 0 /\ counts = 0 /\ tab = 0
  \/ /\ part = "reading" /\ Reading!Init
     /\ NoLists /\ NoAccounts /\ NoOptions /\ NoClosings /\ NoSessions /\ NoSockets
     /\ fetch = 0 /\ faults = 0 /\ list = 0 /\ tab = 0
  \* Nothing tells the accounts apart: they are named so that this one is first.
  \/ /\ part = "accounts" /\ Accounts!Init /\ default = "a"
     /\ NoLists /\ NoReading /\ NoOptions /\ NoClosings /\ NoSessions /\ NoSockets
     /\ rows = 0 /\ counts = 0 /\ tab = 0
  \/ /\ part = "options" /\ Options!Init
     /\ NoLists /\ NoReading /\ NoAccounts /\ NoClosings /\ NoSessions /\ NoSockets
     /\ faults = 0 /\ cursor = 0 /\ rows = 0 /\ list = 0 /\ tab = 0
  \/ /\ part = "closings" /\ Closings!Init
     /\ NoLists /\ NoReading /\ NoAccounts /\ NoOptions /\ NoSessions /\ NoSockets
     /\ fetch = 0 /\ faults = 0 /\ cursor = 0
  \/ /\ part = "sessions" /\ Sessions!Init
     /\ NoLists /\ NoReading /\ NoAccounts /\ NoOptions /\ NoClosings /\ NoSockets
     /\ fetch = 0 /\ cursor = 0 /\ rows = 0 /\ list = 0 /\ counts = 0
  \/ /\ part = "sockets" /\ Sockets!Init
     /\ NoLists /\ NoReading /\ NoAccounts /\ NoOptions /\ NoClosings /\ NoSessions
     /\ fetch = 0 /\ cursor = 0 /\ rows = 0 /\ list = 0 /\ counts = 0 /\ tab = 0

InLists ==
  /\ part = "lists" /\ Lists!Next
  /\ UNCHANGED <<part, ofReading, ofAccounts, ofOptions, ofClosings, ofSessions, ofSockets,
                 cursor, rows, list, counts, tab>>
InReading ==
  /\ part = "reading" /\ Reading!Next
  /\ UNCHANGED <<part, ofLists, ofAccounts, ofOptions, ofClosings, ofSessions, ofSockets,
                 fetch, faults, list, tab>>
InAccounts ==
  /\ part = "accounts" /\ Accounts!Next
  /\ UNCHANGED <<part, ofLists, ofReading, ofOptions, ofClosings, ofSessions, ofSockets,
                 rows, counts, tab>>
InOptions ==
  /\ part = "options" /\ Options!Next
  /\ UNCHANGED <<part, ofLists, ofReading, ofAccounts, ofClosings, ofSessions, ofSockets,
                 faults, cursor, rows, list, tab>>
\* Bound: either a composer is opened or a call fails, of which ListsAreTrue claims nothing.
InClosings ==
  /\ part = "closings" /\ Closings!Next /\ counts'.opens + counts'.faults <= 1
  /\ UNCHANGED <<part, ofLists, ofReading, ofAccounts, ofOptions, ofSessions, ofSockets,
                 fetch, faults, cursor>>
InSessions ==
  /\ part = "sessions" /\ Sessions!Next
  /\ UNCHANGED <<part, ofLists, ofReading, ofAccounts, ofOptions, ofClosings, ofSockets,
                 fetch, cursor, rows, list, counts>>
InSockets ==
  /\ part = "sockets" /\ Sockets!Next
  /\ UNCHANGED <<part, ofLists, ofReading, ofAccounts, ofOptions, ofClosings, ofSessions,
                 fetch, cursor, rows, list, counts, tab>>

Next ==
  \/ InLists \/ InReading \/ InAccounts \/ InOptions \/ InClosings
  \/ InSessions \/ InSockets

vars == <<part, fetch, faults, cursor, rows, list, counts, tab, ofLists, ofReading,
          ofAccounts, ofOptions, ofClosings, ofSessions, ofSockets>>
Spec == Init /\ [][Next]_vars

---------------------------------------------------------------------------
(* Properties. *)

\* use-thread-actions.ts, markOtherCachesStale: a list that mounting would not
\* refetch shows what the provider has, whatever action failed or was overtaken.
FreshIsTrue == part = "lists" => Lists!FreshIsTrue

\* command-palette.tsx: at rest, the results shown answer the query shown.
ResultsMatchQuery == part = "reading" => Reading!ResultsMatchQuery

\* nav-user.tsx, command-palette.tsx: after a switch the client's active account
\* is the one the server's actions read, however answers and failures met.
ClientAgrees == part = "accounts" => Accounts!ClientAgrees

\* general-tab.tsx, notifications-tab.tsx, use-signatures.ts: at rest the switches, and
\* the lists of signatures of every account, show what is stored.
ShownIsStored ==
  /\ part = "options" => Options!ShownIsStored
  /\ part = "closings" => Closings!ListsAreTrue

\* query-provider.tsx, sync-provider.tsx: what a browser keeps of mail is of whoever
\* is signed in, and of nobody who has signed out.
CachesAreOwn == part = "sessions" => Sessions!CachesAreOwn

\* sync-server.ts: the engine hears all that a client sent, in order, and the close,
\* though it was not there when the socket opened.
EngineHears == part = "sockets" => Sockets!EngineHears
=============================================================================
