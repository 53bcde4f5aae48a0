------------------------------- MODULE MCMail -------------------------------
(***************************************************************************)
(* What the server's functions do with the accounts of a user, part by     *)
(* part: events, their times and their repetition, conversations, drafts   *)
(* and sending, folders, the linking of accounts, contacts; and what a     *)
(* user sees of a mail.  No part reads what another one writes, so this is *)
(* their sum and not their product, as in MCClient.                        *)
(***************************************************************************)
EXTENDS Integers, Sequences

CONSTANTS None, MaxFaults

VARIABLES
  part,
  kind, event, edits, form, told, counts, cache,  \* of two parts or more
  shown, listing, dialog, others, faults, invited, removed,
  zone, meant, saves,
  mail, nextUid, thread, reply, moves, mixed,
  server, url, drafts, got, copies, save, send,
  folders, spam, labels, call, clients,
  now, row, link, renewal, torn,
  expands, span, series, apart, window, listed, picked,
  rows, chosen, token, timer, sugg, lists, query, queue,
  ids, pictures, here, loading, page, card, pressed

Events == INSTANCE Calendar WITH
  Guest <- {"g1"}, Dialog <- {"d1", "d2"}, MaxEdits <- 1, MaxElsewhere <- 1

Times == INSTANCE EventTimes WITH
  Zone <- {-1, 0, 1}, Hour <- 4, Day <- {2, 3}, Grid <- 0 .. 6, MaxSaves <- 2

Talks == INSTANCE Conversations WITH
  Kinds <- {"copy", "saved", "gmail"}, Accounts <- {1}, MaxMail <- 4, MaxMoves <- 1

Outgoing == INSTANCE Drafts WITH
  Kinds <- {"gmail", "graph", "icloud", "yahoo", "custom"}, Who <- {"a", "b"},
  MaxEdits <- 2, MaxSaves <- 2, MaxSends <- 1

Filing == INSTANCE Folders WITH
  Kinds <- {"gmail", "graph", "imap"}, Worker <- {"w1", "w2"},
  Name <- {1, 2}, Fold <- [n \in {1, 2} |-> 1], PageSize <- 2,
  MaxCalls <- 2, MaxMail <- 3, MaxOthers <- 1

Linking == INSTANCE Links WITH
  Mailbox <- {<<"google", "a">>, <<"microsoft", "a">>, <<"custom", "a">>, <<"icloud", "c">>, <<"yahoo", "d">>},
  Own <- "a", Worker <- {"w1", "w2"}, MaxLinks <- 2, MaxRevokes <- 1

Repeats == INSTANCE Series WITH
  Kinds <- {"google", "graph", "caldav"}, Spans <- {"timed", "late", "allDayWest"},
  Begins <- {9, 33}, Windows <- {1 .. 30, 31 .. 60},
  Month <- 30, Year <- 60, Horizon <- 70, MaxEdits <- 2

Contacts == INSTANCE Recipients WITH
  Address <- {"ann", "bob"}, Name <- {"Al"}, Text <- {"al", "be"},
  Matching <- {<<"ann", "al">>, <<"bob", "be">>, <<"Al", "al">>},
  MaxTyped <- 1, MaxEdits <- 1, MaxViews <- 2, MaxSends <- 1

Bodies == INSTANCE MailContent WITH
  Conv <- {"c1", "c2"}, MaxMails <- 2, Trusted <- {1}, MaxTurns <- 3, MaxChanges <- 1

\* The variables of one part only
ofEvents == <<shown, listing, dialog, others, faults, invited, removed>>
ofTimes == <<zone, meant, saves>>
ofTalks == <<mail, nextUid, thread, reply, moves, mixed>>
ofOutgoing == <<server, url, drafts, got, copies, save, send>>
ofFiling == <<folders, spam, labels, call, clients>>
ofLinking == <<now, row, link, renewal, torn>>
ofRepeats == <<expands, span, series, apart, window, listed, picked>>
ofContacts == <<rows, chosen, token, timer, sugg, lists, query, queue>>
ofBodies == <<ids, pictures, here, loading, page, card, pressed>>

NoEvents ==
  /\ shown = 0 /\ listing = 0 /\ dialog = 0 /\ others = 0 /\ faults = 0
  /\ invited = 0 /\ removed = 0
NoTimes == zone = 0 /\ meant = 0 /\ saves = 0
NoTalks ==
  /\ mail = 0 /\ nextUid = 0 /\ thread = 0 /\ reply = 0 /\ moves = 0
  /\ mixed = 0
NoOutgoing ==
  /\ server = 0 /\ url = 0 /\ drafts = 0 /\ got = 0 /\ copies = 0
  /\ save = 0 /\ send = 0
NoFiling == folders = 0 /\ spam = 0 /\ labels = 0 /\ call = 0 /\ clients = 0
NoLinking == now = 0 /\ row = 0 /\ link = 0 /\ renewal = 0 /\ torn = 0
NoRepeats ==
  /\ expands = 0 /\ span = 0 /\ series = 0 /\ apart = 0 /\ window = 0 /\ listed = 0
  /\ picked = 0
NoContacts ==
  /\ rows = 0 /\ chosen = 0 /\ token = 0 /\ timer = 0 /\ sugg = 0
  /\ lists = 0 /\ query = 0 /\ queue = 0
NoBodies ==
  /\ ids = 0 /\ pictures = 0 /\ here = 0 /\ loading = 0 /\ page = 0
  /\ card = 0 /\ pressed = 0

Init ==
  \/ /\ part = "events" /\ Events!Init
     /\ NoTimes /\ NoTalks /\ NoOutgoing /\ NoFiling
     /\ NoLinking /\ NoRepeats /\ NoContacts /\ NoBodies
     /\ form = 0 /\ told = 0 /\ counts = 0 /\ cache = 0
  \/ /\ part = "times" /\ Times!Init
     /\ NoEvents /\ NoTalks /\ NoOutgoing /\ NoFiling
     /\ NoLinking /\ NoRepeats /\ NoContacts /\ NoBodies
     /\ edits = 0 /\ told = 0 /\ counts = 0 /\ cache = 0
  \/ /\ part = "talks" /\ Talks!Init
     /\ NoEvents /\ NoTimes /\ NoOutgoing /\ NoFiling
     /\ NoLinking /\ NoRepeats /\ NoContacts /\ NoBodies
     /\ event = 0 /\ edits = 0 /\ form = 0 /\ told = 0 /\ counts = 0
  \/ /\ part = "outgoing" /\ Outgoing!Init
     /\ NoEvents /\ NoTimes /\ NoTalks /\ NoFiling
     /\ NoLinking /\ NoRepeats /\ NoContacts /\ NoBodies
     /\ event = 0 /\ edits = 0 /\ cache = 0
  \/ /\ part = "filing" /\ Filing!Init
     /\ NoEvents /\ NoTimes /\ NoTalks /\ NoOutgoing
     /\ NoLinking /\ NoRepeats /\ NoContacts /\ NoBodies
     /\ event = 0 /\ edits = 0 /\ form = 0 /\ told = 0 /\ cache = 0
  \/ /\ part = "linking" /\ Linking!Init
     /\ NoEvents /\ NoTimes /\ NoTalks /\ NoOutgoing
     /\ NoFiling /\ NoRepeats /\ NoContacts /\ NoBodies
     /\ kind = 0 /\ event = 0 /\ edits = 0 /\ form = 0 /\ told = 0 /\ cache = 0
  \/ /\ part = "repeats" /\ Repeats!Init
     /\ NoEvents /\ NoTimes /\ NoTalks /\ NoOutgoing
     /\ NoFiling /\ NoLinking /\ NoContacts /\ NoBodies
     /\ event = 0 /\ told = 0 /\ counts = 0 /\ cache = 0
  \/ /\ part = "contacts" /\ Contacts!Init
     /\ NoEvents /\ NoTimes /\ NoTalks /\ NoOutgoing
     /\ NoFiling /\ NoLinking /\ NoRepeats /\ NoBodies
     /\ kind = 0 /\ event = 0 /\ edits = 0 /\ form = 0 /\ cache = 0
  \/ /\ part = "bodies" /\ Bodies!Init
     /\ NoEvents /\ NoTimes /\ NoTalks /\ NoOutgoing /\ NoFiling
     /\ NoLinking /\ NoRepeats /\ NoContacts
     /\ kind = 0 /\ event = 0 /\ edits = 0 /\ form = 0 /\ told = 0

InEvents ==
  /\ part = "events" /\ Events!Next
  /\ UNCHANGED <<part, ofTimes, ofTalks, ofOutgoing, ofFiling, ofLinking, ofRepeats,
                 ofContacts, ofBodies, form, told, counts, cache>>

InTimes ==
  /\ part = "times" /\ Times!Next
  /\ UNCHANGED <<part, ofEvents, ofTalks, ofOutgoing, ofFiling, ofLinking, ofRepeats,
                 ofContacts, ofBodies, edits, told, counts, cache>>

\* Bound: Gmail keeps the conversations itself; there, a mail, an answer and one more do.
InTalks ==
  /\ part = "talks" /\ Talks!Next /\ (kind = "gmail" => Len(mail') <= 3)
  /\ UNCHANGED <<part, ofEvents, ofTimes, ofOutgoing, ofFiling, ofLinking, ofRepeats,
                 ofContacts, ofBodies, event, edits, form, told, counts>>

InOutgoing ==
  /\ part = "outgoing" /\ Outgoing!Next
  /\ UNCHANGED <<part, ofEvents, ofTimes, ofTalks, ofFiling, ofLinking, ofRepeats,
                 ofContacts, ofBodies, event, edits, cache>>

InFiling ==
  /\ part = "filing" /\ Filing!Next
  /\ UNCHANGED <<part, ofEvents, ofTimes, ofTalks, ofOutgoing, ofLinking, ofRepeats,
                 ofContacts, ofBodies, event, edits, form, told, cache>>

InLinking ==
  /\ part = "linking" /\ Linking!Next
  /\ UNCHANGED <<part, ofEvents, ofTimes, ofTalks, ofOutgoing, ofFiling, ofRepeats,
                 ofContacts, ofBodies, kind, event, edits, form, told, cache>>

InRepeats ==
  /\ part = "repeats" /\ Repeats!Next
  /\ UNCHANGED <<part, ofEvents, ofTimes, ofTalks, ofOutgoing, ofFiling, ofLinking,
                 ofContacts, ofBodies, event, told, counts, cache>>

InContacts ==
  /\ part = "contacts" /\ Contacts!Next
  /\ UNCHANGED <<part, ofEvents, ofTimes, ofTalks, ofOutgoing, ofFiling, ofLinking,
                 ofRepeats, ofBodies, kind, event, edits, form, cache>>

InBodies ==
  /\ part = "bodies" /\ Bodies!Next
  /\ UNCHANGED <<part, ofEvents, ofTimes, ofTalks, ofOutgoing, ofFiling, ofLinking,
                 ofRepeats, ofContacts, kind, event, edits, form, told>>

Next ==
  \/ InEvents \/ InTimes \/ InTalks \/ InOutgoing
  \/ InFiling \/ InLinking \/ InRepeats \/ InContacts \/ InBodies

vars == <<part, kind, event, edits, form, told, counts, cache, ofEvents, ofTimes, ofTalks,
          ofOutgoing, ofFiling, ofLinking, ofRepeats, ofContacts, ofBodies>>
Spec == Init /\ [][Next]_vars

---------------------------------------------------------------------------
(* Properties. *)

\* caldav.ts, google.ts, microsoft.ts: guests whom other clients invite, and their
\* deletion of an event, survive the updates of this one.
ElsewhereSurvives == part = "events" => Events!ElsewhereSurvives

\* calendar-utils.ts, event-form.tsx, recurrence.ts, microsoft.ts: an event is shown at
\* the times it was saved with, in any zone.  One that repeats is on the days that the
\* rule the user picked says, if its day is the same in UTC or the rule names none.
EventsAsEntered ==
  /\ part = "times" => Times!EnteredIsShown
  /\ part = "repeats" => Repeats!RuleAsPicked

\* build-reply-headers, imap.ts: an answer is shown in the conversation that it was
\* written in, and so is what peers answer to it.
ReplyJoins == part = "talks" => Talks!ReplyJoins

\* sendMail: when the user is told that a mail was sent, all it names have it as it
\* was written, whatever was refused or failed.
SentIsServed == part = "outgoing" => Outgoing!SentIsServed

\* deleteAllSpam: what was spam when its success was asked for is spam no more.
SpamGone == part = "filing" => Filing!SpamGone

\* createConnection: whatever links of an address meet, its row opens that mailbox
\* and holds what its provider needs, nothing of another's.
RowsAreWhole == part = "linking" => Linking!RowsAreWhole

\* use-contacts.ts: whoever a list names that is not about to be fetched is stored,
\* by that name.
ListedAsStored == part = "contacts" => Contacts!ListedAsStored

\* mail-content.tsx, use-threads.ts: an open mail is being processed or shown, with its
\* pictures as settings, trust and Show Images say, which is offered if any are missing.
ShownAsChosen == part = "bodies" => Bodies!ShownAsChosen
=============================================================================
