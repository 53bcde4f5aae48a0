------------------------------ MODULE Calendar ------------------------------
(***************************************************************************)
(* One event of a calendar, from the dialog to the provider and back:      *)
(* hooks/use-calendar.ts, components/calendar/event-dialog.tsx and         *)
(* event-form.tsx, server/actions/calendar.ts, and the three providers of  *)
(* server/lib/calendar.  Google and Microsoft take a patch of the fields   *)
(* the form sends; CalDAV (iCloud, Yahoo) takes a whole object, so an      *)
(* update reads it, merges and writes it back under its etag.  Other       *)
(* clients and the invited guests change the event meanwhile.              *)
(*                                                                         *)
(* A title or a description is the number of the edit it comes from, 0 is  *)
(* an empty description and Cut(n) what Microsoft's list shows of a long   *)
(* one.  Times, place, visibility and availability travel like the title;  *)
(* extra stands for what no form speaks of: reminders, the organizer, what *)
(* the guests have answered.                                               *)
(* Recurring events are not modelled: no provider reads the scope the      *)
(* dialog asks for.                                                        *)
(***************************************************************************)
EXTENDS Naturals

CONSTANTS
  Guest,         \* who may be invited
  Dialog,        \* dialogs open together (tabs)
  MaxEdits,      \* bound: submitted forms
  MaxElsewhere,  \* bound: changes made elsewhere
  MaxFaults      \* bound: requests that fail

VARIABLES
  kind,      \* "google", "microsoft" or "caldav"
  event,     \* the event at the provider
  shown,     \* what the client's list shows of it
  listing,   \* a fetch of the list: its step and what it has read
  dialog,    \* per dialog: its step, its form, and what its update has read
  edits, others, faults,  \* what the bounds count
  invited,   \* history: guests invited elsewhere
  removed    \* history: the event has been deleted

vars == <<kind, event, shown, listing, dialog, edits, others, faults, invited, removed>>
client == <<shown, listing, dialog, edits>>
history == <<invited, removed>>

---------------------------------------------------------------------------

Nothing == [live |-> FALSE]
Cut(n) == n + 100
NoFetch == [at |-> "none", got |-> Nothing]
Asked == [at |-> "asked", got |-> Nothing]
Closed == [pc |-> "closed"]
Fault == faults < MaxFaults /\ faults' = faults + 1

\* parseVEvent; the providers' listEvents: bodyPreview is the start of a body.
Listed ==
  IF ~event.live THEN Nothing
  ELSE [live |-> TRUE, title |-> event.title,
        body |-> IF kind = "microsoft" /\ event.body \in 1..100 THEN Cut(event.body) ELSE event.body]

Goto(d, pc) == dialog' = [dialog EXCEPT ![d].pc = pc]
Changes(e) == event' = [e EXCEPT !.tag = @ + 1]

---------------------------------------------------------------------------
(* The client. *)

\* EventForm's state: the listed event, or a new one
Open(d) ==
  /\ dialog[d].pc = "closed"
  /\ dialog' = [dialog EXCEPT ![d] = [pc |-> "edit", form |-> shown, seen |-> Nothing]]
  /\ UNCHANGED <<kind, event, shown, listing, edits, others, faults, history>>

\* EventForm.handleSubmit and EventDialog.handleSubmit: every field of the form
\* is sent, but an empty description is not.
Submit(d) ==
  /\ dialog[d].pc = "edit" /\ edits < MaxEdits /\ edits' = edits + 1
  /\ LET form == dialog[d].form
         new == edits + 1 IN
       \E title \in IF form.live THEN {form.title, new} ELSE {new},
          body \in IF form.live THEN {form.body, new, 0} ELSE {new, 0} :
         dialog' = [dialog EXCEPT ![d].pc = IF form.live THEN "update" ELSE "create",
                                  ![d].form = [live |-> form.live, title |-> title, body |-> body]]
  /\ UNCHANGED <<kind, event, shown, listing, others, faults, history>>

\* EventDialog.handleDelete
AskDelete(d) ==
  /\ dialog[d].pc = "edit" /\ dialog[d].form.live
  /\ Goto(d, "delete")
  /\ UNCHANGED <<kind, event, shown, listing, edits, others, faults, history>>

\* onSuccess: the list is invalidated, the dialog closes.
Succeed(d) ==
  /\ dialog[d].pc = "ok"
  /\ dialog' = [dialog EXCEPT ![d] = Closed]
  /\ listing' = Asked
  /\ UNCHANGED <<kind, event, shown, edits, others, faults, history>>

\* onError: a message; the dialog stays as it is.
Fail(d) ==
  /\ dialog[d].pc = "failed" /\ Goto(d, "edit")
  /\ UNCHANGED <<kind, event, shown, listing, edits, others, faults, history>>

Cancel(d) ==
  /\ dialog[d].pc = "edit" /\ dialog' = [dialog EXCEPT ![d] = Closed]
  /\ UNCHANGED <<kind, event, shown, listing, edits, others, faults, history>>

\* useCalendarEvents: refetchInterval
Refetch ==
  /\ listing = NoFetch /\ listing' = Asked
  /\ UNCHANGED <<kind, event, shown, dialog, edits, others, faults, history>>

---------------------------------------------------------------------------
(* The server and the provider. *)

\* listEvents
List ==
  /\ listing = Asked /\ listing' = [at |-> "read", got |-> Listed]
  /\ UNCHANGED <<kind, event, shown, dialog, edits, others, faults, history>>

Show ==
  /\ listing.at = "read"
  /\ shown' = listing.got /\ listing' = NoFetch
  /\ UNCHANGED <<kind, event, dialog, edits, others, faults, history>>

\* listEvents' catch around one calendar (and around all of them, for CalDAV):
\* the list is answered without its events.
ListFails ==
  /\ listing = Asked /\ Fault /\ listing' = [at |-> "read", got |-> Nothing]
  /\ UNCHANGED <<kind, event, shown, dialog, edits, others, history>>

\* buildVCalendar and what the other providers make of a form
Created(form) ==
  [live |-> TRUE, title |-> form.title, body |-> form.body, guests |-> {}, extra |-> FALSE,
   tag |-> 1]

\* A request that was served; its answer may be lost on the way.
Answered(d) == (Goto(d, "ok") /\ UNCHANGED faults) \/ (Goto(d, "failed") /\ Fault)

\* tsdav answers a refusal like a success, and caldav.ts does not look.
Refused(d) ==
  Goto(d, IF dialog[d].pc \in {"put", "drop"} \/ (kind = "caldav" /\ dialog[d].pc = "create")
          THEN "ok" ELSE "failed")

\* createEvent: an event of its own; the model follows the first one only.
Create(d) ==
  /\ dialog[d].pc = "create" /\ Answered(d)
  /\ IF event.tag = 0 THEN event' = Created(dialog[d].form) ELSE UNCHANGED event
  /\ UNCHANGED <<kind, shown, listing, edits, others, history>>

\* What the update's fields make of an event: those not sent stay as they are.
\* For CalDAV, e is the object read; the merge keeps its attendees.
Merged(d, e) ==
  [e EXCEPT !.title = dialog[d].form.title,
            !.body = IF dialog[d].form.body = 0 THEN @ ELSE dialog[d].form.body]

\* GoogleCalendarProvider, MicrosoftCalendarProvider.updateEvent
Patch(d) ==
  /\ dialog[d].pc = "update" /\ kind # "caldav"
  /\ IF event.live THEN Changes(Merged(d, event)) /\ Answered(d)
     ELSE Refused(d) /\ UNCHANGED <<event, faults>>
  /\ UNCHANGED <<kind, shown, listing, edits, others, history>>

Deleted == event' = [event EXCEPT !.live = FALSE] /\ removed' = TRUE

\* deleteEvent of the two
Remove(d) ==
  /\ dialog[d].pc = "delete" /\ kind # "caldav"
  /\ IF event.live THEN Deleted /\ Answered(d)
     ELSE Refused(d) /\ UNCHANGED <<event, removed, faults>>
  /\ UNCHANGED <<kind, shown, listing, edits, others, invited>>

\* CalDAVCalendarProvider.updateEvent and deleteEvent up to fetchCalendarObjects
Find(d) ==
  /\ dialog[d].pc \in {"update", "delete"} /\ kind = "caldav"
  /\ IF event.live
     THEN dialog' = [dialog EXCEPT ![d].pc = IF @ = "update" THEN "put" ELSE "drop", ![d].seen = event]
     ELSE Goto(d, "failed")
  /\ UNCHANGED <<kind, event, shown, listing, edits, others, faults, history>>

\* If-Match.  Variant: the object is written without the etag it was read with.
MatchesAny(d) == TRUE
Matches(d) == event.live /\ event.tag = dialog[d].seen.tag

\* buildVCalendar of the merge: it writes nothing that no form speaks of.
Rewritten(d) == [Merged(d, dialog[d].seen) EXCEPT !.extra = FALSE]

\* updateCalendarObject
Put(d) ==
  /\ dialog[d].pc = "put"
  /\ IF Matches(d)
     THEN event' = [Rewritten(d) EXCEPT !.tag = event.tag + 1] /\ Answered(d)
     ELSE Refused(d) /\ UNCHANGED <<event, faults>>
  /\ UNCHANGED <<kind, shown, listing, edits, others, history>>

\* deleteCalendarObject
Drop(d) ==
  /\ dialog[d].pc = "drop"
  /\ IF Matches(d) THEN Deleted /\ Answered(d)
     ELSE Refused(d) /\ UNCHANGED <<event, removed, faults>>
  /\ UNCHANGED <<kind, shown, listing, edits, others, invited>>

\* A request is refused, or fails, before it has an effect.
RequestFails(d) ==
  /\ dialog[d].pc \in {"create", "update", "delete", "put", "drop"} /\ Fault
  /\ Refused(d) \/ Goto(d, "failed")
  /\ UNCHANGED <<kind, event, shown, listing, edits, others, history>>

---------------------------------------------------------------------------
(* Other clients and the guests. *)

Elsewhere ==
  /\ event.live /\ others < MaxElsewhere /\ others' = others + 1
  /\ \/ /\ \E gs \in (SUBSET Guest) \ {event.guests} :
             Changes([event EXCEPT !.guests = gs]) /\ invited' = gs
        /\ UNCHANGED removed
     \/ Changes([event EXCEPT !.title = MaxEdits + others + 1]) /\ UNCHANGED history
     \/ Changes([event EXCEPT !.extra = TRUE]) /\ UNCHANGED history
     \/ event' = [event EXCEPT !.live = FALSE] /\ removed' = TRUE /\ UNCHANGED invited
  /\ UNCHANGED <<kind, client, faults>>

---------------------------------------------------------------------------

Init ==
  /\ kind \in {"google", "microsoft", "caldav"}
  /\ \E there \in BOOLEAN :  \* another client may have made the event
       event = [live |-> there, title |-> 0, body |-> 0, guests |-> {}, extra |-> FALSE,
                tag |-> IF there THEN 1 ELSE 0]
  /\ shown = Nothing /\ listing = NoFetch
  /\ dialog = [d \in Dialog |-> Closed]
  /\ edits = 0 /\ others = 0 /\ faults = 0
  /\ invited = {} /\ removed = FALSE

User(d) == Open(d) \/ Submit(d) \/ AskDelete(d) \/ Cancel(d)
Serve(d) ==
  \/ Create(d) \/ Patch(d) \/ Remove(d) \/ Find(d) \/ Put(d) \/ Drop(d) \/ RequestFails(d)
  \/ Succeed(d) \/ Fail(d)
Fetch == List \/ Show \/ ListFails

Next == Elsewhere \/ Refetch \/ Fetch \/ \E d \in Dialog : User(d) \/ Serve(d)

\* Requests are answered and the interval passes; nobody has to edit.
Fairness == WF_vars(Refetch) /\ WF_vars(Fetch) /\ \A d \in Dialog : WF_vars(Serve(d))

Spec == Init /\ [][Next]_vars /\ Fairness

---------------------------------------------------------------------------
(* Properties. *)

\* Whoever another client has invited stays invited, and an event that it has
\* deleted stays deleted, through every update of this one: patched, or read,
\* merged and written whole, refused in between or not, whoever else updates.
ElsewhereSurvives ==
  (removed => ~event.live) /\ (event.live => invited \subseteq event.guests)

\* event-dialog.tsx:79, :107, "Event updated", "Event deleted": it is so at the
\* provider when its answer says it.
ToldIsDone ==
  [][\A d \in Dialog : dialog[d].pc # dialog'[d].pc /\ dialog'[d].pc = "ok" =>
       CASE dialog[d].pc \in {"update", "put"} -> event'.live /\ event'.title = dialog[d].form.title
         [] dialog[d].pc \in {"delete", "drop"} -> ~event'.live
         [] OTHER -> TRUE]_vars

\* An update leaves what its form does not speak of as other clients have made it.
ExtraStays ==
  [][\A d \in Dialog : Patch(d) \/ Put(d) => event'.extra = event.extra]_vars

\* The list comes to show the event as the provider has it, although a calendar
\* that could not be read is answered like an empty one (listEvents' catch) and
\* a fetch may have read the event before a change of it.
Converges == <>[](shown = Listed)
=============================================================================
