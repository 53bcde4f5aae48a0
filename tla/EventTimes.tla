----------------------------- MODULE EventTimes -----------------------------
(***************************************************************************)
(* When an event takes place: the times of one event as they go through    *)
(* the event form (components/calendar/event-form.tsx), the providers of   *)
(* server/lib/calendar, and the views of the calendar, each of which       *)
(* reads the same two texts again.  Calendar has the rest of an event.     *)
(*                                                                         *)
(* A day has Hour hours.  An instant is the hours since an epoch in UTC,   *)
(* and zone is what a local clock adds to it.  A text is a date, a local   *)
(* time without a zone, a UTC time ("Z"), or a time with the calendar's    *)
(* offset; the calendar is in the browser's zone.                          *)
(***************************************************************************)
EXTENDS Integers, FiniteSets

CONSTANTS
  Zone,      \* the offsets a browser may have, in hours
  Hour,      \* hours of a day
  Day,       \* the days events are put on
  Grid,      \* the days a view goes over
  MaxSaves   \* bound: forms submitted

VARIABLES
  kind,    \* "google", "microsoft" or "caldav"
  zone,    \* the browser's offset
  event,   \* the event at the provider: dates, the end excluded, or instants
  form,    \* the event form: the texts of its inputs
  meant,   \* history: the times of the form that the event was saved from
  saves    \* what the bound counts

vars == <<kind, zone, event, form, meant, saves>>

---------------------------------------------------------------------------
(* Texts and what the client makes of them. *)

Text(shape, at) == [shape |-> shape, at |-> at]
Blank == Text("blank", 0)

\* new Date(text): a date alone is midnight in UTC, a time alone is local.
Moment(x) ==
  CASE x.shape = "date" -> x.at * Hour
    [] x.shape \in {"local", "offset"} -> x.at - zone
    [] OTHER -> x.at

DayOf(instant) == (instant + zone) \div Hour
StartOfDay(d) == d * Hour - zone

\* text.split("T")[0], of whatever zone the text is in
DatePart(x) == Text("date", IF x.shape = "date" THEN x.at ELSE x.at \div Hour)

\* what <input type="date"> and <input type="datetime-local"> make of a value
\* that is not of their form
Input(x, allDay) == IF x.shape = (IF allDay THEN "date" ELSE "local") THEN x ELSE Blank

---------------------------------------------------------------------------
(* The providers: listEvents. *)

NoEvent == [live |-> FALSE, allDay |-> FALSE, start |-> 0, end |-> 0, tzid |-> FALSE]
Closed == [open |-> FALSE]

\* Google answers with the calendar's offset; Microsoft in UTC, to which the
\* driver adds the Z; a CalDAV time is read as it stands in the object, and
\* the zone of a TZID is not read.  Variant: Microsoft's without the Z.
TimeTextBare(t) ==
  CASE kind = "google" -> Text("offset", t + zone)
    [] kind = "microsoft" -> Text("local", t)
    [] kind = "caldav" -> IF event.tzid THEN Text("local", t + zone) ELSE Text("utc", t)
TimeText(t) ==
  CASE kind = "google" -> Text("offset", t + zone)
    [] kind = "microsoft" -> Text("utc", t)
    [] kind = "caldav" -> IF event.tzid THEN Text("local", t + zone) ELSE Text("utc", t)

Listed(t) == IF event.allDay THEN Text("date", t) ELSE TimeText(t)
Start == Listed(event.start)
End == Listed(event.end)

---------------------------------------------------------------------------
(* The views, each of the days it shows. *)

\* eventsForDay of the month view
MonthDays ==
  {d \in Grid : Moment(Start) < StartOfDay(d + 1) /\ Moment(End) >= StartOfDay(d)}

\* eventDates, the marks of the small calendar
MarkedDays ==
  LET first == Moment(Start)
      steps == {k \in 0..Cardinality(Grid) : event.allDay /\ first + k * Hour < Moment(End)}
  IN  {DayOf(first)} \union {DayOf(first + k * Hour) : k \in steps}

\* What the views are about: an event without length is on the day it begins.
Days ==
  LET last == IF event.end > event.start THEN event.end - 1 ELSE event.start
  IN  IF event.allDay THEN event.start..last ELSE DayOf(event.start)..DayOf(last)

---------------------------------------------------------------------------
(* The form. *)

Shown(f) == [start |-> Input(f.start, f.allDay), end |-> Input(f.end, f.allDay)]

\* The form of a new event: on a day of the month, or at a time of day.
New ==
  \E d \in Day, h \in 0..Hour - 2 :
    /\ ~form.open /\ ~event.live /\ saves < MaxSaves
    /\ form' = [open |-> TRUE, allDay |-> FALSE,
                start |-> Text("local", d * Hour + h), end |-> Text("local", d * Hour + h + 1)]
    /\ UNCHANGED <<kind, zone, event, meant, saves>>

\* The form of an event that is there.
Edit ==
  /\ ~form.open /\ event.live /\ saves < MaxSaves
  /\ form' = [open |-> TRUE, allDay |-> event.allDay,
              start |-> IF event.allDay THEN DatePart(Start) ELSE Start,
              end |-> IF event.allDay THEN DatePart(End) ELSE End]
  /\ UNCHANGED <<kind, zone, event, meant, saves>>

\* handleAllDayChange: nine to ten o'clock is the second and the third hour.
Toggle ==
  /\ form.open
  /\ LET s == DatePart(form.start)
         e == DatePart(form.end)
     IN  form' = [form EXCEPT !.allDay = ~@,
           !.start = IF form.allDay THEN Text("local", s.at * Hour + 1) ELSE s,
           !.end = IF form.allDay THEN Text("local", e.at * Hour + 2) ELSE e]
  /\ UNCHANGED <<kind, zone, event, meant, saves>>

\* The user sets an input.
SetTime ==
  \E d \in Day, h \in 0..Hour - 1, which \in {"start", "end"} :
    /\ form.open
    /\ form' = [form EXCEPT ![which] = IF form.allDay THEN Text("date", d)
                                       ELSE Text("local", d * Hour + h)]
    /\ UNCHANGED <<kind, zone, event, meant, saves>>

\* handleSubmit, which the browser lets happen when no required input is empty,
\* and createEvent or updateEvent of the provider: dates, or instants.  None of
\* them checks the order; a provider refuses an event that ends before it begins.
Save(allDay, start, end) ==
  /\ start <= end
  /\ event' = [live |-> TRUE, allDay |-> allDay, start |-> start, end |-> end, tzid |-> FALSE]

\* toISOString; formatIcalDate.
Instant(x) == Moment(x)

Submit ==
  /\ form.open /\ Blank \notin {Shown(form).start, Shown(form).end}
  /\ Save(form.allDay, IF form.allDay THEN form.start.at ELSE Instant(form.start),
                       IF form.allDay THEN form.end.at ELSE Instant(form.end))
  /\ form' = Closed /\ meant' = form /\ saves' = saves + 1
  /\ UNCHANGED <<kind, zone>>

Cancel ==
  /\ form.open /\ form' = Closed
  /\ UNCHANGED <<kind, zone, event, meant, saves>>

\* Another client of the calendar, which may write a time with its TZID.
Elsewhere ==
  \E d \in Day, h \in 0..Hour - 1, n \in 1..Hour, allDay \in BOOLEAN, tzid \in BOOLEAN :
    /\ ~event.live /\ ~form.open
    /\ tzid => kind = "caldav" /\ ~allDay
    /\ allDay => h = 0 /\ n <= 2
    /\ event' = [live |-> TRUE, allDay |-> allDay, tzid |-> tzid,
                 start |-> IF allDay THEN d ELSE d * Hour + h - zone,
                 end |-> IF allDay THEN d + n ELSE d * Hour + h - zone + n]
    /\ meant' = Closed
    /\ UNCHANGED <<kind, zone, form, saves>>

---------------------------------------------------------------------------

Init ==
  /\ kind \in {"google", "microsoft", "caldav"} /\ zone \in Zone
  /\ event = NoEvent /\ form = Closed /\ meant = Closed /\ saves = 0

Next == New \/ Edit \/ Toggle \/ SetTime \/ Submit \/ Cancel \/ Elsewhere

Spec == Init /\ [][Next]_vars

---------------------------------------------------------------------------
(* Properties. *)

\* An event is shown at the local times, or on the dates, that were in the
\* form it was saved from, whatever the browser's zone and the provider.
EnteredIsShown ==
  event.live /\ meant.open =>
    IF event.allDay THEN <<Start, End>> = <<meant.start, meant.end>>
    ELSE <<Moment(Start) + zone, Moment(End) + zone>> = <<meant.start.at, meant.end.at>>

\* The month view leaves out no day of an event, though it reads a date as
\* midnight in UTC: of an event whose end is after its start.
NoDayMissed == event.live /\ event.start < event.end => Days \subseteq MonthDays

\* month-view.tsx, eventsForDay: it shows an event on no other day.
NoDayAdded == event.live => MonthDays \subseteq Days

\* page.tsx, eventDates: the small calendar marks the days of an all-day event.
MarksAgree == event.live /\ event.allDay => MarkedDays = Days

\* event-form.tsx: an event that is opened for editing can be saved as it is.
Editable == form.open /\ event.live => Blank \notin {Shown(form).start, Shown(form).end}
=============================================================================
