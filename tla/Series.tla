------------------------------- MODULE Series -------------------------------
(***************************************************************************)
(* Events that repeat: the rules of lib/recurrence.ts that the form offers *)
(* and microsoft.ts translates, the days they fall on, and what the lists  *)
(* and the edits of the three kinds of calendar make of one occurrence.    *)
(* Calendar has the requests of one event, EventTimes its times; here a    *)
(* request succeeds or is refused, and an event is the days it is on.      *)
(*                                                                         *)
(* Days are numbers: day 0 is a Sunday and the first of a month.  They are *)
(* the user's; Graph and CalDAV repeat an event on the days of UTC, on     *)
(* which an evening west of it is a day ahead, a morning east a day back.  *)
(***************************************************************************)
EXTENDS Integers, FiniteSets

CONSTANTS
  Kinds,      \* the calendars to check: "google", "graph", "caldav"
  Spans,      \* the events to check: "timed", "late", "early", "allDay", "allDayWest"
  Begins,     \* days a form may be set to
  Windows,    \* what a view shows: sets of days
  Month,      \* days of a month
  Year,       \* days of a year
  Horizon,    \* bound: the last day that is looked at
  MaxEdits    \* bound: forms opened

VARIABLES
  kind, expands,  \* the calendar; whether a CalDAV server expands what it lists
  span,           \* "late": an hour that is tomorrow's in UTC, "early": yesterday's;
                  \* "allDayWest": all day, of a user west of UTC
  series,         \* the repeating event: its first day and its rule
  apart,          \* occurrences that are not where the rule has them: [of, day], 0 if deleted
  window, listed, \* what the view shows: occurrences [of, day, rule]
  form,           \* the dialog: the occurrence, the day and the rule it is set to, the scope
  picked,         \* what the user had picked of the event that was last made: its days
  edits

vars == <<kind, expands, span, series, apart, window, listed, form, picked, edits>>

Day == 1..Horizon
Weekday(d) == d % 7
DayOfMonth(d) == (d % Month) + 1

AllDay == span \in {"allDay", "allDayWest"}
\* toISOString, formatIcalDate: how far the day of UTC is from the user's.
Ahead == CASE span = "late" -> 1 [] span = "early" -> -1 [] OTHER -> 0

---------------------------------------------------------------------------
(* Rules. *)

NoRule == [freq |-> "none"]
\* byDay: weekdays, with 0 or which of the month's; byMonthDay: 0 for none
RecurrenceRule(freq, byDay, byMonthDay) == [freq |-> freq, byDay |-> byDay, byMonthDay |-> byMonthDay]

\* getRecurrencePresets of a date
Presets(d) ==
  { RecurrenceRule("DAILY", {}, 0),
    RecurrenceRule("WEEKLY", {<<0, Weekday(d)>>}, 0),
    RecurrenceRule("MONTHLY", {<<(DayOfMonth(d) + 6) \div 7, Weekday(d)>>}, 0),
    RecurrenceRule("MONTHLY", {}, DayOfMonth(d)),
    RecurrenceRule("YEARLY", {}, 0),
    RecurrenceRule("WEEKLY", {<<0, w>> : w \in 1..5}, 0) }

\* startDate: new Date of a date is midnight in UTC, the day before in the west.
Offered(d) == Presets(IF span = "allDayWest" THEN d - 1 ELSE d) \union {NoRule}

OnDay(rule, d) ==
  \E b \in rule.byDay : b[2] = Weekday(d) /\ (b[1] = 0 \/ b[1] = (DayOfMonth(d) + 6) \div 7)

\* Whether a rule that begins at start has day d, as describeRRule says it.
Falls(rule, start, d) ==
  d >= start /\
    CASE rule.freq = "none" -> d = start
      [] rule.freq = "DAILY" -> TRUE
      [] rule.freq = "WEEKLY" -> OnDay(rule, d)
      [] rule.freq = "MONTHLY" -> OnDay(rule, d) \/ rule.byMonthDay = DayOfMonth(d)
      [] rule.freq = "YEARLY" -> (d - start) % Year = 0

\* The days that a rule says.
Said(rule, start) == {d \in Day : Falls(rule, start, d)}

\* The days it is on, of UTC.  RFC 5545 leaves open whether an event is on its
\* first day when the rule is not.
Days(rule, start) ==
  LET on == {d \in Day : Falls(rule, start + Ahead, d + Ahead)} IN {on, on \union {start}}

\* freqMap
Types == [DAILY |-> "daily", WEEKLY |-> "weekly", MONTHLY |-> "absoluteMonthly", YEARLY |-> "absoluteYearly"]

\* Variant: a weekday is the one there is.
RRuleToGraphOne(rule) ==
  [type |-> Types[rule.freq], days |-> {b \in rule.byDay : \A c \in rule.byDay : b[2] <= c[2]},
   dayOfMonth |-> rule.byMonthDay]
\* parseRRuleToGraphRecurrence: dayMap knows weekdays, not which of the month's.
RRuleToGraph(rule) ==
  [type |-> IF rule.byDay # {} /\ rule.freq = "MONTHLY" THEN "relativeMonthly" ELSE Types[rule.freq],
   days |-> rule.byDay, dayOfMonth |-> rule.byMonthDay]

\* What Graph requires of a pattern...
GraphTakes(p) ==
  /\ \A b \in p.days : b[1] = 0
  /\ p.type \in {"weekly", "relativeMonthly"} => p.days # {}
  /\ p.type \in {"absoluteMonthly", "absoluteYearly"} => p.dayOfMonth # 0
  /\ p.type # "absoluteYearly"    \* which needs a month besides

\* ... and the days it is on, of UTC; of a relative one, the first of the month.
GraphFalls(p, start, d) ==
  d >= start /\
    CASE p.type = "daily" -> TRUE
      [] p.type = "weekly" -> <<0, Weekday(d)>> \in p.days
      [] p.type = "absoluteMonthly" -> DayOfMonth(d) = p.dayOfMonth
      [] p.type = "relativeMonthly" -> <<0, Weekday(d)>> \in p.days /\ DayOfMonth(d) <= 7
GraphDays(p, start) == {d \in Day : GraphFalls(p, start + Ahead, d + Ahead)}

\* What a calendar takes: Google wants the time zone of what repeats at an hour.
Takes(rule) ==
  CASE kind = "google" -> AllDay
    [] kind = "graph" -> GraphTakes(RRuleToGraph(rule))
    [] kind = "caldav" -> TRUE

---------------------------------------------------------------------------
(* The calendar. *)

NoSeries == [start |-> 0, days |-> {}, rule |-> NoRule]
Apart == {x.of : x \in apart}
\* Where the occurrences of the event are.
Placed == {[of |-> d, day |-> d] : d \in series.days \ Apart} \union {x \in apart : x.day # 0}

First(S) == CHOOSE x \in S : \A y \in S : x.day <= y.day

\* listEvents: Google's and Microsoft's give occurrences.  A CalDAV object is
\* one event, its first: of those that it was expanded to, or as it is kept.
List(w) ==
  LET within == {x \in Placed : x.day \in w}
      whole == [of |-> series.start, day |-> series.start, rule |-> series.rule]
  IN  IF kind # "caldav" THEN {[of |-> x.of, day |-> x.day, rule |-> NoRule] : x \in within}
      ELSE IF within = {} THEN {}
      ELSE IF expands THEN {[of |-> First(within).of, day |-> First(within).day, rule |-> NoRule]}
      ELSE {whole}

Turn ==
  \E w \in Windows :
    /\ w # window /\ window' = w /\ listed' = List(w)
    /\ UNCHANGED <<kind, expands, span, series, apart, form, picked, edits>>

---------------------------------------------------------------------------
(* The dialog. *)

Closed == [of |-> -1, day |-> 0, rule |-> NoRule, scope |-> "none"]
New == 0
Opened(of, d, rule) == form' = [of |-> of, day |-> d, rule |-> rule, scope |-> "none"]

OpenNew ==
  \E d \in Begins :
    /\ form = Closed /\ series = NoSeries /\ edits < MaxEdits /\ edits' = edits + 1
    /\ Opened(New, d, NoRule)
    /\ UNCHANGED <<kind, expands, span, series, apart, window, listed, picked>>

OpenListed ==
  \E o \in listed :
    /\ form = Closed /\ edits < MaxEdits /\ edits' = edits + 1
    /\ Opened(o.of, o.day, o.rule)
    /\ UNCHANGED <<kind, expands, span, series, apart, window, listed, picked>>

\* RecurrencePicker offers the presets of the day that is set; setting another
\* day leaves the rule.
Pick ==
  /\ form # Closed /\ form.scope = "none"
  /\ \/ \E rule \in Offered(form.day) : form' = [form EXCEPT !.rule = rule]
     \/ \E d \in Begins : form' = [form EXCEPT !.day = d]
  /\ UNCHANGED <<kind, expands, span, series, apart, window, listed, picked, edits>>

Close ==
  form' = Closed /\ listed' = List(window) /\ UNCHANGED <<kind, expands, span, window, edits>>

\* createEvent; what a calendar refuses is told, and the dialog stays.
Create ==
  /\ form.of = New /\ form.rule # NoRule /\ Takes(form.rule)
  /\ \E days \in IF kind = "graph" THEN {GraphDays(RRuleToGraph(form.rule), form.day)}
                 ELSE Days(form.rule, form.day) :
       series' = [start |-> form.day, days |-> days, rule |-> form.rule]
  /\ picked' = Said(form.rule, form.day)
  /\ form' = Closed /\ listed' = {} /\ window' = {}
  /\ UNCHANGED <<kind, expands, span, apart, edits>>

\* RecurrenceScopeDialog, for what is known to repeat
ChooseScope ==
  /\ form.of > New /\ form.scope = "none"
  /\ \E scope \in {"single", "thisAndFollowing", "all"} : form' = [form EXCEPT !.scope = scope]
  /\ UNCHANGED <<kind, expands, span, series, apart, window, listed, picked, edits>>

\* updateEvent and deleteEvent name the occurrence, and no scope.
Target(of) == of

Moved(of, d) == apart' = {x \in apart : x.of # of} \union {[of |-> of, day |-> d]}

\* The calendars of occurrences take a change of one, and no rule with it; a
\* request that named the event would change all of it.
SaveOne ==
  /\ form.scope # "none" /\ kind # "caldav" /\ form.rule = NoRule
  /\ IF Target(form.of) = form.of
       THEN Moved(form.of, form.day) /\ UNCHANGED series
       ELSE /\ series' = [series EXCEPT !.start = form.day, !.days = Said(series.rule, form.day)]
            /\ UNCHANGED apart
  /\ Close /\ UNCHANGED picked

\* CalDAV's writes the event anew, from the day of the occurrence on.
SaveAll ==
  /\ form.scope # "none" /\ kind = "caldav"
  /\ LET rule == IF form.rule = NoRule THEN series.rule ELSE form.rule
     IN  /\ \E days \in Days(rule, form.day) :
              series' = [start |-> form.day, days |-> days, rule |-> rule]
         /\ picked' = Said(rule, form.day)
  /\ apart' = {} /\ Close

Delete ==
  /\ form.scope # "none"
  /\ IF kind = "caldav" THEN series' = NoSeries /\ apart' = {} ELSE Moved(form.of, 0) /\ UNCHANGED series
  /\ Close /\ picked' = IF kind = "caldav" THEN {} ELSE picked

Cancel ==
  /\ form # Closed /\ form' = Closed
  /\ UNCHANGED <<kind, expands, span, series, apart, window, listed, picked, edits>>

Init ==
  /\ kind \in Kinds /\ span \in Spans /\ expands \in BOOLEAN /\ (expands => kind = "caldav")
  /\ series = NoSeries /\ apart = {} /\ window = {} /\ listed = {} /\ form = Closed
  /\ picked = {} /\ edits = 0

Dialog == OpenNew \/ OpenListed \/ Pick \/ ChooseScope \/ Cancel
Next == Turn \/ Dialog \/ Create \/ SaveOne \/ SaveAll \/ Delete

Spec == Init /\ [][Next]_vars

---------------------------------------------------------------------------
(* Properties. *)

AsPicked == series.days \ {series.start} = picked \ {series.start}

\* recurrence.ts, microsoft.ts, caldav.ts: what repeats is on the days that the
\* rule the user picked says, also when CalDAV writes it anew from another day,
\* in every calendar that takes it: those of a rule that names a weekday or a
\* day of the month if the event's day is the same in UTC, others anywhere.
RuleAsPicked ==
  Ahead = 0 \/ series.rule.freq \in {"none", "DAILY", "YEARLY"} => AsPicked

\* recurrence.ts:112, "Weekly on ...": it is, at whatever hour.
RuleAtAnyHour == AsPicked

\* getRecurrencePresets, of the date that is set: "Weekly on" its weekday.
OfferedIsOfDay ==
  form # Closed =>
    <<0, Weekday(form.day)>> \in UNION {rule.byDay : rule \in Offered(form.day) \ {NoRule}}

\* "This event only": the others stay where they are.
OthersStay ==
  [][form.scope = "single" /\ kind # "caldav" =>
       \A x \in Placed : x.of # form.of => x \in Placed']_vars

\* recurrence-scope-dialog.tsx offers one occurrence, it and the following ones,
\* and all: a delete deletes what was chosen.
Chosen == {x \in Placed : CASE form.scope = "single" -> x.of = form.of
                            [] form.scope = "thisAndFollowing" -> x.of >= form.of
                            [] form.scope = "all" -> TRUE}
ScopeFollowed == [][Delete => Placed' = Placed \ Chosen]_vars

\* month-view.tsx shows the events of each of its days.
EachIsListed == \A x \in Placed : x.day \in window /\ form = Closed => \E o \in listed : o.day = x.day

\* getRecurrencePresets: what is offered can be saved.
PresetsAreTaken ==
  form.of = New /\ form.rule # NoRule => Takes(form.rule)
=============================================================================
