------------------------------- MODULE Reader -------------------------------
(***************************************************************************)
(* Reading a list of mail: the open thread, the keyboard cursor and the    *)
(* selection (hooks/use-keyboard-shortcuts.ts, use-mail-navigation.ts,     *)
(* store/selection.ts, components/mail/mail-list.tsx and                   *)
(* bulk-actions-toolbar.tsx), and the search of the command palette        *)
(* (components/command-palette.tsx).                                       *)
(*                                                                         *)
(* Three things point into a list that changes under them: the URL names a *)
(* thread, the cursor is a position, the selection is a set of ids.  What  *)
(* the actions do to mail is ThreadList's; here a removal hides its rows   *)
(* when it has cancelled the list's fetches, which is after React has      *)
(* shown what the key set and run MailList's effect.                       *)
(***************************************************************************)
EXTENDS Naturals, Sequences, FiniteSets, SequencesExt

CONSTANTS
  Thread,      \* threads
  None,        \* no thread, no cursor
  Query,       \* what is typed: 0 is shorter than a search
  MaxRemoved,  \* bound: removals begun
  MaxListed,   \* bound: changes of the list by the server or the folder
  MaxTyped     \* bound: queries typed

VARIABLES
  rows,       \* the rows of the list on the screen, hidden ones left out
  open,       \* threadId of the URL
  cursor,     \* focusedIndexAtom: a position in rows
  selected,   \* selectedThreadIdsAtom
  effect,     \* MailList's effect on threadId is due
  leaving,    \* threads a removal is about to hide
  aimed,      \* history: it is of the open thread, with the cursor on it
  palette,    \* the palette: open, query, the position, the results, searching
  search,     \* its searches: the query, and how far the call is
  counts      \* what the bounds count

list == <<rows, open, cursor, selected, effect, leaving, aimed>>
finder == <<palette, search>>
vars == <<list, finder, counts>>

---------------------------------------------------------------------------

Listed == ToSet(rows)
Position(t) == CHOOSE i \in DOMAIN rows : rows[i] = t
Lower(a, b) == IF a < b THEN a ELSE b
Without(ts) == SelectSeq(rows, LAMBDA t : t \notin ts)

Counts(c, bound) == counts[c] < bound /\ counts' = [counts EXCEPT ![c] = @ + 1]
\* Keys go to the list when nothing is being typed, after the effects of the last.
Ready == ~effect /\ leaving = {} /\ ~palette.open

Focused == IF cursor # None /\ cursor \in DOMAIN rows THEN {rows[cursor]} ELSE {}

\* The targets of a key: the selection, then the open thread, then the cursor's.
Targets ==
  IF selected # {} THEN selected ELSE IF open # None THEN {open} ELSE Focused

GoTo(t) == open' = t /\ effect' = (t # open)

---------------------------------------------------------------------------
(* The list. *)

\* j and k: from the cursor, else the open thread, else the top.
Move ==
  /\ Ready /\ rows # <<>>
  /\ LET base == IF cursor # None THEN cursor
                 ELSE IF open \in Listed THEN Position(open) ELSE 0
     IN  \/ cursor' = Lower(base + 1, Len(rows))
         \/ cursor' = IF base > 1 THEN base - 1 ELSE 1
  /\ UNCHANGED <<aimed, rows, open, selected, effect, leaving, finder, counts>>

\* Enter and o; a click on a row
Read ==
  /\ Ready
  /\ \E t \in Focused \union Listed : GoTo(t)
  /\ UNCHANGED <<aimed, rows, cursor, selected, leaving, finder, counts>>

\* MailList's effect: the cursor goes to the row of the thread that was opened.
Sync ==
  /\ effect /\ effect' = FALSE
  /\ cursor' = IF open \in Listed THEN Position(open) ELSE cursor
  /\ UNCHANGED <<aimed, rows, open, selected, leaving, finder, counts>>

\* The row after the open thread, or before it; the first for one not listed.
Next1(t) ==
  LET i == IF t \in Listed THEN Position(t) ELSE 0
  IN  IF i + 1 \in DOMAIN rows THEN rows[i + 1]
      ELSE IF i > 1 THEN rows[i - 1] ELSE None

\* advancePastRemoved
Advance ==
  /\ IF selected = {} /\ open # None THEN GoTo(Next1(open)) ELSE UNCHANGED <<open, effect>>
  /\ cursor' = IF cursor = None THEN None
               ELSE IF Len(rows) > 1 THEN Lower(cursor, Len(rows) - 1) ELSE None

\* e and #
RemoveByKey ==
  /\ Ready /\ Targets # {} /\ Counts("removed", MaxRemoved)
  /\ Advance
  /\ leaving' = Targets /\ selected' = {}
  /\ aimed' = (Targets = Focused /\ Focused = {open})
  /\ UNCHANGED <<rows, finder>>

\* s, u and U: the flags are patched in place.
FlagByKey ==
  /\ Ready /\ Targets # {} /\ selected' = {}
  /\ UNCHANGED <<aimed, rows, open, cursor, effect, leaving, finder, counts>>

\* the toolbar's run: Archive or Delete, or a flag
RunBulk ==
  /\ Ready /\ selected # {}
  /\ \/ leaving' = selected /\ Counts("removed", MaxRemoved)
     \/ UNCHANGED <<leaving, counts>>
  /\ selected' = {}
  /\ UNCHANGED <<aimed, rows, open, cursor, effect, finder>>

\* removalMutation.onMutate, after its await
Hide ==
  /\ ~effect /\ leaving # {}
  /\ rows' = Without(leaving) /\ leaving' = {} /\ aimed' = FALSE
  /\ UNCHANGED <<open, cursor, selected, effect, finder, counts>>

Check ==
  \E t \in Listed :
    /\ Ready
    /\ selected' = IF t \in selected THEN selected \ {t} ELSE selected \union {t}
    /\ UNCHANGED <<aimed, rows, open, cursor, effect, leaving, finder, counts>>

Escape ==
  /\ Ready
  /\ IF open # None THEN GoTo(None) /\ UNCHANGED <<cursor, selected>>
     ELSE IF selected # {} THEN selected' = {} /\ UNCHANGED <<open, cursor, effect>>
     ELSE cursor' = None /\ UNCHANGED <<open, selected, effect>>
  /\ UNCHANGED <<aimed, rows, leaving, finder, counts>>

\* A fetch brings new mail, takes away what has gone, or brings back a row
\* whose removal failed.
Listing ==
  /\ ~effect /\ Counts("listed", MaxListed)
  /\ \/ \E t \in Thread \ Listed : rows' = <<t>> \o rows
     \/ \E t \in Listed : rows' = Without({t})
  /\ UNCHANGED <<aimed, open, cursor, selected, effect, leaving, finder>>

\* A link of the sidebar: another folder's list, without threadId.
Folder ==
  /\ Ready /\ Counts("listed", MaxListed)
  /\ \E t \in Thread : rows' = <<t>>
  /\ open' = None
  /\ UNCHANGED <<aimed, cursor, selected, effect, leaving, finder>>

---------------------------------------------------------------------------
(* The palette. *)

Results(q) == [of |-> q, found |-> {}]
NoResults == Results(0)
Shut == [open |-> FALSE, query |-> 0, at |-> 0, results |-> NoResults, searching |-> FALSE]
NoSearch == [of |-> 0, at |-> "none"]

\* The effect of a query's change: the search before it is cancelled, but a call
\* under way goes on.
Instead(next) ==
  search' = [live |-> next,
             dead |-> search.dead \union IF search.live.at = "called" THEN {search.live.of} ELSE {}]

\* close, which empties the query
Close ==
  /\ palette.open /\ palette' = Shut
  /\ Instead(NoSearch)
  /\ UNCHANGED <<list, counts>>

\* Mod+K shows the palette or hides it, and keeps what it holds.
ModK ==
  /\ palette' = [palette EXCEPT !.open = ~@]
  /\ UNCHANGED <<list, search, counts>>

Type ==
  \E q \in Query \ {palette.query} :
    /\ palette.open /\ Counts("typed", MaxTyped)
    /\ palette' = [palette EXCEPT !.query = q, !.at = 0, !.searching = q # 0,
                     !.results = IF q = 0 THEN NoResults ELSE @]
    /\ Instead(IF q = 0 THEN NoSearch ELSE [of |-> q, at |-> "waits"])
    /\ UNCHANGED list

\* 300 ms later
Call ==
  /\ search.live.at = "waits"
  /\ search' = [search EXCEPT !.live.at = "called"]
  /\ UNCHANGED <<list, palette, counts>>

\* listThreads answers, with a thread at most, or throws: an empty list.
Answer ==
  /\ search.live.at = "called"
  /\ \E found \in {{}} \union {{t} : t \in Thread} :
       palette' = [palette EXCEPT !.searching = FALSE,
                     !.results = [of |-> search.live.of, found |-> found]]
  /\ search' = [search EXCEPT !.live = NoSearch]
  /\ UNCHANGED <<list, counts>>

\* Variant: a cancelled search is not told from the last one.
AnswerAnyway(q) ==
  palette' = [palette EXCEPT !.searching = FALSE, !.results = Results(q)]
\* Its answer is dropped.
Dropped(q) == UNCHANGED palette

AnswerLate ==
  \E q \in search.dead :
    /\ Dropped(q)
    /\ search' = [search EXCEPT !.dead = @ \ {q}]
    /\ UNCHANGED <<list, counts>>

\* The arrow keys, over the results and after them the commands that match:
\* with an open thread, Archive and Star among them.
Entries == Cardinality(palette.results.found) + IF open # None THEN 2 ELSE 0

Arrow ==
  /\ palette.open
  /\ \/ palette' = [palette EXCEPT !.at = IF Entries > 0 THEN Lower(@ + 1, Entries - 1) ELSE 0]
     \/ palette' = [palette EXCEPT !.at = IF @ > 0 THEN @ - 1 ELSE 0]
  /\ UNCHANGED <<list, search, counts>>

\* Enter on a result opens it in the inbox; on Archive, it removes the open
\* thread and closes it; on Star, the thread stays.
Choose ==
  /\ palette.open /\ palette.at < Entries /\ ~effect /\ leaving = {}
  /\ palette' = Shut /\ Instead(NoSearch)
  /\ \/ /\ palette.at < Cardinality(palette.results.found)
        /\ \E t \in palette.results.found : GoTo(t)
        /\ UNCHANGED <<leaving, counts>>
     \/ /\ palette.at = Cardinality(palette.results.found)
        /\ GoTo(None) /\ leaving' = {open} /\ Counts("removed", MaxRemoved)
     \/ /\ palette.at > Cardinality(palette.results.found)
        /\ UNCHANGED <<open, effect, leaving, counts>>
  /\ UNCHANGED <<aimed, rows, cursor, selected>>

---------------------------------------------------------------------------

Init ==
  /\ \E n \in 0..Cardinality(Thread) : rows \in [1..n -> Thread] /\ IsInjective(rows)
  /\ open = None /\ cursor = None /\ selected = {} /\ effect = FALSE
  /\ leaving = {} /\ aimed = FALSE
  /\ palette = Shut /\ search = [live |-> NoSearch, dead |-> {}]
  /\ counts = [removed |-> 0, listed |-> 0, typed |-> 0]

Reads ==
  \/ Move \/ Read \/ Sync \/ RemoveByKey \/ FlagByKey \/ RunBulk \/ Hide
  \/ Check \/ Escape \/ Listing \/ Folder
Finds == Close \/ ModK \/ Type \/ Call \/ Answer \/ AnswerLate \/ Arrow \/ Choose

Next == Reads \/ Finds

Spec == Init /\ [][Next]_vars

---------------------------------------------------------------------------
(* Properties. *)

\* command-palette.tsx: when no search is under way, the results on the screen
\* are those of the query on the screen, in whatever order the calls answer.
ResultsMatchQuery ==
  ~palette.searching => palette.results.of \in {0, palette.query}

\* advancePastRemoved: a key that removes the open thread opens another row of
\* the list or none, never a thread that is going.
AdvanceIsListed ==
  [][leaving = {} /\ leaving' # {} /\ open # None /\ selected = {} =>
       open' = None \/ (open' \in Listed /\ open' \notin leaving')]_vars

\* use-keyboard-shortcuts.ts:104-106: a removal "keeps the cursor in place so it
\* lands on the following row once this one is optimistically removed": when it
\* was on the open thread, on the one that has been opened instead.
CursorFollows ==
  [][aimed /\ ~aimed' /\ open' \in ToSet(rows') =>
       cursor' \in DOMAIN rows' /\ rows'[cursor'] = open']_vars
=============================================================================
