------------------------------ MODULE Settings ------------------------------
(***************************************************************************)
(* The user's settings: one row that server/actions/settings.ts reads and  *)
(* then writes as a whole, the copy of it each tab keeps (useSettings), and *)
(* the two tabs of the settings dialog that change it, one key at a time   *)
(* or, for the notifications, one object as the tab last knew it.          *)
(*                                                                         *)
(* A setting is on or off.                                                 *)
(***************************************************************************)
EXTENDS Naturals, FiniteSets, Functions

CONSTANTS
  Client,     \* tabs and devices of the user
  Worker,     \* server functions that are called
  Plain,      \* settings of the general tab, each saved by itself
  Noted,      \* those of the notifications tab, saved together; one is "desktop"
  Legacy,     \* whether the row may be one that userSettingsSchema refuses
  MaxSaves,   \* bound: changes a user makes
  MaxFaults   \* bound: requests that fail, or whose answer is lost

VARIABLES
  row,      \* the settings in the database, or Absent
  taken,    \* whether userSettingsSchema takes them
  shown,    \* what useSettings shows in each tab
  fetch,    \* each tab's fetch of them
  save,     \* each worker's call: what was changed, the input, the row it read
  counts

vars == <<row, taken, shown, fetch, save, counts>>

Key == Plain \union Noted
Absent == <<>>
defaultUserSettings == [k \in Key |-> k # "desktop"]
NoFetch == [at |-> "none", value |-> Absent]
Asked == [at |-> "asked", value |-> Absent]
Idle == [at |-> "idle", of |-> CHOOSE c \in Client : TRUE, key |-> "none", input |-> Absent, base |-> Absent]

Counts(c, bound) == counts[c] < bound /\ counts' = [counts EXCEPT ![c] = @ + 1]
Fault == Counts("faults", MaxFaults)
NoFault == UNCHANGED counts
Goto(w, at) == save' = [save EXCEPT ![w].at = at]
Ends(w) == save' = [save EXCEPT ![w] = Idle]

---------------------------------------------------------------------------
(* The dialog. *)

Changed(c, k) == [shown[c] EXCEPT ![k] = ~@]
Begin(c, k, input, at) ==
  /\ Counts("saves", MaxSaves)
  /\ \E w \in Worker :
       /\ save[w] = Idle
       /\ save' = [save EXCEPT ![w] = [Idle EXCEPT !.at = at, !.of = c, !.key = k, !.input = input]]
  /\ UNCHANGED <<row, taken, shown, fetch>>

\* GeneralTab, updateSetting: the one that is changed
ClickPlain(c) ==
  \E k \in Plain : Begin(c, k, Restrict(Changed(c, k), {k}), "read")

\* NotificationsTab, updateNotifications: all of them, as the tab knows them.
\* To turn "desktop" on, the browser may have to ask.
ClickNoted(c) ==
  \E k \in Noted :
    Begin(c, k, Restrict(Changed(c, k), Noted),
          IF k = "desktop" /\ ~shown[c][k] THEN "permission" ELSE "read")

\* handleDesktopToggle goes on with what it had closed over.
Permission(w) ==
  /\ save[w].at = "permission" /\ save[w].key = "desktop"
  /\ Goto(w, "read") \/ Ends(w)
  /\ UNCHANGED <<row, taken, shown, fetch, counts>>

---------------------------------------------------------------------------
(* saveSettings. *)

ReadRow(w) ==
  /\ save[w].at = "read" /\ NoFault
  /\ save' = [save EXCEPT ![w].at = "write", ![w].base = row]
  /\ UNCHANGED <<row, taken, shown, fetch>>

\* The row as it was read, with the input over it; a row is inserted once.
Written(base, input) == [k \in Key |-> IF k \in DOMAIN input THEN input[k] ELSE base[k]]

Write(w) ==
  /\ save[w].at = "write" /\ NoFault
  /\ IF save[w].base # Absent
       THEN row' = Written(save[w].base, save[w].input) /\ UNCHANGED taken /\ Goto(w, "done")
     ELSE IF row = Absent
       THEN row' = Written(defaultUserSettings, save[w].input) /\ taken' = TRUE /\ Goto(w, "done")
     ELSE UNCHANGED <<row, taken>> /\ Ends(w)
  /\ UNCHANGED <<shown, fetch>>

\* "Failed to save setting": before the write, or after it.
SaveFails(w) ==
  /\ save[w].at \in {"read", "write", "done"} /\ Fault /\ Ends(w)
  /\ UNCHANGED <<row, taken, shown, fetch>>

\* Variant: a fetch that is under way will do.
Joined(f) == IF f = NoFetch THEN Asked ELSE f
\* invalidateQueries begins the fetch anew.
Invalidated(f) == Asked

Settle(w) ==
  /\ save[w].at = "done" /\ Ends(w)
  /\ fetch' = [fetch EXCEPT ![save[w].of] = Invalidated(@)]
  /\ UNCHANGED <<row, taken, shown, counts>>

---------------------------------------------------------------------------
(* getSettings. *)

\* Without a row, and for one that the schema refuses, the defaults.  The
\* update that would replace such a row is made and never run.
Served == IF row = Absent \/ ~taken THEN defaultUserSettings ELSE row

\* What fails is answered with the defaults too.
getSettings(c) ==
  /\ fetch[c].at = "asked"
  /\ \E value \in {Served, defaultUserSettings} :
       /\ IF value = Served THEN NoFault ELSE Fault
       /\ fetch' = [fetch EXCEPT ![c] = [at |-> "read", value |-> value]]
  /\ UNCHANGED <<row, taken, shown, save>>

\* useSettings never asks again by itself: its data do not become stale.
Land(c) ==
  /\ fetch[c].at = "read"
  /\ shown' = [shown EXCEPT ![c] = fetch[c].value] /\ fetch' = [fetch EXCEPT ![c] = NoFetch]
  /\ UNCHANGED <<row, taken, save, counts>>

\* The hook that inserts the defaults for a new user may have failed.
Init ==
  /\ row \in {Absent, defaultUserSettings} /\ taken \in BOOLEAN /\ (~taken => Legacy /\ row # Absent)
  /\ shown = [c \in Client |-> defaultUserSettings] /\ fetch = [c \in Client |-> NoFetch]
  /\ save = [w \in Worker |-> Idle] /\ counts = [saves |-> 0, faults |-> 0]

Serve(w) == Permission(w) \/ ReadRow(w) \/ Write(w) \/ SaveFails(w) \/ Settle(w)
Next ==
  \/ \E w \in Worker : Serve(w)
  \/ \E c \in Client : ClickPlain(c) \/ ClickNoted(c) \/ getSettings(c) \/ Land(c)

Spec == Init /\ [][Next]_vars

---------------------------------------------------------------------------
(* Properties. *)

\* general-tab.tsx and notifications-tab.tsx: in the one tab that the user
\* changes settings in, when all is done and nothing failed the switches show
\* what is stored, however the saves and the fetches that follow them overlapped.
ShownIsStored ==
  \A c \in Client :
    counts.faults = 0 /\ fetch[c] = NoFetch /\ (\A w \in Worker : save[w].at \in {"idle", "permission", "read"}) =>
      shown[c] = Served

\* settings.ts, saveSettings: of what is stored a save changes what was changed.
\* The row is written as it was read, the notifications as the tab knew them.
OthersKept ==
  [][\A k \in Key : row # Absent /\ row'[k] # row[k] =>
       \E w \in Worker : save[w].at = "write" /\ save'[w].at = "done" /\ save[w].key = k]_vars

\* settings.ts: a save that is answered success is what the user sees from then on.
SavedIsShown ==
  \A w \in Worker : LET k == save[w].key IN
    save[w].at = "done" /\ row[k] = save[w].input[k] => Served[k] = row[k]
=============================================================================
