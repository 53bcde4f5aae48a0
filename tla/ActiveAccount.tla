--------------------------- MODULE ActiveAccount ---------------------------
(***************************************************************************)
(* Which account is the active one.  The server keeps it in the user's     *)
(* record and every action reads it there (requireActiveDriver); the       *)
(* client keeps what it was last told (useActiveConnection) and files by   *)
(* it what the actions answer.  Here are the two ways to switch, the       *)
(* dialog of account-switch-dialog.tsx (opened by nav-user.tsx) and the    *)
(* entry of command-palette.tsx, the lists of use-threads.ts, the poll of  *)
(* use-new-mail-notifier.ts, the removal in connections-tab.tsx, and       *)
(* other tabs and devices that switch.                                     *)
(***************************************************************************)
EXTENDS Naturals

CONSTANTS
  Account,
  MaxSwitches,   \* bound: switches here
  MaxElsewhere,  \* bound: switches made elsewhere, removals
  MaxFaults      \* bound: requests that fail or whose answer is lost

VARIABLES
  live,      \* the accounts there are
  default,   \* the server's: user.defaultConnectionId
  active,    \* the client's: the data of the activeConnection query
  ask,       \* that query's request
  switch,    \* a switch: by dialog or palette, its step and its target
  list,      \* per account: whose mail the client has filed as its list
  fetch,     \* per account: the request of that list
  cursor,    \* the poll's: whose newest mail it is
  poll,      \* the poll's request
  switches, others, faults,  \* what the bounds count
  excused,   \* history: the client cannot know that it is behind
  announced  \* history: mail announced as new that an account already had

vars == <<live, default, active, ask, switch, list, fetch, cursor, poll,
          switches, others, faults, excused, announced>>
lists == <<list, fetch>>
polls == <<cursor, poll, announced>>
counts == <<switches, others, faults>>

---------------------------------------------------------------------------

None == "none"
Idle == [at |-> "idle", got |-> None]
Asked == [at |-> "asked", got |-> None]
Answer(a) == [at |-> "read", got |-> a]
Fault == faults < MaxFaults /\ faults' = faults + 1

\* invalidateQueries fetches again and drops the answer of a fetch under way.
\* Variant: it leaves a fetch under way alone.
AskAgainIfIdle(r) == IF r = Idle THEN Asked ELSE r
AskAgain(r) == Asked

\* The cursor's effect, when the active account changes
Tell(a) == active' = a /\ cursor' = IF a = active THEN cursor ELSE None

---------------------------------------------------------------------------
(* Switching. *)

\* handleAccountSwitch; the palette's entry
Begin(by, a) ==
  /\ switch.pc = "none" /\ switches < MaxSwitches /\ switches' = switches + 1
  /\ a \in live /\ a # active /\ active # None
  /\ switch' = [by |-> by, pc |-> "set", target |-> a]
  /\ UNCHANGED <<live, default, active, ask, lists, polls, others, faults, excused>>

\* setDefaultConnection: the account must be there; then the step after it.
SetDefault ==
  /\ switch.pc = "set"
  /\ IF switch.target \in live
     THEN default' = switch.target /\ switch' = [switch EXCEPT !.pc = "told"]
     ELSE switch' = [switch EXCEPT !.pc = "failed"] /\ UNCHANGED default
  /\ UNCHANGED <<live, active, ask, lists, polls, counts, excused>>

\* It fails, or has its effect and the answer is lost.
SetFails ==
  /\ switch.pc = "set" /\ Fault /\ switch' = [switch EXCEPT !.pc = "failed"]
  /\ \/ UNCHANGED <<default, excused>>
     \/ switch.target \in live /\ default' = switch.target /\ excused' = TRUE
  /\ UNCHANGED <<live, active, ask, lists, polls, switches, others>>

\* The dialog loads the target's list; unless the one there is fresh, or the
\* request fails, which is passed over.
Load ==
  /\ switch.by = "dialog" /\ switch.pc = "told"
  /\ switch' = [switch EXCEPT !.pc = "loaded"]
  /\ \/ list' = [list EXCEPT ![switch.target] = default]
     \/ UNCHANGED list
  /\ UNCHANGED <<live, default, active, ask, fetch, polls, counts, excused>>

\* The dialog says which account is active and asks for it again ...
Complete ==
  /\ switch.pc = "loaded"
  /\ Tell(switch.target) /\ ask' = AskAgain(ask)
  /\ switch' = [switch EXCEPT !.pc = "none"]
  /\ UNCHANGED <<live, default, lists, poll, announced, counts, excused>>

\* ... the palette only asks again, for the lists as well.
Announced ==
  /\ switch.by = "palette" /\ switch.pc = "told"
  /\ ask' = AskAgain(ask)
  /\ fetch' = [a \in Account |-> IF a = active THEN Asked ELSE fetch[a]]
  /\ switch' = [switch EXCEPT !.pc = "none"]
  /\ UNCHANGED <<live, default, active, list, polls, counts, excused>>

\* An error is shown; the dialog is closed.
GiveUp ==
  /\ switch.pc = "failed" /\ switch' = [switch EXCEPT !.pc = "none"]
  /\ UNCHANGED <<live, default, active, ask, lists, polls, counts, excused>>

---------------------------------------------------------------------------
(* The activeConnection query: asked for again on a mount after staleTime. *)

Mount ==
  /\ ask = Idle /\ ask' = Asked
  /\ UNCHANGED <<live, default, active, switch, lists, polls, counts, excused>>

\* getDefaultConnection: any failure is answered like no account.
ReadActive ==
  /\ ask = Asked
  /\ \/ ask' = Answer(default) /\ UNCHANGED <<faults, excused>>
     \/ Fault /\ ask' = Answer(None) /\ excused' = TRUE
  /\ UNCHANGED <<live, default, active, switch, lists, polls, switches, others>>

Told ==
  /\ ask.at = "read" /\ Tell(ask.got) /\ ask' = Idle
  /\ excused' = (excused /\ ask.got # default)
  /\ UNCHANGED <<live, default, switch, lists, poll, announced, counts>>

---------------------------------------------------------------------------
(* Lists and polls: asked for by the client's account, answered by the     *)
(* server's.                                                               *)

\* useThreads: a mount, the next page, an invalidation
Want ==
  /\ active # None /\ fetch[active] = Idle
  /\ fetch' = [fetch EXCEPT ![active] = Asked]
  /\ UNCHANGED <<live, default, active, ask, switch, list, polls, counts, excused>>

ReadList(a) ==
  /\ fetch[a] = Asked /\ fetch' = [fetch EXCEPT ![a] = Answer(default)]
  /\ UNCHANGED <<live, default, active, ask, switch, list, polls, counts, excused>>

File(a) ==
  /\ fetch[a].at = "read" /\ fetch' = [fetch EXCEPT ![a] = Idle]
  /\ list' = [list EXCEPT ![a] = fetch[a].got]
  /\ UNCHANGED <<live, default, active, ask, switch, polls, counts, excused>>

\* The interval: the request has the cursor with it.
Poll ==
  /\ active # None /\ poll.at = "idle" /\ poll' = [at |-> "asked", got |-> cursor]
  /\ UNCHANGED <<live, default, active, ask, switch, lists, cursor, announced, counts, excused>>

\* pollNewMessages: a cursor that is not in the list makes all of it new.
ReadPoll ==
  /\ poll.at = "asked"
  /\ announced' = (announced \/ poll.got \notin {None, default})
  /\ poll' = Answer(default)
  /\ UNCHANGED <<live, default, active, ask, switch, lists, cursor, counts, excused>>

\* The answer's cursor is kept, whichever account is active by now.
Polled ==
  /\ poll.at = "read" /\ cursor' = poll.got /\ poll' = Idle
  /\ UNCHANGED <<live, default, active, ask, switch, lists, announced, counts, excused>>

---------------------------------------------------------------------------
(* Elsewhere, and a removal in the settings: the client is not told. *)

Elsewhere ==
  /\ others < MaxElsewhere /\ others' = others + 1
  /\ \E a \in live \ {default} : default' = a
  /\ excused' = TRUE
  /\ UNCHANGED <<live, active, ask, switch, lists, polls, switches, faults>>

\* deleteConnection, disconnectAccount: another account becomes the default.
Disconnect ==
  /\ others < MaxElsewhere /\ others' = others + 1
  /\ \E a \in live :
       /\ live # {a} /\ live' = live \ {a}
       /\ default' \in IF a = default THEN live \ {a} ELSE {default}
       /\ excused' = (excused \/ a = default)
  /\ UNCHANGED <<active, ask, switch, lists, polls, switches, faults>>

---------------------------------------------------------------------------

Init ==
  /\ live = Account /\ default \in Account /\ active = default /\ ask = Idle
  /\ switch = [by |-> "dialog", pc |-> "none", target |-> None]
  /\ list = [a \in Account |-> None] /\ fetch = [a \in Account |-> Idle]
  /\ cursor = None /\ poll = Idle
  /\ switches = 0 /\ others = 0 /\ faults = 0
  /\ excused = FALSE /\ announced = FALSE

Switches ==
  \/ \E by \in {"dialog", "palette"}, a \in Account : Begin(by, a)
  \/ SetDefault \/ SetFails \/ Load \/ Complete \/ Announced \/ GiveUp
Queries == Mount \/ ReadActive \/ Told
Mailbox == Want \/ (\E a \in Account : ReadList(a) \/ File(a)) \/ Poll \/ ReadPoll \/ Polled

Next == Switches \/ Queries \/ Mailbox \/ Elsewhere \/ Disconnect

Spec == Init /\ [][Next]_vars

---------------------------------------------------------------------------
(* Properties. *)

\* Once a switch is over and the query at rest the client shows the account the
\* server answers for, however the switch, answers read before it and other
\* fetches met; unless it was switched elsewhere, the account was removed, or an
\* answer was lost, of which nothing tells the client before its next fetch.
ClientAgrees ==
  switch.pc = "none" /\ ask = Idle /\ ~excused => active = default

\* account-switch-dialog.tsx: queries "are keyed by connection id, so other
\* accounts' caches are still valid": what is filed for an account is its mail.
ListsKeepToAccount == \A a \in Account : list[a] \in {None, a}

\* use-new-mail-notifier.ts: the cursor is reset with the account "so we don't
\* mistake the new inbox's contents for 'new' mail".
NewsIsOfAccount == ~announced
============================================================================
