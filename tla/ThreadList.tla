----------------------------- MODULE ThreadList -----------------------------
(***************************************************************************)
(* The lists of mail a client keeps (hooks/use-threads.ts) and what mail   *)
(* actions do to them before and after the server has answered             *)
(* (hooks/use-thread-actions.ts, store/backgroundQueue.ts): archived and   *)
(* deleted threads are hidden, flags are patched in place, a failure takes *)
(* the change back, and a settled action refetches the list on the screen  *)
(* and marks the others stale.  This is the path of the threads the sync   *)
(* store does not hold; ProviderOps has the other.                         *)
(*                                                                         *)
(* View is the set of list caches.  They list one folder: two caches       *)
(* differ in what they were last told, not in what they are about.  The    *)
(* query library's part, which is external, is the variables stale and     *)
(* fetch and the operators Refetch, Cancelled and Patched.                 *)
(***************************************************************************)
EXTENDS Naturals, FiniteSets

CONSTANTS
  Thread,     \* threads
  View,       \* cached lists
  Marked,     \* the threads with the flag at first
  Act,        \* actions that may be under way together
  MaxActs,    \* bound: actions begun
  MaxFaults,  \* bound: calls and fetches that fail
  MaxPolls,   \* bound: polls that find new mail
  Roams,      \* may the user change the view while an action or a fetch is under way?
  AutoRead    \* the user's setting of this name

VARIABLES
  inbox,    \* the provider: the threads in the folder
  flagged,  \* the provider: the threads with the flag (starred, or unread)
  cache,    \* per view: the rows it holds, and those it shows with the flag
  stale,    \* per view: invalidated, so that mounting it refetches it
  fetch,    \* per view: the fetch under way, who awaits it, what it has read
  view,     \* the view on the screen
  hidden,   \* backgroundQueueAtom
  act,      \* the actions
  toasts,   \* the offers to undo a removal
  begun, faults, polls,  \* what the bounds count
  spoilt,   \* history: a list was left stale on the screen by a failure
  opened,   \* history: a thread was marked read because it was opened
  untold    \* history: the views not fetched since a removal or an undo did its
            \* work, or part of it, and failed

vars == <<inbox, flagged, cache, stale, fetch, view, hidden, act, toasts,
          begun, faults, polls, spoilt, opened, untold>>
provider == <<inbox, flagged>>
lists == <<cache, stale, fetch>>
bounds == <<begun, faults, polls>>
history == <<spoilt, opened, untold>>

---------------------------------------------------------------------------

Listing == [rows |-> inbox, flagged |-> inbox \intersect flagged]
NoFetch == [at |-> "idle", by |-> "none", got |-> "nothing"]
NoAct == [pc |-> "idle"]
AllIdle == \A a \in Act : act[a].pc = "idle"
OnScreen == cache[view].rows \ hidden

Fault == faults < MaxFaults /\ faults' = faults + 1

\* invalidateQueries of a key for which f are the fetches: the list on the
\* screen is fetched anew, whatever fetch of it is under way.
Refetch(v, by, f) ==
  IF v = view THEN [f EXCEPT ![v] = [NoFetch EXCEPT !.at = "asked", !.by = by]] ELSE f

\* cancelListQueries
Cancelled == [v \in View |-> NoFetch]

AllStale == [v \in View |-> TRUE]
\* what setQueryData makes of a cached list, invalidated or not
AllFresh == [v \in View |-> FALSE]

\* patchThreadPreviews of one list
Patched(c, ids, value) ==
  [c EXCEPT !.flagged = IF value THEN @ \union (ids \intersect c.rows) ELSE @ \ ids]
PatchAll(ids, value) == [v \in View |-> Patched(cache[v], ids, value)]

Begin(a, kind, ids, value, key) ==
  /\ act[a].pc = "idle" /\ begun < MaxActs /\ begun' = begun + 1
  /\ act' = [act EXCEPT ![a] =
       [pc |-> "called", kind |-> kind, ids |-> ids, value |-> value, key |-> key, snap |-> cache]]
  /\ UNCHANGED <<faults, polls>>

Is(a, pc, kind) == act[a].pc = pc /\ act[a].kind = kind
To(a, pc) == act' = [act EXCEPT ![a].pc = pc]
Ends(a) == act' = [act EXCEPT ![a] = NoAct]

---------------------------------------------------------------------------
(* What the user does. *)

\* archive, deleteThreads; removalMutation.onMutate
Remove(a) ==
  \E ids \in (SUBSET OnScreen) \ {{}} :
    /\ Begin(a, "removal", ids, FALSE, view)
    /\ fetch' = Cancelled
    /\ hidden' = hidden \union ids
    /\ UNCHANGED <<provider, cache, stale, view, toasts, history>>

\* toggleStar, markRead, markUnread; flagMutation.onMutate
Flag(a) ==
  \E ids \in (SUBSET OnScreen) \ {{}}, value \in BOOLEAN :
    /\ Begin(a, "flag", ids, value, view)
    /\ fetch' = Cancelled
    /\ cache' = PatchAll(ids, value)
    /\ stale' = AllFresh
    /\ UNCHANGED <<provider, view, hidden, toasts, history>>

\* useThread's effect: a thread that is opened is marked read.
Open(a) ==
  \E t \in OnScreen \intersect cache[view].flagged :
    /\ AutoRead
    /\ Begin(a, "open", {t}, FALSE, view)
    /\ cache' = PatchAll({t}, FALSE)
    /\ stale' = AllFresh
    /\ opened' = TRUE
    /\ UNCHANGED <<provider, fetch, view, hidden, toasts, spoilt, untold>>

\* The Undo of a removal's toast, which knows the view of the removal.
Undo(a) ==
  \E toast \in toasts :
    /\ Roams \/ toast.key = view
    /\ Begin(a, "undo", toast.ids, FALSE, toast.key)
    /\ toasts' = toasts \ {toast}
    /\ UNCHANGED <<provider, lists, view, hidden, history>>

\* UNDO_TOAST_DURATION_MS
ToastGoes ==
  \E toast \in toasts :
    /\ toasts' = toasts \ {toast}
    /\ UNCHANGED <<provider, lists, view, hidden, act, bounds, history>>

\* Another folder is opened: its list is fetched when it is stale or older
\* than staleTime.  A fetch of the old view goes on.
Switch ==
  \E v \in View \ {view} :
    /\ Roams \/ (AllIdle /\ fetch = Cancelled)
    /\ view' = v
    /\ \/ fetch' = [fetch EXCEPT ![v] = IF @.at = "idle" THEN [@ EXCEPT !.at = "asked"] ELSE @]
       \/ ~stale[v] /\ UNCHANGED fetch
    /\ UNCHANGED <<provider, cache, stale, hidden, act, toasts, bounds, history>>

---------------------------------------------------------------------------
(* The calls of the server actions. *)

\* What bulkArchive, bulkDelete; toggleStar, markAsRead, markAsUnread;
\* modifyLabels do to the threads done of those they were given.
Effect(a, done) ==
  LET c == act[a] IN
    /\ inbox' = CASE c.kind = "removal" -> inbox \ done
                  [] c.kind = "undo" -> inbox \union done
                  [] OTHER -> inbox
    /\ flagged' = IF c.kind \notin {"flag", "open"} THEN flagged
                  ELSE IF c.value THEN flagged \union done ELSE flagged \ done

\* A folder of an IMAP host that refuses is passed over.
Perform(a) ==
  /\ act[a].pc = "called" /\ To(a, "ok")
  /\ \/ Effect(a, act[a].ids) /\ UNCHANGED faults
     \/ Fault /\ \E done \in SUBSET act[a].ids : Effect(a, done)
  /\ UNCHANGED <<lists, view, hidden, toasts, begun, polls, history>>

\* The call fails, or its answer is lost: before the work, in the midst of the
\* threads, or after it.
Refuse(a) ==
  /\ act[a].pc = "called" /\ To(a, "failed") /\ Fault
  /\ \E done \in SUBSET act[a].ids :
       /\ Effect(a, done)
       /\ untold' = IF act[a].kind \in {"removal", "undo"} /\ done # {} THEN View ELSE untold
  /\ UNCHANGED <<lists, view, hidden, toasts, begun, polls, spoilt, opened>>

Freed(a) == hidden \ act[a].ids

\* removalMutation.onSuccess, and onSettled up to its await
Removed(a) ==
  /\ Is(a, "ok", "removal") /\ To(a, "refetching")
  /\ toasts' = toasts \union {[ids |-> act[a].ids, key |-> act[a].key]}
  /\ stale' = [stale EXCEPT ![act[a].key] = TRUE]
  /\ fetch' = Refetch(act[a].key, a, fetch)
  /\ UNCHANGED <<provider, cache, view, hidden, bounds, history>>

\* undoRemoval up to its second await
Undone(a) ==
  /\ Is(a, "ok", "undo") /\ To(a, "refetching")
  /\ hidden' = Freed(a)
  /\ stale' = [stale EXCEPT ![act[a].key] = TRUE]
  /\ fetch' = Refetch(act[a].key, a, fetch)
  /\ UNCHANGED <<provider, cache, view, toasts, bounds, history>>

\* Variant: the settled action marks the list stale that it has refetched.
OwnStale(a) == [stale EXCEPT ![act[a].key] = TRUE]
OthersStale(a) == AllStale

\* The awaited refetch has ended: it landed, failed, or was cancelled or
\* replaced, which invalidateQueries does not tell apart.
Refetched(a) ==
  /\ act[a].pc = "refetching" /\ Ends(a)
  /\ \A v \in View : fetch[v].by # a
  /\ stale' = OthersStale(a)
  /\ hidden' = IF act[a].kind = "removal" THEN Freed(a) ELSE hidden
  /\ UNCHANGED <<provider, cache, fetch, view, toasts, bounds, history>>

\* removalMutation.onError; onSettled returns early.
NotRemoved(a) ==
  /\ Is(a, "failed", "removal") /\ Ends(a)
  /\ hidden' = Freed(a)
  /\ spoilt' = (spoilt \/ (stale[view] /\ fetch[view].at = "idle"))
  /\ UNCHANGED <<provider, lists, view, toasts, bounds, opened, untold>>

\* undoRemoval, catch: a message only
NotUndone(a) ==
  /\ Is(a, "failed", "undo") /\ Ends(a)
  /\ UNCHANGED <<provider, lists, view, hidden, toasts, bounds, history>>

AfterFlag(a) == Refetch(act[a].key, "none", fetch)

\* flagMutation.onError, restoreLists; onSettled
FlagSettles(a) ==
  /\ Is(a, "ok", "flag") \/ Is(a, "failed", "flag")
  /\ Ends(a)
  /\ cache' = IF act[a].pc = "failed" THEN act[a].snap ELSE cache
  /\ stale' = AllStale
  /\ fetch' = AfterFlag(a)
  /\ UNCHANGED <<provider, view, hidden, toasts, bounds, history>>

\* useThread: nothing follows a call that succeeds; a failure is patched back.
OpenSettles(a) ==
  /\ Is(a, "ok", "open") \/ Is(a, "failed", "open")
  /\ Ends(a)
  /\ IF act[a].pc = "ok" THEN UNCHANGED <<cache, stale>>
     ELSE cache' = PatchAll(act[a].ids, TRUE) /\ stale' = AllFresh
  /\ UNCHANGED <<provider, fetch, view, hidden, toasts, bounds, history>>

---------------------------------------------------------------------------
(* Fetches. *)

\* listThreads, listAllInboxes at the server
Read(v) ==
  /\ fetch[v].at = "asked"
  /\ fetch' = [fetch EXCEPT ![v].at = "read", ![v].got = Listing]
  /\ UNCHANGED <<provider, cache, stale, view, hidden, act, toasts, bounds, history>>

Land(v) ==
  /\ fetch[v].at = "read"
  /\ cache' = [cache EXCEPT ![v] = fetch[v].got]
  /\ stale' = [stale EXCEPT ![v] = FALSE]
  /\ fetch' = [fetch EXCEPT ![v] = NoFetch]
  /\ untold' = IF fetch[v].got = Listing THEN untold \ {v} ELSE untold
  /\ UNCHANGED <<provider, view, hidden, act, toasts, bounds, spoilt, opened>>

FetchFails(v) ==
  /\ fetch[v].at = "asked" /\ Fault
  /\ fetch' = [fetch EXCEPT ![v] = NoFetch]
  /\ spoilt' = TRUE
  /\ UNCHANGED <<provider, cache, stale, view, hidden, act, toasts, begun, polls, opened, untold>>

\* useNewMailNotifier has announced new mail: the inbox views are invalidated.
Announce ==
  /\ polls < MaxPolls /\ polls' = polls + 1
  /\ stale' = AllStale
  /\ fetch' = Refetch(view, "none", fetch)
  /\ UNCHANGED <<provider, cache, view, hidden, act, toasts, begun, faults, history>>

---------------------------------------------------------------------------

\* Lists that were fetched, nothing under way.
Init ==
  /\ inbox = Thread /\ flagged = Marked
  /\ cache = [v \in View |-> Listing]
  /\ stale = AllFresh /\ fetch = Cancelled
  /\ view = CHOOSE v \in View : TRUE
  /\ hidden = {}
  /\ act = [a \in Act |-> NoAct] /\ toasts = {}
  /\ begun = 0 /\ faults = 0 /\ polls = 0
  /\ spoilt = FALSE /\ opened = FALSE /\ untold = {}

User == ToastGoes \/ Switch \/ \E a \in Act : Remove(a) \/ Flag(a) \/ Open(a) \/ Undo(a)

\* mutationFn and what follows it
Settle(a) ==
  \/ Perform(a) \/ Refuse(a)
  \/ Removed(a) \/ NotRemoved(a) \/ Refetched(a)
  \/ Undone(a) \/ NotUndone(a)
  \/ FlagSettles(a) \/ OpenSettles(a)

Fetch(v) == Read(v) \/ Land(v) \/ FetchFails(v)

Next == User \/ Announce \/ (\E a \in Act : Settle(a)) \/ (\E v \in View : Fetch(v))

\* Every call and every fetch returns, and its callbacks run.
Fairness == (\A a \in Act : WF_vars(Settle(a))) /\ (\A v \in View : WF_vars(Fetch(v)))

Spec == Init /\ [][Next]_vars /\ Fairness

---------------------------------------------------------------------------
(* Properties. *)

\* use-thread-actions.ts, markOtherCachesStale: when no action is under way, a
\* list that mounting would not refetch shows what the provider has.  Every
\* action, every flag that fails, with or without part of its work done, and every
\* fetch that overtakes one has to keep this for the lists it does not show.
\* Marking an opened thread read does not, nor does a removal or an undo that
\* fails with part of its work done, until the list is fetched again.
FreshIsTrue ==
  AllIdle => opened \/ \A v \in View : cache[v] = Listing \/ stale[v] \/ v \in untold

\* use-thread-actions.ts:160-162, of the lists marked stale: it "prevents removed
\* rows resurfacing when the user switches views".
RemovedStayAway ==
  AllIdle => \A v \in View : stale[v] \/ cache[v].rows \subseteq inbox

\* "so the threads aren't hidden from other folders forever"
\* (use-thread-actions.ts, onSettled): a removal, done or failed, undone or cut
\* short by another action, gives its threads back.
HiddenReturns == \A t \in Thread : t \in hidden ~> t \notin hidden

\* The list on the screen comes to show the provider's mail, through failed
\* flags, undone removals and cancelled refetches, unless a refetch failed or
\* was cancelled by a removal that failed, or a removal failed with part of its
\* work done: those leave it as it is.
Converges ==
  <>[](spoilt \/ opened
       \/ \A v \in View : cache[v] = Listing \/ (v # view /\ stale[v]) \/ v \in untold)
=============================================================================
