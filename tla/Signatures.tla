----------------------------- MODULE Signatures -----------------------------
(***************************************************************************)
(* The signatures of the user's accounts: their rows and the functions of  *)
(* server/actions/signatures.ts that change them in two steps, the lists   *)
(* of them each page keeps per account (useSignatures), the settings tab   *)
(* that edits them, the composer that picks one of the list it looks at,   *)
(* and sendEmail, which appends one to the mail.                           *)
(*                                                                         *)
(* A signature's text is the number of the edit that wrote it.             *)
(***************************************************************************)
EXTENDS Naturals

CONSTANTS
  Sig,        \* rows of signatures
  Account,    \* the user's connections
  Worker,     \* calls of the tab that may wait at once
  None,       \* no row, no signature, no list
  MaxSaves,   \* bound: signatures created, changed or deleted, and mails sent
  MaxOpens,   \* bound: times a composer is opened
  MaxFaults   \* bound: calls that fail, or whose answer is lost

VARIABLES
  rows,     \* the signatures in the database
  list,     \* ["signatures", account]: the list, whether it is stale, its fetch
  first,    \* connections[0], in the order the database returned
  tab,      \* the account chosen in the settings tab, or None: the first one
  editing,  \* the form of the settings tab, and the account it was opened under
  call,     \* each worker's call
  composer, \* its From, the signature picked, hasInitializedSigRef, isSubmitting
  mail,     \* the last mail: what was picked and shown, what it carries
  counts    \* with the forms that were saved under another account (history)

vars == <<rows, list, first, tab, editing, call, composer, mail, counts>>

All == "all"
Lists == Account \union {All}
Active == CHOOSE a \in Account : TRUE
Shown == IF tab = None THEN first ELSE tab
Unread == [data |-> None, stale |-> FALSE, at |-> "none", value |-> None]
Idle == [at |-> "idle", kind |-> "none", sig |-> None, of |-> None, key |-> None,
         body |-> 0, dflt |-> FALSE, cleared |-> FALSE]
NoMail == [at |-> "none", picked |-> None, shown |-> None, of |-> None, carried |-> None]
NoComposer == [from |-> "shut", picked |-> None, started |-> FALSE, sending |-> FALSE]
\* The account whose signatures a composer lists: that of its From, or the first;
\* those of all accounts before the connections are there.
ListOf(c, f) == [shut |-> None, unknown |-> All, empty |-> f, own |-> Active][c.from]

Counts(c, bound) == counts[c] < bound /\ counts' = [counts EXCEPT ![c] = @ + 1]
Fault == Counts("faults", MaxFaults)
NoFault == UNCHANGED counts
Saves == Counts("saves", MaxSaves)
Opens == Counts("opens", MaxOpens)
Ends(w) == call' = [call EXCEPT ![w] = Idle]

Of(a) == {s \in Sig : rows[s] # None /\ (a = All \/ rows[s].of = a)}
Defaults(a) == {s \in Of(a) : rows[s].dflt}
findSignatures(k) == [s \in Of(k) |-> rows[s]]
InList(k) == IF list[k].data = None THEN {} ELSE DOMAIN list[k].data

---------------------------------------------------------------------------
(* The lists. *)

Asked(l) == [l EXCEPT !.at = "asked", !.value = None, !.stale = FALSE]
\* A list that is looked at is fetched when it is stale, or a minute old, unless
\* it is being fetched.
LookedAt(l) ==
  IF l.at # "none" THEN {l} ELSE {IF l.data = None \/ l.stale THEN Asked(l) ELSE l, Asked(l)}
Observed(k) == k \in {Shown, ListOf(composer, first)}
\* invalidateQueries: what nobody looks at is fetched when somebody does.
Invalidated(l, seen) == IF seen THEN Asked(l) ELSE [l EXCEPT !.stale = TRUE]

\* The composer's effect on [signatures]: the default is picked once, and again
\* only after a list that is empty or not there yet.
Seen(c, data) ==
  IF data = None \/ DOMAIN data = {} THEN [c EXCEPT !.picked = None, !.started = FALSE]
  ELSE IF c.started THEN c
  ELSE [c EXCEPT !.started = TRUE,
                 !.picked = IF \E s \in DOMAIN data : data[s].dflt
                              THEN CHOOSE s \in DOMAIN data : data[s].dflt ELSE None]

\* Next sends the server functions a page calls one after the other; which of
\* those that wait is next is left open.
Busy == \/ \E k \in Lists : list[k].at = "read"
        \/ \E w \in Worker : call[w].at \in {"clear", "write", "done"}

listSignatures(k) ==
  /\ list[k].at = "asked" /\ ~Busy
  /\ \/ list' = [list EXCEPT ![k].at = "read", ![k].value = findSignatures(k)] /\ NoFault
     \/ list' = [list EXCEPT ![k].at = "none", ![k].stale = TRUE] /\ Fault
  /\ UNCHANGED <<rows, first, tab, editing, call, composer, mail>>

Land(k) ==
  /\ list[k].at = "read"
  /\ list' = [list EXCEPT ![k] = [Unread EXCEPT !.data = list[k].value]]
  /\ composer' = IF ListOf(composer, first) = k THEN Seen(composer, list[k].value) ELSE composer
  /\ UNCHANGED <<rows, first, tab, editing, call, mail, counts>>

---------------------------------------------------------------------------
(* SignaturesTab. *)

LookAt(k) == \E l \in LookedAt(list[k]) : list' = [list EXCEPT ![k] = l]

SelectAccount(a) ==
  /\ tab' = a /\ editing' = None /\ a # Shown /\ LookAt(a)
  /\ UNCHANGED <<rows, first, call, composer, mail, counts>>

\* findManyConnections gives no order: a row that was updated may come last.
Reordered ==
  /\ first' \in Account \ {first}
  /\ IF tab = None \/ composer.from = "empty"
       THEN \E l \in LookedAt(list[first']) :
              /\ list' = [list EXCEPT ![first'] = l]
              /\ composer' = IF composer.from = "empty" THEN Seen(composer, l.data) ELSE composer
       ELSE UNCHANGED <<list, composer>>
  /\ UNCHANGED <<rows, tab, editing, call, mail, counts>>

\* What it says of the signature is read when it is saved.
Form(s) == [sig |-> s, under |-> Shown]
OpenForm ==
  /\ editing = None
  /\ \E s \in InList(Shown) \union {None} : editing' = Form(s)
  /\ UNCHANGED <<rows, list, first, tab, call, composer, mail, counts>>

Cancel ==
  /\ editing # None /\ editing' = None
  /\ UNCHANGED <<rows, list, first, tab, call, composer, mail, counts>>

\* Until the list has been fetched again, too.
Saving == \E w \in Worker : call[w].kind \in {"create", "update"}
Begin(new) == \E w \in Worker : call[w] = Idle /\ call' = [call EXCEPT ![w] = new]

handleSave ==
  /\ editing # None /\ ~Saving /\ counts.saves < MaxSaves
  /\ counts' = [counts EXCEPT !.saves = @ + 1, !.moved = @ \/ editing.under # Shown]
  /\ \E dflt \in BOOLEAN :
       Begin([Idle EXCEPT !.at = "find", !.kind = IF editing.sig = None THEN "create" ELSE "update",
                          !.sig = editing.sig, !.of = Shown, !.key = Shown,
                          !.body = counts.saves + 1, !.dflt = dflt])
  /\ UNCHANGED <<rows, list, first, tab, editing, composer, mail>>

handleDelete(s) ==
  /\ editing = None /\ s \in InList(Shown) /\ Saves
  /\ Begin([Idle EXCEPT !.at = "find", !.kind = "delete", !.sig = s, !.key = Shown])
  /\ UNCHANGED <<rows, list, first, tab, editing, composer, mail>>

\* Variant: the account that is shown when the call has ended.
KeyShown(w) == Shown
\* invalidate closes over the account that was shown at the click.
Key(w) == call[w].key

Settle(w) ==
  /\ call[w].at = "done"
  /\ editing' = IF call[w].kind = "delete" THEN editing ELSE None
  /\ list' = [list EXCEPT ![Key(w)] = Invalidated(@, Observed(Key(w)))]
  /\ IF Observed(Key(w)) THEN call' = [call EXCEPT ![w].at = "refetch", ![w].key = Key(w)] ELSE Ends(w)
  /\ UNCHANGED <<rows, first, tab, composer, mail, counts>>

Refetched(w) ==
  /\ call[w].at = "refetch" /\ list[call[w].key].at = "none" /\ Ends(w)
  /\ UNCHANGED <<rows, list, first, tab, editing, composer, mail, counts>>

---------------------------------------------------------------------------
(* createSignature, updateSignature, deleteSignature. *)

Find(w) ==
  LET c == call[w] IN
  /\ c.at = "find" /\ ~Busy /\ NoFault
  /\ IF c.kind # "create" /\ rows[c.sig] = None THEN Ends(w)
     ELSE call' = [call EXCEPT ![w].at = IF c.dflt THEN "clear" ELSE "write",
                               ![w].of = IF c.kind = "create" THEN @ ELSE rows[c.sig].of]
  /\ UNCHANGED <<rows, list, first, tab, editing, composer, mail>>

clearDefaultSignatures(w) ==
  LET c == call[w] IN
  /\ c.at = "clear" /\ NoFault
  /\ rows' = [s \in Sig |-> IF s \in Defaults(c.of) THEN [rows[s] EXCEPT !.dflt = FALSE] ELSE rows[s]]
  /\ call' = [call EXCEPT ![w].at = "write", ![w].cleared = Defaults(c.of) # {}]
  /\ UNCHANGED <<list, first, tab, editing, composer, mail>>

Saved(c) == [of |-> c.of, body |-> c.body, dflt |-> c.dflt]
Write(w) ==
  LET c == call[w] IN
  /\ c.at = "write" /\ NoFault
  /\ call' = [call EXCEPT ![w].at = "done"]
  /\ \/ c.kind = "create" /\ \E s \in Sig : rows[s] = None /\ rows' = [rows EXCEPT ![s] = Saved(c)]
     \/ c.kind = "update" /\ rows' = [rows EXCEPT ![c.sig] = IF @ = None THEN None ELSE Saved(c)]
     \/ c.kind = "delete" /\ rows' = [rows EXCEPT ![c.sig] = None]
  /\ UNCHANGED <<list, first, tab, editing, composer, mail>>

\* "Failed to save signature", "Failed to delete signature": nothing else is done.
CallFails(w) ==
  /\ call[w].at \in {"find", "clear", "write", "done"} /\ Fault /\ Ends(w)
  /\ UNCHANGED <<rows, list, first, tab, editing, composer, mail>>

---------------------------------------------------------------------------
(* EmailComposer and sendEmail, from the account Active. *)

On == ListOf(composer, first)
\* The composer becomes c, and the effect runs when that changes the list.
Becomes(c) ==
  LET k == ListOf(c, first) IN
  IF k = On THEN composer' = c /\ UNCHANGED list
  ELSE \E l \in LookedAt(list[k]) : list' = [list EXCEPT ![k] = l] /\ composer' = Seen(c, l.data)

\* A composer is mounted without a From, perhaps before the connections are there.
OpenComposer ==
  /\ composer = NoComposer /\ Opens
  /\ \E f \in {"unknown", "empty"} : Becomes([NoComposer EXCEPT !.from = f])
  /\ UNCHANGED <<rows, first, tab, editing, call, mail>>

CloseComposer ==
  /\ composer # NoComposer /\ composer' = NoComposer
  /\ UNCHANGED <<rows, list, first, tab, editing, call, mail, counts>>

\* The connections are there; or the effect of the preferred alias, or the user,
\* sets From: the account's address, or another one it may send as.
SetFrom ==
  /\ composer.from # "shut"
  /\ \E f \in {"own", "empty"} \ {composer.from} : Becomes([composer EXCEPT !.from = f])
  /\ UNCHANGED <<rows, first, tab, editing, call, mail, counts>>

Pick ==
  /\ composer.from # "shut" /\ InList(On) # {}
  /\ \E s \in InList(On) \union {None} : composer' = [composer EXCEPT !.picked = s]
  /\ UNCHANGED <<rows, list, first, tab, editing, call, mail, counts>>

selectedSignature == IF composer.picked \in InList(On) THEN composer.picked ELSE None

\* The dialog closes at once, and the page waits for the mail to be sent.
onSubmit ==
  /\ composer.from # "shut" /\ ~composer.sending /\ mail.at # "leaving" /\ Saves
  /\ mail' = [NoMail EXCEPT !.at = "leaving", !.picked = composer.picked, !.shown = selectedSignature]
  /\ composer' \in {NoComposer, [composer EXCEPT !.sending = TRUE]}
  /\ UNCHANGED <<rows, list, first, tab, editing, call>>

\* form.reset empties From, too.
Reset ==
  /\ composer.sending /\ mail.at = "left"
  /\ Becomes([composer EXCEPT !.sending = FALSE, !.from = "empty"])
  /\ UNCHANGED <<rows, first, tab, editing, call, mail, counts>>

\* The one that is named, or else the account's default.
Appended ==
  IF mail.picked # None THEN {mail.picked} \intersect Of(All) ELSE Defaults(Active)

sendEmail ==
  /\ mail.at = "leaving" /\ ~Busy
  /\ \E s \in IF Appended = {} THEN {None} ELSE Appended :
       mail' = [mail EXCEPT !.at = "left", !.carried = s,
                            !.of = IF s = None THEN None ELSE rows[s].of]
  /\ UNCHANGED <<rows, list, first, tab, editing, call, composer, counts>>

Init ==
  /\ \E a \in Account : rows = [t \in Sig |-> IF t = CHOOSE s \in Sig : TRUE
                                               THEN [of |-> a, body |-> 0, dflt |-> TRUE] ELSE None]
  /\ first \in Account /\ tab = None /\ editing = None
  /\ list = [k \in Lists |-> IF k = first THEN Asked(Unread) ELSE Unread]
  /\ call = [w \in Worker |-> Idle] /\ mail = NoMail
  /\ composer = NoComposer
  /\ counts = [saves |-> 0, opens |-> 0, faults |-> 0, moved |-> FALSE]

Serve(w) == Find(w) \/ clearDefaultSignatures(w) \/ Write(w) \/ CallFails(w) \/ Settle(w) \/ Refetched(w)
Next ==
  \/ \E w \in Worker : Serve(w)
  \/ \E k \in Lists : listSignatures(k) \/ Land(k)
  \/ \E a \in Account : SelectAccount(a)
  \/ Reordered \/ OpenForm \/ Cancel \/ handleSave \/ \E s \in Sig : handleDelete(s)
  \/ OpenComposer \/ CloseComposer \/ SetFrom \/ Pick \/ onSubmit \/ sendEmail \/ Reset

Spec == Init /\ [][Next]_vars

---------------------------------------------------------------------------
(* Properties. *)

Settled == \A w \in Worker : call[w].at \in {"idle", "find", "clear", "refetch"}

\* use-signatures.ts, signatures-tab.tsx: when nothing failed, an account's list
\* that is not about to be fetched is the account's, with the default it has,
\* whichever account the tab was turned to while a signature was being saved; but
\* for forms saved under another account than they were opened under.
ListsAreTrue ==
  counts.faults = 0 /\ ~counts.moved /\ Settled =>
    \A a \in Account : list[a].at = "none" /\ ~list[a].stale /\ list[a].data # None =>
      list[a].data = findSignatures(a)

\* signatures-tab.tsx: a form is saved under the account that it was opened under.
FormsStay == ~counts.moved

\* email-composer.tsx, "No signature" and "None": what is sent with no signature
\* shown below it carries none.
NoneIsNone == mail.at = "left" /\ mail.shown = None => mail.carried = None

\* email-composer.tsx: the signature a mail carries is one of the account it is
\* sent from.
OwnSignature == mail.at = "left" /\ mail.carried # None => mail.of = Active

\* signatures.ts: a save that fails leaves the account with the default it had.
DefaultKept ==
  [][\A w \in Worker : call[w].cleared /\ call[w].at = "write" /\ call'[w] = Idle =>
       Defaults(call[w].of) # {}]_vars
=============================================================================
