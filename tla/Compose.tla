------------------------------ MODULE Compose ------------------------------
(***************************************************************************)
(* Writing, saving and sending mail: the composer with its autosave and    *)
(* its close guard (email-composer.tsx), the dialog with its undo window   *)
(* (compose-dialog.tsx) and the page (compose-content.tsx) around it,      *)
(* and what sendMail (actions/mail.ts) and the drivers' createDraft,       *)
(* sendDraft and create (driver/google.ts, driver/microsoft.ts,            *)
(* transport/smtp.ts) do with what they are sent.                          *)
(*                                                                         *)
(* The text of a mail is the number of the last edit that is in it, of all *)
(* the edits that the user makes.                                          *)
(***************************************************************************)
EXTENDS Integers, FiniteSets

CONSTANTS
  Kinds, Surfaces,  \* providers and surroundings to check
  MaxMails,    \* bound: mails begun
  MaxEdits,    \* bound: edits
  MaxSends,    \* bound: times a mail is given to be sent
  MaxFaults    \* bound: requests that fail

ASSUME ComposeAssumption ==
  /\ Kinds \subseteq {"gmail", "graph", "imap"} /\ Surfaces \subseteq {"dialog", "page"}
  /\ {MaxMails, MaxEdits, MaxSends, MaxFaults} \subseteq Nat

VARIABLES
  kind, surface,
  undoSend,  \* the undoSendEnabled setting
  form,      \* the composer: [open, key, mail, text, changed, covered, timer, sending]
  url,       \* ?draftId, 0 for none
  saves,     \* createDraft calls under way: [key, mail, text, id, got, reply]
  drafts,    \* the provider's: [id, mail, text]
  pending,   \* payloads in their undo window
  toasts,    \* payloads whose toast offers Undo
  failures,  \* payloads whose toast offers Restore draft
  sends,     \* sendMail calls under way
  sent,      \* mail delivered: [n, mail, text]
  mails, edits, payloads, ids, keys, faults,     \* counters
  latest,    \* history: each mail's last edit
  undone,    \* history: numbers of the payloads undone
  failed,    \* history: numbers of the payloads whose send failed
  dropped,   \* history: mails the user chose to discard
  torn,      \* the route has been torn down
  risked     \* history: mails that the user or an overlap of saves has put at risk

server == <<drafts, sent, ids>>
counters == <<mails, edits, payloads, keys>>
past == <<latest, undone, failed, dropped, torn>>
history == <<past, risked>>
toastVars == <<pending, toasts, failures, sends>>
fixed == <<kind, surface, undoSend>>
vars == <<fixed, form, url, saves, toastVars, server, counters, faults, history>>

Closed == [open |-> FALSE, key |-> 0, mail |-> 0, text |-> 0, changed |-> FALSE,
           covered |-> TRUE, timer |-> FALSE, sending |-> FALSE]
Fresh(key, mail, text) == [Closed EXCEPT !.open = TRUE, !.key = key, !.mail = mail, !.text = text]
Draft(id, mail, text) == [id |-> id, mail |-> mail, text |-> text]
Payload(n, id) == [n |-> n, mail |-> form.mail, text |-> form.text, id |-> id]

Fault == faults < MaxFaults /\ faults' = faults + 1
NoFault == UNCHANGED faults

-----------------------------------------------------------------------------
(* Writing *)

\* The mails at risk once a composer is open for m, with id u in the URL: one it
\* is opened over, one whose draft u names, and if a save is under way, whose id
\* or text may come late, the mail of that and m itself.
Endangered(m, u) ==
  (IF form.open THEN {form.mail} ELSE {})
    \union ({d.mail : d \in {x \in drafts : x.id = u}} \ {m})
    \union (IF saves = {} THEN {} ELSE {m} \union {s.mail : s \in saves})

\* A composer is opened for a new mail; over another, that one is unmounted.
Open ==
  /\ mails < MaxMails /\ mails' = mails + 1 /\ keys' = keys + 1 /\ ~torn
  /\ form.open => surface = "dialog"
  /\ form' = Fresh(keys', mails', 0)
  /\ url' = IF surface = "page" THEN 0 ELSE url
  /\ risked' = risked \union Endangered(mails', url')
  /\ UNCHANGED <<fixed, saves, toastVars, server, edits, payloads, faults, past>>

\* markChanged: an edit arms the timer of the autosave again.
Edit ==
  /\ form.open /\ ~form.sending /\ edits < MaxEdits /\ edits' = edits + 1
  /\ latest' = [latest EXCEPT ![form.mail] = edits']
  /\ form' = [form EXCEPT !.text = edits', !.changed = TRUE, !.covered = FALSE,
                          !.timer = TRUE]
  /\ UNCHANGED <<fixed, url, saves, toastVars, server, mails, payloads, keys, faults,
                 undone, failed, dropped, torn, risked>>

\* performAutosave, up to its await; it does not wait for one that is under way.
Autosave ==
  /\ form.open /\ form.timer /\ form' = [form EXCEPT !.timer = FALSE]
  /\ saves' = saves \union {[key |-> form.key, mail |-> form.mail, text |-> form.text,
                             id |-> url, got |-> 0, reply |-> "none"]}
  /\ risked' = risked \union (IF saves = {} THEN {} ELSE {form.mail})
  /\ UNCHANGED <<fixed, url, toastVars, server, counters, faults, past>>

\* The drafts with id replaced or removed.
Without(id) == {d \in drafts : d.id # id}
HasDraft(id) == \E d \in drafts : d.id = id

SaveBecomes(s, reply, got) ==
  saves' = (saves \ {s}) \union {[s EXCEPT !.reply = reply, !.got = got]}
Create(s, others) ==
  /\ ids' = ids + 1 /\ drafts' = others \union {Draft(ids', s.mail, s.text)}
  /\ SaveBecomes(s, "made", ids') /\ UNCHANGED sent
Fails(s) == SaveBecomes(s, "failed", 0) /\ UNCHANGED server

\* The driver's createDraft.  Gmail's updates the draft named, if it is there;
\* Graph's makes a new one if it cannot; that of smtp.ts appends a new one, or
\* fails, with an answer that is no error, over recipients that are a string.
SaveDraft(s) ==
  /\ s.reply = "none"
  /\ \/ /\ kind \in {"gmail", "graph"} /\ s.id # 0 /\ HasDraft(s.id) /\ NoFault
        /\ drafts' = Without(s.id) \union {Draft(s.id, s.mail, s.text)}
        /\ SaveBecomes(s, "made", s.id) /\ UNCHANGED <<sent, ids>>
     \/ kind # "imap" /\ s.id = 0 /\ NoFault /\ Create(s, drafts)
     \/ kind = "gmail" /\ s.id # 0 /\ ~HasDraft(s.id) /\ NoFault /\ Fails(s)
     \/ kind = "graph" /\ s.id # 0 /\ ~HasDraft(s.id) /\ NoFault /\ Create(s, drafts)
     \/ kind = "graph" /\ s.id # 0 /\ Fault /\ Create(s, Without(s.id))
     \/ kind = "imap" /\ NoFault /\ Create(s, drafts)
     \/ kind = "imap" /\ NoFault /\ SaveBecomes(s, "made", 0) /\ UNCHANGED server
     \/ Fault /\ Fails(s)
  /\ UNCHANGED <<fixed, form, url, toastVars, counters, history>>

\* Variant: a save that failed counts.
CoversAny(s) == TRUE

\* lastSavedAt is now, later than any edit there has been, if the call returned.
Covers(s) == s.reply = "made"

\* performAutosave goes on.  The id goes to the URL, whatever is open now.  If it
\* has failed, the guard may still count what returned since the last edit.
SaveReturns(s) ==
  /\ s.reply # "none" /\ saves' = saves \ {s}
  /\ form' = IF form.key = s.key /\ Covers(s) THEN [form EXCEPT !.covered = TRUE] ELSE form
  /\ url' = IF s.got \notin {0, s.id} THEN s.got ELSE url
  /\ risked' = risked \union (IF s.reply = "failed" /\ form.open /\ form.key = s.key /\ form.covered
                              THEN {form.mail} ELSE {})
  /\ UNCHANGED <<fixed, toastVars, server, counters, faults, past>>

\* The close guard, when the user closes the composer.
MayClose == ~form.changed \/ form.covered \/ form.text = 0

\* A composer whose text is not known to be saved: it was put back, or an autosave
\* is owed or under way, of an edit made during the one before.
Unsaved == form.text > 0 /\ (~form.changed \/ ~form.covered \/ form.timer \/ saves # {})

\* The page has no guard.
Close ==
  /\ form.open /\ ~form.sending /\ (surface = "dialog" => MayClose)
  /\ form' = Closed /\ url' = IF surface = "page" THEN 0 ELSE url
  /\ risked' = risked \union (IF Unsaved THEN {form.mail} ELSE {})
  /\ UNCHANGED <<fixed, saves, toastVars, server, counters, faults, past>>

\* The guard asks, and the user discards the mail.
Discard ==
  /\ form.open /\ ~form.sending /\ ~MayClose /\ surface = "dialog"
  /\ dropped' = dropped \union {form.mail} /\ form' = Closed
  /\ UNCHANGED <<fixed, url, saves, toastVars, server, counters, faults, latest, undone, failed, torn, risked>>

-----------------------------------------------------------------------------
(* Sending *)

Submit == form.open /\ ~form.sending /\ form.text > 0 /\ payloads < MaxSends /\ payloads' = payloads + 1

\* ComposeDialog.handleSend: the dialog closes; the payload is held while it can
\* be undone.
SendFromDialog ==
  /\ surface = "dialog" /\ Submit /\ form' = Closed
  /\ LET p == Payload(payloads', 0)
     IN IF undoSend
        THEN pending' = pending \union {p} /\ toasts' = toasts \union {p} /\ UNCHANGED sends
        ELSE sends' = sends \union {p} /\ UNCHANGED <<pending, toasts>>
  /\ UNCHANGED <<fixed, url, saves, failures, server, mails, edits, keys, faults, history>>

\* The page's onSubmit: the timer is cleared, also one of an edit made during a
\* save, and the composer waits.
SendFromPage ==
  /\ surface = "page" /\ Submit /\ form' = [form EXCEPT !.sending = TRUE, !.timer = FALSE]
  /\ sends' = sends \union {Payload(payloads', url)}
  /\ risked' = risked \union (IF form.timer /\ (saves # {} \/ form.covered) THEN {form.mail} ELSE {})
  /\ UNCHANGED <<fixed, url, saves, pending, toasts, failures, server, mails, edits, keys, faults, past>>

\* The undo window ends.
WindowEnds(p) ==
  /\ p \in pending /\ pending' = pending \ {p} /\ sends' = sends \union {p}
  /\ UNCHANGED <<fixed, form, url, saves, toasts, failures, server, counters, faults, history>>

\* The toast goes; it stays while the pointer is on it, and may outlast the window.
ToastGoes(p) ==
  /\ p \in toasts /\ p \notin pending /\ toasts' = toasts \ {p}
  /\ UNCHANGED <<fixed, form, url, saves, pending, failures, sends, server, counters, faults, history>>

\* restoreDraft puts a payload back into the composer.
Restore(p) ==
  /\ ~torn /\ keys' = keys + 1 /\ form' = Fresh(keys', p.mail, p.text)
  /\ risked' = risked \union Endangered(p.mail, url)

Undo(p) ==
  /\ p \in toasts /\ Restore(p)
  /\ pending' = pending \ {p} /\ toasts' = toasts \ {p} /\ undone' = undone \union {p.n}
  /\ UNCHANGED <<fixed, url, saves, failures, sends, server, mails, edits, payloads, faults,
                 latest, failed, dropped, torn>>

RestoreFailed(p) ==
  /\ p \in failures /\ Restore(p) /\ failures' = failures \ {p}
  /\ UNCHANGED <<fixed, url, saves, pending, toasts, sends, server, mails, edits, payloads, faults, past>>

\* The toast of a failed send goes; the mail may be nowhere else.
LetGo(p) ==
  /\ p \in failures /\ failures' = failures \ {p}
  /\ risked' = risked \union (IF \E d \in drafts : d.mail = p.mail /\ d.text = p.text
                              THEN {} ELSE {p.mail})
  /\ UNCHANGED <<fixed, form, url, saves, pending, toasts, sends, server, counters, faults, past>>

\* What is delivered: Graph's sendDraft sends the draft as it is stored.
Delivered(p) ==
  {[n |-> p.n, mail |-> d.mail, text |-> d.text] :
     d \in IF p.id = 0 THEN {Draft(0, p.mail, p.text)}
           ELSE IF kind = "graph" THEN {x \in drafts : x.id = p.id}
           ELSE {Draft(x.id, p.mail, p.text) : x \in {y \in drafts : y.id = p.id}}}

\* The client hears of a send: the page is left or its composer released, the
\* dialog shows a toast.
Heard(p, ok) ==
  /\ sends' = sends \ {p}
  /\ failed' = IF ok THEN failed ELSE failed \union {p.n}
  /\ IF surface = "page"
     THEN /\ form' = IF ok THEN Closed ELSE [form EXCEPT !.sending = FALSE]
          /\ url' = IF ok THEN 0 ELSE url
          /\ UNCHANGED failures
     ELSE /\ failures' = IF ok \/ torn THEN failures ELSE failures \union {p}
          /\ UNCHANGED <<form, url>>

\* sendMail: the draft named is sent and is gone; if it is not there, or the
\* request fails before or after the delivery, the send fails.
Send(p) ==
  /\ p \in sends
  /\ \/ /\ p.id # 0 => HasDraft(p.id)
        /\ sent' = sent \union Delivered(p)
        /\ \/ NoFault /\ Heard(p, TRUE) /\ drafts' = Without(p.id)
           \/ /\ Fault /\ Heard(p, FALSE)
              /\ drafts' = IF kind = "imap" THEN drafts ELSE Without(p.id)
     \/ Fault /\ Heard(p, FALSE) /\ UNCHANGED <<sent, drafts>>
     \/ p.id # 0 /\ ~HasDraft(p.id) /\ NoFault /\ Heard(p, FALSE) /\ UNCHANGED <<sent, drafts>>
  /\ UNCHANGED <<fixed, saves, pending, toasts, ids, counters, latest, undone, dropped, torn, risked>>

\* Variants: the timers of what is flushed go on; nothing is flushed.
FlushTwice == pending' = pending /\ sends' = sends \union pending
FlushNothing == pending' = {} /\ sends' = sends

\* The dialog's unmount sends what is pending.
Flush == pending' = {} /\ sends' = sends \union pending

\* The route is torn down: sign-out, or the route group is left.
TearDown ==
  /\ surface = "dialog" /\ ~torn /\ torn' = TRUE
  /\ form' = Closed /\ Flush /\ toasts' = {} /\ failures' = {}
  /\ UNCHANGED <<fixed, url, saves, server, counters, faults, latest, undone, failed, dropped, risked>>

-----------------------------------------------------------------------------
Init ==
  /\ kind \in Kinds /\ surface \in Surfaces /\ undoSend \in BOOLEAN
  /\ surface = "page" => ~undoSend
  /\ form = Closed /\ url = 0 /\ saves = {} /\ drafts = {}
  /\ pending = {} /\ toasts = {} /\ failures = {} /\ sends = {} /\ sent = {}
  /\ mails = 0 /\ edits = 0 /\ payloads = 0 /\ ids = 0 /\ keys = 0 /\ faults = 0
  /\ latest = [m \in 1..MaxMails |-> 0]
  /\ undone = {} /\ failed = {} /\ dropped = {} /\ torn = FALSE /\ risked = {}

User == Open \/ Edit \/ Close \/ Discard \/ SendFromDialog \/ SendFromPage \/ TearDown
Toasts == \/ \E p \in toasts : ToastGoes(p) \/ Undo(p)
          \/ \E p \in failures : RestoreFailed(p) \/ LetGo(p)
Calls == \/ \E s \in saves : SaveDraft(s) \/ SaveReturns(s)
         \/ \E p \in sends : Send(p)
Timers == Autosave \/ \E p \in pending : WindowEnds(p)
Next == User \/ Toasts \/ Calls \/ Timers

\* Timers fire and calls return; the user need do nothing.
Spec == Init /\ [][Next]_vars /\ WF_vars(Timers) /\ WF_vars(Calls)

-----------------------------------------------------------------------------
(* Properties *)

\* The types of what the composer, the provider and the toasts hold.
Mail == 1..MaxMails
Writing == [open : BOOLEAN, key : Nat, mail : Mail \union {0}, text : Nat, changed : BOOLEAN,
            covered : BOOLEAN, timer : BOOLEAN, sending : BOOLEAN]
TypeOK ==
  /\ kind \in Kinds /\ surface \in Surfaces /\ undoSend \in BOOLEAN
  /\ form \in Writing /\ (form.open => form.mail \in Mail) /\ url \in Nat
  /\ saves \subseteq [key : Nat, mail : Mail, text : Nat, id : Nat, got : Nat,
                     reply : {"none", "made", "failed"}]
  /\ drafts \subseteq [id : Nat, mail : Mail, text : Nat]
  /\ \A ps \in {pending, toasts, failures, sends} :
       ps \subseteq [n : Nat, mail : Mail, text : Nat, id : Nat]
  /\ sent \subseteq [n : Nat, mail : Mail, text : Nat]
  /\ mails \in 0..MaxMails /\ edits \in 0..MaxEdits /\ payloads \in 0..MaxSends
  /\ faults \in 0..MaxFaults
  /\ ids \in Nat /\ keys \in Nat /\ latest \in [Mail -> 0..MaxEdits]
  /\ undone \subseteq Nat /\ failed \subseteq Nat /\ dropped \subseteq Mail /\ torn \in BOOLEAN
  /\ risked \subseteq Mail

Safe(m) ==
  LET IsLatest(x) == x.mail = m /\ x.text = latest[m]
  IN \/ form.open /\ IsLatest(form)
     \/ \E x \in drafts \union pending \union toasts \union failures \union sends \union sent :
          IsLatest(x)

\* What is written is kept, also what is edited during a save: the last edit of a
\* mail is in the composer, a draft, a send or an offer to restore one, unless the
\* user chose to discard it or left the route, or has put that mail at risk.  (Not
\* with IMAP, whose createDraft fails without an error, nor where Outlook sends the
\* draft as it was stored.)
NothingLost ==
  (kind # "imap" /\ ~(kind = "graph" /\ surface = "page") /\ ~torn)
     => \A m \in 1..mails \ risked : latest[m] = 0 \/ m \in dropped \/ Safe(m)

Numbers(ps) == {p.n : p \in ps}
Settled == Numbers(sent) \union failed \union undone

\* A payload is given to sendMail once, whether its window ends, the route is torn
\* down or Undo is late; and one undone in its window is not given at all.
SentOnce == [][Numbers(sends' \ sends) \intersect Settled = {}]_vars

\* What the user has sent is delivered, or failed or undone; also if the route is
\* torn down in the undo window.
SendsSettle == \A n \in 1..MaxSends : payloads = n ~> n \in Settled

\* email-composer.tsx:323-325: the guard allows "closing silently when nothing
\* changed or the latest changes are already saved as a draft".
GuardKeepsMail ==
  [][(Close /\ surface = "dialog" /\ ~torn) =>
       \A m \in 1..mails : latest[m] = 0 \/ m \in dropped \/ Safe(m)']_vars

\* email-composer.tsx:240: "A pending autosave must not fire after the message is
\* sent."
NoDraftOfSent ==
  [][\A s \in saves : (SaveDraft(s) /\ ids' # ids) => \A x \in sent : x.mail # s.mail]_vars
=============================================================================
