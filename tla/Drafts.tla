------------------------------- MODULE Drafts -------------------------------
(***************************************************************************)
(* One mail of the compose page, from its composer to the people it is     *)
(* for, request by request: createDraft and sendDraft of the Gmail and the *)
(* Microsoft driver and of transport/smtp.ts, which the managers of        *)
(* driver/icloud.ts, yahoo.ts and custom.ts call.  Compose has the         *)
(* dialogs, the undo window and the autosave's timer; here a call is its   *)
(* requests, each of which may fail, and the mail is who it is for.        *)
(*                                                                         *)
(* Cc stands for Bcc too.  A text is the number of the edit it is from.    *)
(***************************************************************************)
EXTENDS Naturals, FiniteSets

CONSTANTS
  Kinds,      \* the managers to check
  Who,        \* people who may be written to
  MaxEdits,   \* bound: edits of the composer
  MaxSaves,   \* bound: drafts saved
  MaxSends,   \* bound: times the mail is sent
  MaxFaults   \* bound: requests that fail, or whose answer is lost

VARIABLES
  kind,     \* "gmail", "graph", "icloud", "yahoo" or "custom"
  server,   \* of a custom account: its folder of drafts, and whether it keeps what it sends
  form,     \* the composer: to, cc, whether Cc is shown, the text, attachments
  url,      \* ?draftId, 0 for none
  drafts,   \* the folder of drafts: [id, to, cc, text]
  save,     \* createDraft under way: how far it is, the draft it is to replace, the form
  send,     \* sendMail under way: how far it is, the draft, the mail, who has taken it
  got,      \* mail delivered: [n, who, text]
  copies,   \* copies of the nth send in the Sent folder
  told,     \* what the user was last told of a send: [n, ok, named, text, draft]
  counts    \* what the bounds count

mailbox == <<drafts, got, copies>>
vars == <<kind, server, form, url, mailbox, save, send, told, counts>>

Idle == [at |-> "idle"]
NoNews == [n |-> 0, ok |-> FALSE, named |-> {}, text |-> 0, draft |-> 0]

Counts(c, bound) == counts[c] < bound /\ counts' = [counts EXCEPT ![c] = @ + 1]
Fault == Counts("faults", MaxFaults)
NoFault == UNCHANGED counts

---------------------------------------------------------------------------
(* The managers over IMAP make the same calls, each with its own settings. *)

ICloudMailManager == [drafts |-> "Drafts", smtpSavesSent |-> FALSE]
YahooMailManager == [drafts |-> "Draft", smtpSavesSent |-> TRUE]
\* imapConfig, with the folders that were discovered when it was linked
CustomImapMailManager == [drafts |-> "Drafts", smtpSavesSent |-> FALSE]

Imap == kind \in {"icloud", "yahoo", "custom"}
Manager ==
  CASE kind = "icloud" -> ICloudMailManager
    [] kind = "yahoo" -> YahooMailManager
    [] OTHER -> CustomImapMailManager

\* What the servers do: only a custom one may lack the folder.
HasFolder == kind = "custom" => server.drafts = Manager.drafts
ServerKeepsSent == kind = "yahoo" \/ (kind = "custom" /\ server.keepsSent)

---------------------------------------------------------------------------
(* The composer. *)

\* The page is left when its mail has been sent, and waits meanwhile.
Ready == send = Idle /\ ~told.ok

Edit ==
  \E to \in SUBSET Who, cc \in SUBSET Who, shown \in BOOLEAN, files \in BOOLEAN :
    /\ Ready /\ Counts("edits", MaxEdits)
    /\ form' = [to |-> to, cc |-> cc, shown |-> shown, files |-> files, text |-> form.text + 1]
    /\ UNCHANGED <<kind, server, url, mailbox, save, send, told>>

\* performAutosave: of what is in the fields, the ones that are not shown too.
Save ==
  /\ save = Idle /\ Ready /\ form.text > 0 /\ Counts("saves", MaxSaves)
  /\ save' = [at |-> IF url = 0 THEN "create" ELSE "update", id |-> url,
              to |-> form.to, cc |-> form.cc, files |-> form.files, text |-> form.text]
  /\ UNCHANGED <<kind, server, form, url, mailbox, send, told>>

\* The page's onSubmit, and sendMail up to the driver: Cc if it is shown.
Send ==
  /\ Ready /\ form.to # {} /\ form.text > 0 /\ Counts("sends", MaxSends)
  /\ LET named == form.to \union IF form.shown THEN form.cc ELSE {}
     IN  send' = [at |-> IF Imap /\ url # 0 THEN "read" ELSE "post", n |-> counts'.sends, id |-> url,
                  named |-> named, to |-> named, withCc |-> form.shown,
                  text |-> form.text, accepted |-> {}]
  /\ UNCHANGED <<kind, server, form, url, mailbox, save, told>>

---------------------------------------------------------------------------
(* createDraft. *)

Has(id) == \E d \in drafts : d.id = id
Without(id) == {d \in drafts : d.id # id}
Stored(id, cc) == [id |-> id, to |-> save.to, cc |-> cc, text |-> save.text]

\* performAutosave goes on: the id goes to the URL.  An answer without success
\* is no error, and one without an id changes nothing.
SaveEnds(id) == save' = Idle /\ url' = IF id = 0 THEN url ELSE id
Goto(at) == save' = [save EXCEPT !.at = at] /\ UNCHANGED url
SaveFails == SaveEnds(0) /\ UNCHANGED drafts
New == counts.saves

Append == drafts' = drafts \union {Stored(New, save.cc)} /\ SaveEnds(New)

\* Gmail's drafts.update or drafts.create
SaveGmail ==
  /\ kind = "gmail" /\ save # Idle
  /\ \/ /\ save.at = "update" /\ Has(save.id) /\ NoFault
        /\ drafts' = Without(save.id) \union {Stored(save.id, save.cc)} /\ SaveEnds(save.id)
     \/ save.at = "update" /\ ~Has(save.id) /\ NoFault /\ SaveFails
     \/ save.at = "create" /\ NoFault /\ Append
     \/ Fault /\ SaveFails
  /\ UNCHANGED <<kind, server, form, got, copies, send, told>>

\* PATCH changes what it is given, and an empty Cc is not given.
Patched == {Stored(d.id, IF save.cc = {} THEN d.cc ELSE save.cc) : d \in {x \in drafts : x.id = save.id}}

\* Microsoft's: a draft that cannot be updated is deleted, and made anew.  The
\* attachments come without the method that reads them, before any request.
SaveGraph ==
  /\ kind = "graph" /\ save # Idle
  /\ \/ save.files /\ NoFault /\ SaveFails
     \/ /\ ~save.files /\ save.at = "update" /\ Has(save.id) /\ NoFault
        /\ drafts' = Without(save.id) \union Patched /\ SaveEnds(save.id)
     \/ /\ ~save.files /\ save.at = "update" /\ UNCHANGED drafts
        /\ (Has(save.id) /\ Fault) \/ (~Has(save.id) /\ NoFault)
        /\ Goto("delete")
     \/ save.at = "delete" /\ NoFault /\ drafts' = Without(save.id) /\ Goto("create")
     \/ save.at = "delete" /\ Fault /\ UNCHANGED drafts /\ Goto("create")
     \/ ~save.files /\ save.at = "create" /\ NoFault /\ Append
     \/ ~save.files /\ save.at = "create" /\ Fault /\ SaveFails
  /\ UNCHANGED <<kind, server, form, got, copies, send, told>>

\* formatAddresses takes a list, and the fields are texts.
Writable == save.to = {} /\ save.cc = {}

\* smtp.ts: a new message is appended, whatever draft there was; a failure is
\* an answer.
SaveImap ==
  /\ Imap /\ save # Idle
  /\ \/ Writable /\ HasFolder /\ NoFault /\ Append
     \/ ~(Writable /\ HasFolder) /\ NoFault /\ SaveFails
     \/ Fault /\ SaveFails
  /\ UNCHANGED <<kind, server, form, got, copies, send, told>>

---------------------------------------------------------------------------
(* sendDraft and create. *)

Deliver(whom, text) == got' = got \union {[n |-> send.n, who |-> w, text |-> text] : w \in whom}

\* The page is told; on success it is left, and the mail is done with.
Tell(ok) ==
  /\ told' = [n |-> send.n, ok |-> ok, named |-> send.named, text |-> send.text, draft |-> send.id]
  /\ send' = Idle

\* One request delivers a mail and takes its draft out of the folder; its answer
\* may be lost.  Gmail's sends the mail it is given, and Microsoft's the draft,
\* which is refused if it is for nobody.
Mail ==
  LET given == [to |-> send.to, text |-> send.text]
  IN  IF send.id = 0 THEN {given}
      ELSE {IF kind = "gmail" THEN given ELSE [to |-> d.to \union d.cc, text |-> d.text] :
              d \in {x \in drafts : x.id = send.id}}

SendByApi ==
  /\ ~Imap /\ send.at = "post"
  /\ \/ \E m \in Mail :
          /\ m.to # {} /\ Deliver(m.to, m.text)
          /\ drafts' = Without(send.id) /\ copies' = [copies EXCEPT ![send.n] = 1]
          /\ (NoFault /\ Tell(TRUE)) \/ (Fault /\ Tell(FALSE))
     \/ Fault /\ Tell(FALSE) /\ UNCHANGED mailbox
     \/ (\A m \in Mail : m.to = {}) /\ NoFault /\ Tell(FALSE) /\ UNCHANGED mailbox
  /\ UNCHANGED <<kind, server, form, url, save>>

\* sendDraft of smtp.ts reads the draft first, for what the mail does not say.
ReadDraft ==
  /\ send.at = "read"
  /\ \/ /\ HasFolder /\ NoFault /\ UNCHANGED told
        /\ \E d \in drafts :
             /\ d.id = send.id
             /\ send' = [send EXCEPT !.at = "post", !.to = @ \union IF send.withCc THEN {} ELSE d.cc]
     \/ ~(Has(send.id) /\ HasFolder) /\ NoFault /\ Tell(FALSE)
     \/ Fault /\ Tell(FALSE)
  /\ UNCHANGED <<kind, server, form, url, mailbox, save>>

\* sendEmail: the server takes the mail for some, and refuses others.
SendSmtp ==
  /\ Imap /\ send.at = "post"
  /\ \/ \E accepted \in SUBSET send.to :
          /\ NoFault /\ Deliver(accepted, send.text)
          /\ copies' = [copies EXCEPT ![send.n] = IF accepted # {} /\ ServerKeepsSent THEN 1 ELSE 0]
          /\ send' = [send EXCEPT !.at = "sent", !.accepted = accepted] /\ UNCHANGED <<drafts, told>>
     \/ Fault /\ Tell(FALSE) /\ UNCHANGED mailbox
  /\ UNCHANGED <<kind, server, form, url, save>>

KeepsCopy == ~Manager.smtpSavesSent

\* Variant: what was refused is not looked at.
RefusedIsSent == FALSE
Refused == send.accepted # send.to

\* It appends a copy, as well as it can, and then looks at who was refused.
KeepCopy ==
  /\ send.at = "sent"
  /\ \/ send.accepted # {} /\ KeepsCopy /\ NoFault /\ copies' = [copies EXCEPT ![send.n] = @ + 1]
     \/ send.accepted # {} /\ KeepsCopy /\ Fault /\ UNCHANGED copies
     \/ ~(send.accepted # {} /\ KeepsCopy) /\ NoFault /\ UNCHANGED copies
  /\ IF Refused THEN Tell(FALSE)
     ELSE IF send.id # 0 THEN send' = [send EXCEPT !.at = "clean"] /\ UNCHANGED told
     ELSE Tell(TRUE)
  /\ UNCHANGED <<kind, server, form, url, drafts, got, save>>

\* sendDraft deletes the draft, on the connection that has read it: messageDelete
\* throws when that is gone, and answers false, unheard, when it is refused.
DeleteSent ==
  /\ send.at = "clean"
  /\ \/ NoFault /\ drafts' = Without(send.id) /\ Tell(TRUE)
     \/ Fault /\ UNCHANGED drafts /\ \E refused \in BOOLEAN : Tell(refused)
  /\ UNCHANGED <<kind, server, form, url, got, copies, save>>

---------------------------------------------------------------------------

Init ==
  /\ kind \in Kinds
  /\ server \in [drafts : {"Drafts", "none"}, keepsSent : BOOLEAN]
  /\ kind # "custom" => server = [drafts |-> "Drafts", keepsSent |-> FALSE]
  /\ form = [to |-> {}, cc |-> {}, shown |-> FALSE, files |-> FALSE, text |-> 0]
  /\ url = 0 /\ drafts = {} /\ got = {} /\ copies = [n \in 1..MaxSends |-> 0]
  /\ save = Idle /\ send = Idle /\ told = NoNews
  /\ counts = [edits |-> 0, saves |-> 0, sends |-> 0, faults |-> 0]

Saves == SaveGmail \/ SaveGraph \/ SaveImap
Sends == SendByApi \/ ReadDraft \/ SendSmtp \/ KeepCopy \/ DeleteSent

Next == Edit \/ Save \/ Send \/ Saves \/ Sends

Spec == Init /\ [][Next]_vars

---------------------------------------------------------------------------
(* Properties. *)

\* Microsoft's sendDraft sends the draft as it was stored, see StoredAsWritten.
AsWritten(id) == kind = "graph" => id = 0

\* sendMail: when the user is told that a mail was sent, everybody it names has
\* it, as it was written, also when the server refuses some of them, and when a
\* request in between has failed; at Gmail and Microsoft its draft has gone.
SentIsServed ==
  told.ok => /\ ~Imap => ~Has(told.draft)
             /\ AsWritten(told.draft) =>
                  \A w \in told.named : [n |-> told.n, who |-> w, text |-> told.text] \in got

\* smtp.ts:312-314, of the draft that was sent: "delete on the same connection".
SentLeavesDrafts == told.ok => ~Has(told.draft)

\* Nobody gets a mail it does not name, from a draft of what it once named.
OnlyNamed ==
  [][send # Idle /\ AsWritten(send.id) => \A g \in got' \ got : g.who \in send.named]_vars

Gone(d) == d.id \notin {x.id : x \in drafts'}

\* A draft leaves its folder when its mail has been delivered to somebody, and
\* not when a send fails; a save replaces it, and Microsoft's may lose it, see
\* SaveKeepsDraft.
DraftKept ==
  [][\A d \in drafts : Gone(d) /\ (kind = "graph" => save' = save) =>
       send # Idle /\ send.id = d.id /\ \E g \in got' : g.n = send.n]_vars

\* smtp.ts, sendEmail: a delivery leaves one copy in Sent at most, where it is
\* known what the server keeps.
OneCopy == kind # "custom" => \A n \in DOMAIN copies : copies[n] <= 1

\* microsoft.ts:997, "Failed to update draft, creating a new one": a save that
\* fails leaves the draft there was or a new one.
SaveKeepsDraft ==
  [][save # Idle /\ save' = Idle /\ save.id # 0 /\ send = Idle /\ told.n = 0 => drafts' # {}]_vars

\* email-composer.tsx:261, an autosave "reads current values": the draft that has
\* the composer's last edit is for those whom the composer names.
StoredAsWritten ==
  \A d \in drafts : d.id = url /\ d.text = form.text => <<d.to, d.cc>> = <<form.to, form.cc>>

\* smtp.ts:220: "resending the whole message would duplicate it for the recipients
\* that were accepted".
NobodyTwice == \A g, h \in got : g.who = h.who /\ g.text = h.text => g.n = h.n
=============================================================================
