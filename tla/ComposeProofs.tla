---------------------------- MODULE ComposeProofs ----------------------------
(***************************************************************************)
(* Proofs about Compose, for any numbers of mails, edits, sends and        *)
(* faults: type correctness; that a payload is given to be sent once; and  *)
(* that nothing that was written is lost, but of a mail put at risk.       *)
(***************************************************************************)
EXTENDS Compose, TLAPS

-----------------------------------------------------------------------------
(* Types *)

LEMMA Bounds == {MaxMails, MaxEdits, MaxSends, MaxFaults} \subseteq Nat
  BY ComposeAssumption

LEMMA InitTypeOK == Init => TypeOK
<1> SUFFICES ASSUME Init PROVE TypeOK
  OBVIOUS
<1>1. kind \in Kinds /\ surface \in Surfaces /\ undoSend \in BOOLEAN
  BY DEF Init
<1>2. form \in Writing /\ ~form.open /\ url \in Nat
  BY DEF Init, Writing, Closed
<1>3. {saves, drafts, pending, toasts, failures, sends, sent, undone, failed, dropped, risked} = {{}}
  BY DEF Init
<1>4. /\ mails \in 0..MaxMails /\ edits \in 0..MaxEdits /\ payloads \in 0..MaxSends
      /\ faults \in 0..MaxFaults
  BY Bounds DEF Init
<1>5. ids \in Nat /\ keys \in Nat /\ torn \in BOOLEAN
  BY DEF Init
<1>6. latest \in [Mail -> 0..MaxEdits]
  <2>1. 0 \in 0..MaxEdits
    BY Bounds
  <2> QED BY <2>1 DEF Init, Mail
<1> QED BY <1>1, <1>2, <1>3, <1>4, <1>5, <1>6 DEF TypeOK

LEMMA FreshOK ==
  ASSUME NEW k \in Nat, NEW m \in Mail, NEW t \in Nat
  PROVE  Fresh(k, m, t) \in Writing /\ Fresh(k, m, t).mail = m /\ Fresh(k, m, t).text = t
  BY DEF Fresh, Closed, Writing, Mail

LEMMA ClosedOK == Closed \in Writing /\ ~Closed.open
  BY DEF Closed, Writing, Mail

LEMMA EndangeredOK == ASSUME TypeOK, NEW m \in Mail, NEW u PROVE Endangered(m, u) \subseteq Mail
  BY DEF Endangered, TypeOK

LEMMA UserTypeOK == ASSUME TypeOK, User PROVE TypeOK'
<1> USE DEF TypeOK, fixed, toastVars, server, counters, past, history
<1>1. ASSUME Open PROVE TypeOK'
  <2>1. keys' \in Nat /\ mails' \in Mail
    BY <1>1, Bounds DEF Open, Mail
  <2>2. form' \in Writing /\ form'.mail \in Mail
    BY <1>1, <2>1, FreshOK DEF Open
  <2>3. mails' \in 0..MaxMails /\ url' \in Nat
    BY <1>1, <2>1 DEF Open, Mail
  <2>4. risked' \subseteq Mail
    BY <1>1, <2>1, EndangeredOK DEF Open
  <2> QED BY <1>1, <2>1, <2>2, <2>3, <2>4 DEF Open
<1>2. ASSUME Edit PROVE TypeOK'
  <2>1. edits' \in 0..MaxEdits /\ edits' \in Nat
    BY <1>2, Bounds DEF Edit
  <2>2. latest' \in [Mail -> 0..MaxEdits]
    BY <1>2, <2>1 DEF Edit
  <2>3. form' \in Writing /\ form'.mail = form.mail
    BY <1>2, <2>1 DEF Edit, Writing
  <2> QED BY <1>2, <2>1, <2>2, <2>3 DEF Edit
<1>3. ASSUME Close PROVE TypeOK'
  BY <1>3, ClosedOK DEF Close
<1>4. ASSUME Discard PROVE TypeOK'
  BY <1>4, ClosedOK DEF Discard
<1>5. ASSUME Submit, NEW id \in Nat
      PROVE  /\ payloads' \in 0..MaxSends
             /\ Payload(payloads', id) \in [n : Nat, mail : Mail, text : Nat, id : Nat]
  BY <1>5, Bounds DEF Submit, Payload, Writing
<1>6. ASSUME SendFromDialog PROVE TypeOK'
  <2>1. Submit BY <1>6 DEF SendFromDialog
  <2>2. Payload(payloads', 0) \in [n : Nat, mail : Mail, text : Nat, id : Nat]
        /\ payloads' \in 0..MaxSends
    BY <1>5, <2>1
  <2> QED BY <1>6, <2>2, ClosedOK DEF SendFromDialog
<1>7. ASSUME SendFromPage PROVE TypeOK'
  <2>1. Submit BY <1>7 DEF SendFromPage
  <2>2. form' \in Writing /\ form'.mail = form.mail /\ form.open
    BY <1>7 DEF SendFromPage, Submit, Writing
  <2> QED BY <1>5, <1>7, <2>1, <2>2 DEF SendFromPage
<1>8. ASSUME TearDown PROVE TypeOK'
  BY <1>8, ClosedOK DEF TearDown, Flush
<1> QED BY <1>1, <1>2, <1>3, <1>4, <1>6, <1>7, <1>8 DEF User

LEMMA ToastsTypeOK == ASSUME TypeOK, Toasts PROVE TypeOK'
<1> USE DEF TypeOK, fixed, toastVars, server, counters, past, history
<1>1. ASSUME NEW p \in toasts, ToastGoes(p) PROVE TypeOK'
  BY <1>1 DEF ToastGoes
<1>2. ASSUME NEW p \in toasts \union failures, Restore(p)
      PROVE  /\ form' \in Writing /\ form'.mail \in Mail /\ keys' \in Nat
             /\ risked' \subseteq Mail
  <2>1. p \in [n : Nat, mail : Mail, text : Nat, id : Nat] /\ keys' \in Nat
    BY <1>2 DEF Restore
  <2>2. risked' \subseteq Mail
    BY <1>2, <2>1, EndangeredOK DEF Restore
  <2> QED BY <1>2, <2>1, <2>2, FreshOK DEF Restore
<1>3. ASSUME NEW p \in toasts, Undo(p) PROVE TypeOK'
  <2>1. Restore(p) BY <1>3 DEF Undo
  <2> QED BY <1>2, <1>3, <2>1 DEF Undo
<1>4. ASSUME NEW p \in failures, RestoreFailed(p) PROVE TypeOK'
  <2>1. Restore(p) BY <1>4 DEF RestoreFailed
  <2> QED BY <1>2, <1>4, <2>1 DEF RestoreFailed
<1>5. ASSUME NEW p \in failures, LetGo(p) PROVE TypeOK'
  BY <1>5 DEF LetGo
<1> QED BY <1>1, <1>3, <1>4, <1>5 DEF Toasts

LEMMA TimersTypeOK == ASSUME TypeOK, Timers PROVE TypeOK'
<1> USE DEF TypeOK, fixed, toastVars, server, counters, past, history
<1>1. ASSUME Autosave PROVE TypeOK'
  <2>1. form' \in Writing /\ form'.mail = form.mail
    BY <1>1 DEF Autosave, Writing
  <2> QED BY <1>1, <2>1 DEF Autosave, Writing
<1>2. ASSUME NEW p \in pending, WindowEnds(p) PROVE TypeOK'
  BY <1>2 DEF WindowEnds
<1> QED BY <1>1, <1>2 DEF Timers

\* What a createDraft call may do: to itself, and to the drafts.
Replies(s) ==
  \/ SaveBecomes(s, "failed", 0) /\ UNCHANGED <<drafts, ids>>
  \/ kind = "imap" /\ SaveBecomes(s, "made", 0) /\ UNCHANGED <<drafts, ids>>
  \/ /\ s.id # 0 /\ SaveBecomes(s, "made", s.id) /\ UNCHANGED ids
     /\ drafts' = Without(s.id) \union {Draft(s.id, s.mail, s.text)}
  \/ /\ ids' = ids + 1 /\ SaveBecomes(s, "made", ids')
     /\ \E others \in {drafts, Without(s.id)} :
          drafts' = others \union {Draft(ids', s.mail, s.text)}

LEMMA SaveDraftDoes ==
  ASSUME NEW s \in saves, SaveDraft(s)
  PROVE  /\ s.reply = "none" /\ Replies(s)
         /\ UNCHANGED <<fixed, form, url, toastVars, sent, counters, history>>
         /\ UNCHANGED faults \/ (faults < MaxFaults /\ faults' = faults + 1)
<1>1. s.reply = "none" /\ UNCHANGED <<fixed, form, url, toastVars, counters, history>>
  BY DEF SaveDraft
<1>2. UNCHANGED faults \/ (faults < MaxFaults /\ faults' = faults + 1)
  BY DEF SaveDraft, Fault, NoFault
<1>3. ASSUME Fails(s) PROVE Replies(s) /\ UNCHANGED sent
  BY <1>3 DEF Fails, Replies, server
<1>4. ASSUME NEW others \in {drafts, Without(s.id)}, Create(s, others)
      PROVE  Replies(s) /\ UNCHANGED sent
  BY <1>4 DEF Create, Replies
<1>5. CASE UNCHANGED <<sent, ids>> /\ s.id # 0 /\ SaveBecomes(s, "made", s.id)
           /\ drafts' = Without(s.id) \union {Draft(s.id, s.mail, s.text)}
  BY <1>1, <1>2, <1>5 DEF Replies
<1>6. CASE kind = "imap" /\ SaveBecomes(s, "made", 0) /\ UNCHANGED server
  BY <1>1, <1>2, <1>6 DEF Replies, server
<1> QED BY <1>1, <1>2, <1>3, <1>4, <1>5, <1>6 DEF SaveDraft

LEMMA CallsTypeOK == ASSUME TypeOK, Calls PROVE TypeOK'
<1> DEFINE Save == [key : Nat, mail : Mail, text : Nat, id : Nat, got : Nat,
                    reply : {"none", "made", "failed"}]
<1>1. ASSUME NEW s \in saves, SaveDraft(s) PROVE TypeOK'
  <2>1. s \in Save /\ ids \in Nat
    BY DEF TypeOK
  <2>2. ASSUME NEW reply \in {"made", "failed"}, NEW got \in Nat, SaveBecomes(s, reply, got)
        PROVE  saves' \subseteq Save
    BY <2>1, <2>2 DEF SaveBecomes, TypeOK
  <2>3. ASSUME NEW id \in Nat
        PROVE  Draft(id, s.mail, s.text) \in [id : Nat, mail : Mail, text : Nat]
    BY <2>1 DEF Draft
  <2>4. Replies(s)
    BY <1>1, SaveDraftDoes
  <2>5. saves' \subseteq Save /\ ids' \in Nat
    BY <2>1, <2>2, <2>4 DEF Replies
  <2>6. drafts' \subseteq [id : Nat, mail : Mail, text : Nat]
    <3>1. Without(s.id) \subseteq drafts /\ drafts \subseteq [id : Nat, mail : Mail, text : Nat]
      BY DEF Without, TypeOK
    <3>2. Draft(s.id, s.mail, s.text) \in [id : Nat, mail : Mail, text : Nat]
          /\ Draft(ids', s.mail, s.text) \in [id : Nat, mail : Mail, text : Nat]
      BY <2>1, <2>3, <2>5
    <3> QED BY <2>4, <3>1, <3>2 DEF Replies
  <2>7. faults' \in 0..MaxFaults
    BY <1>1, SaveDraftDoes, Bounds DEF TypeOK
  <2>8. UNCHANGED <<fixed, form, url, toastVars, sent, counters, history>>
    BY <1>1, SaveDraftDoes
  <2> QED BY <2>5, <2>6, <2>7, <2>8 DEF TypeOK, fixed, toastVars, counters, past, history
<1>2. ASSUME NEW s \in saves, SaveReturns(s) PROVE TypeOK'
  <2>1. form' \in Writing /\ form'.mail = form.mail /\ form'.open = form.open
    BY <1>2 DEF SaveReturns, TypeOK, Writing
  <2>2. url' \in Nat
    BY <1>2 DEF SaveReturns, TypeOK
  <2>3. risked' \subseteq Mail
    BY <1>2 DEF SaveReturns, TypeOK
  <2> QED BY <1>2, <2>1, <2>2, <2>3 DEF SaveReturns, TypeOK, fixed, toastVars, server, counters, past
<1>3. ASSUME NEW p \in sends, Send(p) PROVE TypeOK'
  <2>1. p \in [n : Nat, mail : Mail, text : Nat, id : Nat]
    BY DEF TypeOK
  <2>2. ASSUME NEW ok \in BOOLEAN, Heard(p, ok)
        PROVE  /\ form' \in Writing /\ (form'.open => form'.mail \in Mail) /\ url' \in Nat
               /\ sends' \subseteq sends /\ failures' \subseteq failures \union {p}
               /\ failed' \subseteq Nat
    <3>1. [form EXCEPT !.sending = FALSE] \in Writing
          /\ [form EXCEPT !.sending = FALSE].mail = form.mail
          /\ [form EXCEPT !.sending = FALSE].open = form.open
      BY DEF TypeOK, Writing
    <3>2. form' \in Writing /\ (form'.open => form'.mail \in Mail)
      <4>1. form' = form \/ form' = Closed \/ form' = [form EXCEPT !.sending = FALSE]
        BY <2>2 DEF Heard
      <4> QED BY <4>1, <3>1, ClosedOK DEF TypeOK
    <3>3. url' \in Nat /\ sends' \subseteq sends /\ failures' \subseteq failures \union {p}
      BY <2>2 DEF Heard, TypeOK
    <3>4. failed' \subseteq Nat
      BY <2>1, <2>2 DEF Heard, TypeOK
    <3> QED BY <3>2, <3>3, <3>4
  <2>3. \E ok \in BOOLEAN : Heard(p, ok)
    BY <1>3 DEF Send
  <2>4. Delivered(p) \subseteq [n : Nat, mail : Mail, text : Nat]
    BY <2>1 DEF Delivered, Draft, TypeOK
  <2>5. sent' \subseteq [n : Nat, mail : Mail, text : Nat] /\ drafts' \subseteq drafts
    BY <1>3, <2>4 DEF Send, Without, TypeOK
  <2>6. faults' \in 0..MaxFaults
    <3>1. Fault \/ NoFault
      BY <1>3 DEF Send
    <3> QED BY <3>1, Bounds DEF Fault, NoFault, TypeOK
  <2>7. UNCHANGED <<fixed, saves, pending, toasts, ids, counters, latest, undone, dropped, torn, risked>>
    BY <1>3 DEF Send
  <2> QED BY <2>1, <2>2, <2>3, <2>5, <2>6, <2>7 DEF TypeOK, fixed, counters
<1> QED BY <1>1, <1>2, <1>3 DEF Calls

LEMMA NextTypeOK == TypeOK /\ [Next]_vars => TypeOK'
<1>1. TypeOK /\ UNCHANGED vars => TypeOK'
  BY DEF TypeOK, vars, fixed, toastVars, server, counters, past, history
<1> QED BY <1>1, UserTypeOK, ToastsTypeOK, TimersTypeOK, CallsTypeOK DEF Next

\* Composer, saves, drafts, payloads and counters keep their types.
THEOREM TypeCorrect == Spec => []TypeOK
  BY InitTypeOK, NextTypeOK, PTL DEF Spec

-----------------------------------------------------------------------------
(* Payloads *)

\* What SentOnce relies on: a payload has a number of its own, and one in its
\* undo window is not given to be sent yet, has not failed and is not undone.
Numbered == \A p \in pending \union toasts \union sends : p.n <= payloads
OwnNumbers == \A p, q \in pending \union toasts : p.n = q.n => p = q
Waiting == \A p \in pending : p.n \notin Numbers(sends) \union Settled
SettledSent == \A n \in Settled : n <= payloads
SendInv == TypeOK /\ Numbered /\ OwnNumbers /\ Waiting /\ SettledSent

\* A step that brings no payload, number or settled one keeps this.
LEMMA FewerPayloads ==
  ASSUME SendInv, TypeOK', payloads' = payloads,
         pending' \subseteq pending, toasts' \subseteq toasts, sends' \subseteq sends,
         Settled' \subseteq Settled
  PROVE  SendInv'
<1>1. Numbers(sends') \subseteq Numbers(sends)
  BY DEF Numbers
<1> QED BY <1>1 DEF SendInv, Numbered, OwnNumbers, Waiting, SettledSent

\* A payload has a number that no other has had.
LEMMA SubmitSends ==
  ASSUME SendInv, Submit, NEW id \in Nat
  PROVE  /\ payloads' = payloads + 1 /\ payloads \in Nat
         /\ Payload(payloads', id).n = payloads'
         /\ \A p \in pending \union toasts \union sends : p.n \in Nat /\ p.n < payloads'
         /\ \A n \in Settled : n \in Nat /\ n < payloads'
<1>1. payloads \in Nat /\ payloads' = payloads + 1
  BY Bounds DEF Submit, SendInv, TypeOK
<1>2. \A n \in Settled : n \in Nat
  BY DEF Settled, Numbers, SendInv, TypeOK
<1>3. \A p \in pending \union toasts \union sends : p.n \in Nat
  BY DEF SendInv, TypeOK
<1> QED BY <1>1, <1>2, <1>3 DEF Payload, SendInv, Numbered, SettledSent

LEMMA InitSendInv == Init => SendInv
<1> SUFFICES ASSUME Init PROVE SendInv
  OBVIOUS
<1>1. Settled = {}
  BY DEF Init, Settled, Numbers
<1> QED BY <1>1, InitTypeOK DEF Init, SendInv, Numbered, OwnNumbers, Waiting, SettledSent

LEMMA UserSendInv ==
  ASSUME SendInv, TypeOK', User
  PROVE  SendInv' /\ Numbers(sends' \ sends) \intersect Settled = {}
<1>1. ASSUME Open \/ Edit \/ Close \/ Discard
      PROVE  SendInv' /\ sends' = sends
  <2>1. UNCHANGED <<pending, toasts, sends, sent, failed, undone, payloads>>
    BY <1>1 DEF Open, Edit, Close, Discard, toastVars, server, past, history, counters
  <2>2. Settled' = Settled
    BY <2>1 DEF Settled
  <2> QED BY <2>1, <2>2, FewerPayloads
<1>2. ASSUME NEW p, SendInv, p.n = payloads', payloads' = payloads + 1, payloads \in Nat,
             \A q \in pending \union toasts \union sends : q.n \in Nat /\ q.n < payloads',
             \A n \in Settled : n \in Nat /\ n < payloads', Settled' = Settled,
             \/ /\ pending' = pending \union {p} /\ toasts' = toasts \union {p} /\ sends' = sends
             \/ UNCHANGED <<pending, toasts>> /\ sends' = sends \union {p}
      PROVE  SendInv' /\ Numbers(sends' \ sends) \intersect Settled = {}
  <2>1. \A n \in Numbers(sends) : n < payloads'
    BY <1>2 DEF Numbers
  <2>2. Numbers(sends') \subseteq Numbers(sends) \union {p.n}
        /\ Numbers(sends' \ sends) \subseteq {p.n}
    BY <1>2 DEF Numbers
  <2>3. Numbered' /\ SettledSent'
    BY <1>2 DEF SendInv, Numbered, SettledSent
  <2>4. OwnNumbers'
    BY <1>2 DEF SendInv, OwnNumbers
  <2>5. Waiting'
    <3>1. CASE sends' = sends /\ pending' = pending \union {p}
      BY <1>2, <2>1, <3>1 DEF SendInv, Waiting
    <3>2. CASE pending' = pending
      BY <1>2, <2>2, <3>2 DEF SendInv, Waiting
    <3> QED BY <1>2, <3>1, <3>2
  <2>6. p.n \notin Settled
    BY <1>2
  <2>7. SendInv'
    BY <2>3, <2>4, <2>5 DEF SendInv
  <2> QED BY <2>2, <2>6, <2>7
<1>3. ASSUME SendFromDialog
      PROVE  SendInv' /\ Numbers(sends' \ sends) \intersect Settled = {}
  <2>1. Submit /\ Settled' = Settled
    BY <1>3 DEF SendFromDialog, Settled, server, past, history
  <2> DEFINE p == Payload(payloads', 0)
  <2>2. \/ /\ pending' = pending \union {p} /\ toasts' = toasts \union {p} /\ sends' = sends
        \/ UNCHANGED <<pending, toasts>> /\ sends' = sends \union {p}
    BY <1>3 DEF SendFromDialog
  <2>3. p.n = payloads' /\ payloads' = payloads + 1 /\ payloads \in Nat
    BY <2>1, SubmitSends
  <2>4. /\ \A q \in pending \union toasts \union sends : q.n \in Nat /\ q.n < payloads'
        /\ \A n \in Settled : n \in Nat /\ n < payloads'
    BY <2>1, SubmitSends
  <2> HIDE DEF p
  <2> QED BY <1>2, <2>1, <2>2, <2>3, <2>4
<1>4. ASSUME SendFromPage
      PROVE  SendInv' /\ Numbers(sends' \ sends) \intersect Settled = {}
  <2>1. Submit /\ Settled' = Settled /\ url \in Nat
    BY <1>4 DEF SendFromPage, Settled, server, past, history, SendInv, TypeOK
  <2> QED BY <1>2, <1>4, <2>1, SubmitSends DEF SendFromPage
<1>5. ASSUME TearDown
      PROVE  SendInv' /\ Numbers(sends' \ sends) \intersect Settled = {}
  <2>1. /\ pending' = {} /\ toasts' = {} /\ sends' = sends \union pending
        /\ UNCHANGED <<sent, failed, undone, payloads>>
    BY <1>5 DEF TearDown, Flush, server, counters
  <2>2. Settled' = Settled
    BY <2>1 DEF Settled
  <2>3. Numbers(sends' \ sends) \subseteq Numbers(pending)
    BY <2>1 DEF Numbers
  <2>4. Numbers(pending) \intersect Settled = {}
    BY DEF Numbers, SendInv, Waiting
  <2> QED BY <2>1, <2>2, <2>3, <2>4 DEF SendInv, Numbered, OwnNumbers, Waiting, SettledSent
<1> QED
  <2>1. sends' = sends => Numbers(sends' \ sends) = {}
    BY DEF Numbers
  <2> QED BY <1>1, <1>3, <1>4, <1>5, <2>1 DEF User

LEMMA ToastsSendInv ==
  ASSUME SendInv, TypeOK', Toasts
  PROVE  SendInv' /\ sends' = sends
<1>1. ASSUME NEW p \in toasts, ToastGoes(p) PROVE SendInv' /\ sends' = sends
  <2>1. UNCHANGED <<pending, sends, sent, failed, undone, payloads>> /\ toasts' \subseteq toasts
    BY <1>1 DEF ToastGoes, server, past, history, counters
  <2>2. Settled' = Settled
    BY <2>1 DEF Settled
  <2> QED BY <2>1, <2>2, FewerPayloads
<1>2. ASSUME NEW p \in toasts, Undo(p) PROVE SendInv' /\ sends' = sends
  <2>1. /\ UNCHANGED <<sends, sent, failed, payloads>> /\ undone' = undone \union {p.n}
        /\ pending' = pending \ {p} /\ toasts' = toasts \ {p}
    BY <1>2 DEF Undo, server
  <2>2. Settled' = Settled \union {p.n}
    BY <2>1 DEF Settled
  <2>3. \A q \in pending' : q.n # p.n
    BY <2>1 DEF SendInv, OwnNumbers
  <2>4. Numbered' /\ OwnNumbers' /\ SettledSent'
    BY <2>1, <2>2 DEF SendInv, Numbered, OwnNumbers, SettledSent
  <2>5. Waiting'
    BY <2>1, <2>2, <2>3 DEF SendInv, Waiting
  <2> QED BY <2>1, <2>4, <2>5 DEF SendInv
<1>3. ASSUME NEW p \in failures, RestoreFailed(p) \/ LetGo(p) PROVE SendInv' /\ sends' = sends
  <2>1. UNCHANGED <<pending, toasts, sends, sent, failed, undone, payloads>>
    BY <1>3 DEF RestoreFailed, LetGo, server, past, history, counters
  <2>2. Settled' = Settled
    BY <2>1 DEF Settled
  <2> QED BY <2>1, <2>2, FewerPayloads
<1> QED BY <1>1, <1>2, <1>3 DEF Toasts

LEMMA CallsSendInv ==
  ASSUME SendInv, TypeOK', Calls
  PROVE  SendInv' /\ sends' \subseteq sends
<1>1. ASSUME NEW s \in saves, SaveDraft(s) \/ SaveReturns(s) PROVE SendInv' /\ sends' \subseteq sends
  <2>1. UNCHANGED <<pending, toasts, sends, sent, failed, undone, payloads>>
    BY <1>1, SaveDraftDoes DEF SaveReturns, server, toastVars, past, history, counters
  <2>2. Settled' = Settled
    BY <2>1 DEF Settled
  <2> QED BY <2>1, <2>2, FewerPayloads
<1>2. ASSUME NEW p \in sends, Send(p) PROVE SendInv' /\ sends' \subseteq sends
  <2>1. /\ UNCHANGED <<pending, toasts, undone, payloads>> /\ sends' = sends \ {p}
        /\ failed' \subseteq failed \union {p.n} /\ sent' \subseteq sent \union Delivered(p)
    BY <1>2 DEF Send, Heard, counters
  <2>2. Numbers(Delivered(p)) \subseteq {p.n}
    BY DEF Numbers, Delivered
  <2>3. Settled' \subseteq Settled \union {p.n}
    BY <2>1, <2>2 DEF Settled, Numbers
  <2>4. p.n <= payloads /\ p.n \in Numbers(sends)
    BY DEF SendInv, Numbered, Numbers
  <2>5. Numbers(sends') \subseteq Numbers(sends)
    BY <2>1 DEF Numbers
  <2>6. Numbered' /\ OwnNumbers' /\ SettledSent'
    BY <2>1, <2>3, <2>4 DEF SendInv, Numbered, OwnNumbers, SettledSent
  <2>7. Waiting'
    BY <2>1, <2>3, <2>4, <2>5 DEF SendInv, Waiting
  <2> QED BY <2>1, <2>6, <2>7 DEF SendInv
<1> QED BY <1>1, <1>2 DEF Calls

LEMMA TimersSendInv ==
  ASSUME SendInv, TypeOK', Timers
  PROVE  SendInv' /\ Numbers(sends' \ sends) \intersect Settled = {}
<1>1. ASSUME Autosave PROVE SendInv' /\ sends' = sends
  <2>1. UNCHANGED <<pending, toasts, sends, sent, failed, undone, payloads>>
    BY <1>1 DEF Autosave, toastVars, server, counters, past, history
  <2>2. Settled' = Settled
    BY <2>1 DEF Settled
  <2> QED BY <2>1, <2>2, FewerPayloads
<1>2. ASSUME NEW p \in pending, WindowEnds(p)
      PROVE  SendInv' /\ Numbers(sends' \ sends) \intersect Settled = {}
  <2>1. /\ UNCHANGED <<toasts, sent, failed, undone, payloads>>
        /\ pending' = pending \ {p} /\ sends' = sends \union {p}
    BY <1>2 DEF WindowEnds, server, counters, past, history
  <2>2. Settled' = Settled
    BY <2>1 DEF Settled
  <2>3. Numbers(sends' \ sends) \subseteq {p.n} /\ Numbers(sends') \subseteq Numbers(sends) \union {p.n}
    BY <2>1 DEF Numbers
  <2>4. p.n \notin Settled /\ \A q \in pending' : q.n # p.n
    BY <2>1 DEF SendInv, Waiting, OwnNumbers
  <2>5. Numbered' /\ OwnNumbers' /\ SettledSent'
    BY <2>1, <2>2 DEF SendInv, Numbered, OwnNumbers, SettledSent
  <2>6. Waiting'
    BY <2>1, <2>2, <2>3, <2>4 DEF SendInv, Waiting
  <2> QED BY <2>3, <2>4, <2>5, <2>6 DEF SendInv
<1>3. sends' = sends => Numbers(sends' \ sends) = {}
  BY DEF Numbers
<1> QED BY <1>1, <1>2, <1>3 DEF Timers

LEMMA NextSendInv ==
  SendInv /\ [Next]_vars => SendInv' /\ Numbers(sends' \ sends) \intersect Settled = {}
<1> SUFFICES ASSUME SendInv, [Next]_vars
             PROVE  SendInv' /\ Numbers(sends' \ sends) \intersect Settled = {}
  OBVIOUS
<1>1. TypeOK'
  BY NextTypeOK DEF SendInv
<1>2. CASE UNCHANGED vars
  <2>1. UNCHANGED <<pending, toasts, sends, sent, failed, undone, payloads>>
    BY <1>2 DEF vars, toastVars, server, counters, past, history
  <2>2. Settled' = Settled /\ Numbers(sends' \ sends) = {}
    BY <2>1 DEF Settled, Numbers
  <2> QED BY <1>1, <2>1, <2>2, FewerPayloads
<1>3. sends' \subseteq sends => Numbers(sends' \ sends) = {}
  BY DEF Numbers
<1> QED BY <1>1, <1>2, <1>3, UserSendInv, ToastsSendInv, CallsSendInv, TimersSendInv DEF Next

\* The undo window of compose-dialog.tsx, its flush when the route is torn down and
\* a late Undo: no payload is given to sendMail that has been
\* delivered, has failed or was undone.
THEOREM EachIsSentOnce == Spec => SentOnce
<1>1. Init => SendInv
  BY InitSendInv
<1>2. SendInv /\ [Next]_vars => SendInv' /\ [Numbers(sends' \ sends) \intersect Settled = {}]_vars
  BY NextSendInv
<1> QED BY <1>1, <1>2, PTL DEF Spec, SentOnce

-----------------------------------------------------------------------------
(* What is written *)

\* Outside the composer the last edit of a mail is kept in what a failed send
\* leaves alone: not in a send of the page, which keeps the composer open.
IsLast(m, x) == x.mail = m /\ x.text = latest[m]
Sending == IF surface = "dialog" THEN sends ELSE {}
Stored(m) ==
  \E x \in drafts \union pending \union failures \union Sending \union sent : IsLast(m, x)

Payloads == pending \union toasts \union failures \union sends

\* Ids, mails and edits that are not there yet.
Drawn ==
  /\ url <= ids /\ \A d \in drafts : 0 < d.id /\ d.id <= ids
  /\ \A s \in saves : s.id <= ids /\ s.got <= ids
  /\ \A p \in sends : p.id <= ids
Begun ==
  /\ form.open => form.mail <= mails
  /\ \A m \in Mail : m > mails => latest[m] = 0
  /\ \A p \in Payloads : p.mail <= mails
  /\ form.text <= edits /\ \A x \in Payloads \union saves \union drafts : x.text <= edits

\* Of a mail that is not at risk one save is under way at a time, that of the
\* composer, if one is open; and if it is not of the last edit, an autosave of
\* that is owed, and no draft has it that the save might replace.
OneSave ==
  /\ \A s, t \in saves : s.mail \notin risked => s = t
  /\ form.open => \A s \in saves : \/ s.key = form.key /\ s.mail = form.mail
                                   \/ {s.mail, form.mail} \subseteq risked
  /\ \A s \in saves : s.mail \notin risked /\ s.text # latest[s.mail] =>
       (form.open => form.timer) /\ \A d \in drafts : ~IsLast(s.mail, d)

\* The draft of a mail that is not at risk is not that of another: named in the
\* URL, by a save or by a send.
OwnDraft ==
  \A d \in drafts : d.mail \notin risked =>
    /\ form.open /\ d.id = url => d.mail = form.mail
    /\ \A s \in saves : d.id \in {s.id, s.got} => d.mail = s.mail
    /\ \A p \in sends : d.id = p.id => d.mail = p.mail

\* A composer with changes has the last one; the page's always has.
Written ==
  /\ form.timer => form.changed
  /\ form.open /\ form.changed => form.text = latest[form.mail]

\* The surfaces.
OfDialog == surface = "dialog" => ~form.sending /\ \A p \in Payloads : p.id = 0
OfPage ==
  surface = "page" =>
    /\ pending = {} /\ toasts = {} /\ failures = {} /\ ~undoSend
    /\ form.open => form.text = latest[form.mail] /\ (form.changed \/ form.text = 0)
    /\ \A p, q \in sends : p = q
    /\ \A p \in sends : form.open /\ form.sending /\ IsLast(form.mail, p)

\* What counts as saved is stored, once no autosave is owed or under way.
SavedIsStored ==
  form.open /\ form.mail \notin risked /\ ~form.timer =>
    /\ form.changed /\ form.covered => saves # {} \/ Stored(form.mail)
    /\ \A s \in saves : s.reply = "made" => Stored(form.mail)

NoneLost ==
  \A m \in (1..mails) \ risked :
    latest[m] = 0 \/ m \in dropped \/ (form.open /\ IsLast(m, form)) \/ Stored(m)

\* Where the property claims something.
Claimed == kind # "imap" /\ ~(kind = "graph" /\ surface = "page") /\ ~torn

Writes ==
  /\ Drawn /\ Begun /\ OneSave /\ OwnDraft /\ Written /\ OfDialog /\ OfPage
  /\ SavedIsStored /\ NoneLost
KeptInv == TypeOK /\ (Claimed => Writes)

\* What is stored outside the composer.
Store == drafts \union pending \union failures \union Sending \union sent

LEMMA StoredIn == ASSUME NEW m PROVE Stored(m) <=> \E x \in Store : IsLast(m, x)
  BY DEF Stored, Store

LEMMA StillStored ==
  ASSUME NEW m, Stored(m), latest'[m] = latest[m],
         \A x \in Store : IsLast(m, x) => \E y \in Store' : y.mail = x.mail /\ y.text = x.text
  PROVE  Stored(m)'
<1>1. PICK x \in Store : IsLast(m, x)
  BY DEF Stored, Store
<1>2. PICK y \in Store' : y.mail = x.mail /\ y.text = x.text
  BY <1>1
<1> QED BY <1>1, <1>2 DEF Stored, Store, IsLast

\* A step that writes nothing, and leaves what is in the composer or closes it,
\* loses nothing if what is stored stays so and if it does not close the composer
\* over what is not stored.
LEMMA NothingWritten ==
  ASSUME SavedIsStored, NoneLost, latest' = latest, mails' = mails,
         dropped \subseteq dropped', risked \subseteq risked', form.open \in BOOLEAN,
         \A m : m \notin risked' /\ Stored(m) => Stored(m)',
         \/ /\ form'.open = form.open /\ form'.mail = form.mail /\ form'.text = form.text
            /\ form'.changed = form.changed /\ form'.covered = form.covered
            /\ form'.timer = form.timer /\ saves' = saves
         \/ ~form'.open /\ (form.open => form.mail \in risked' \/ latest[form.mail] = 0
                           \/ form.mail \in dropped'
                           \/ \E m \in Mail : m = form.mail /\ (Stored(m) \/ Stored(m)'))
  PROVE  SavedIsStored' /\ NoneLost'
<1> DEFINE Same == /\ form'.open = form.open /\ form'.mail = form.mail /\ form'.text = form.text
                   /\ form'.changed = form.changed /\ form'.covered = form.covered
                   /\ form'.timer = form.timer /\ saves' = saves
<1>1. ASSUME NEW m, Stored(m), m \notin risked' PROVE Stored(m)'
  BY <1>1
<1>2. SavedIsStored'
  <2>1. CASE Same
    <3>1. ASSUME NEW m, m = form.mail, Stored(m), m \notin risked' PROVE Stored(form.mail)'
      BY <1>1, <2>1, <3>1 DEF Stored, IsLast
    <3> QED BY <2>1, <3>1 DEF SavedIsStored
  <2>2. CASE ~form'.open
    BY <2>2 DEF SavedIsStored
  <2> QED BY <2>1, <2>2
<1>3. ASSUME NEW m \in (1..mails') \ risked'
      PROVE  latest'[m] = 0 \/ m \in dropped' \/ (form'.open /\ IsLast(m, form)') \/ Stored(m)'
  <2>1. latest[m] = 0 \/ m \in dropped \/ (form.open /\ IsLast(m, form)) \/ Stored(m)
    BY <1>3 DEF NoneLost
  <2>2. CASE Same
    BY <1>1, <1>3, <2>1, <2>2 DEF IsLast
  <2>3. CASE ~form'.open /\ (form.open => form.mail \in risked' \/ latest[form.mail] = 0
                           \/ form.mail \in dropped'
                           \/ \E n \in Mail : n = form.mail /\ (Stored(n) \/ Stored(n)'))
    <3>1. CASE form.open /\ IsLast(m, form)
      <4>1. form.mail = m BY <3>1 DEF IsLast
      <4>2. CASE \E n \in Mail : n = form.mail /\ (Stored(n) \/ Stored(n)')
        <5>1. Stored(m) \/ Stored(m)'
          BY <4>1, <4>2
        <5> QED BY <1>1, <1>3, <5>1
      <4> QED BY <1>3, <2>3, <3>1, <4>1, <4>2
    <3> QED BY <1>1, <1>3, <2>1, <2>3, <3>1
  <2> QED BY <2>2, <2>3
<1> QED BY <1>2, <1>3 DEF NoneLost

LEMMA TwoSurfaces == TypeOK => surface \in {"dialog", "page"}
  BY ComposeAssumption DEF TypeOK

\* What a composer opened for m puts at risk.
LEMMA EndangeredAre ==
  ASSUME NEW m, NEW u, risked' = risked \union Endangered(m, u)
  PROVE  /\ risked \subseteq risked' /\ (form.open => form.mail \in risked')
         /\ \A d \in drafts : d.id = u => d.mail \in risked' \/ d.mail = m
         /\ saves # {} => m \in risked' /\ \A s \in saves : s.mail \in risked'
  BY DEF Endangered

LEMMA OpenKeeps == ASSUME TypeOK, Claimed, Writes, Open PROVE Writes'
<1>1. /\ form' = Fresh(keys', mails', 0) /\ mails' = mails + 1 /\ mails' \in Mail /\ mails \in Nat
      /\ url' \in {0, url} /\ (surface = "page" => ~form.open) /\ edits \in Nat
      /\ UNCHANGED <<fixed, saves, toastVars, server, edits, payloads, faults, past>>
  <2>1. mails \in Nat /\ mails' = mails + 1 /\ mails' \in Mail /\ edits \in Nat
    BY Bounds DEF Open, TypeOK, Mail
  <2> QED BY <2>1 DEF Open
<1>2. /\ form'.open /\ form'.mail = mails' /\ form'.text = 0 /\ ~form'.changed /\ ~form'.timer
      /\ ~form'.sending
  BY <1>1 DEF Fresh, Closed
<1>3. /\ risked \subseteq risked' /\ (form.open => form.mail \in risked')
      /\ \A d \in drafts : d.id = url' => d.mail \in risked' \/ d.mail = mails'
      /\ saves # {} => mails' \in risked' /\ \A s \in saves : s.mail \in risked'
  <2>1. risked' = risked \union Endangered(mails', url')
    BY DEF Open
  <2> QED BY <2>1, EndangeredAre
<1>4. Drawn' /\ Written' /\ OfDialog'
  BY <1>1, <1>2 DEF Writes, Drawn, Written, OfDialog, Payloads, TypeOK, toastVars, server, fixed
<1>5. Begun'
  BY <1>1, <1>2 DEF Writes, Begun, past, Mail, Payloads, toastVars, server, TypeOK
<1>6. OneSave'
  BY <1>1, <1>2, <1>3 DEF Writes, OneSave
<1>7. OwnDraft'
  BY <1>1, <1>2, <1>3 DEF Writes, OwnDraft, toastVars, server
<1>8. latest[mails'] = 0
  BY <1>1 DEF Writes, Begun, Mail
<1>9. OfPage'
  BY <1>1, <1>2, <1>8 DEF Writes, OfPage, toastVars, server, fixed, past
<1>10. Store' = Store
  BY <1>1 DEF Store, Sending, toastVars, server, fixed
<1>11. SavedIsStored'
  BY <1>1, <1>2, <1>3 DEF SavedIsStored
<1>12. ASSUME NEW m \in (1..mails') \ risked'
       PROVE  latest'[m] = 0 \/ m \in dropped' \/ (form'.open /\ IsLast(m, form)') \/ Stored(m)'
  <2>1. CASE m = mails'
    BY <1>1, <1>8, <2>1 DEF past
  <2>2. CASE m # mails'
    <3>1. m \in 1..mails /\ m \notin risked
      BY <1>1, <1>3, <1>12, <2>2
    <3>2. latest[m] = 0 \/ m \in dropped \/ Stored(m)
      BY <1>3, <1>12, <3>1 DEF Writes, NoneLost, IsLast
    <3>3. Stored(m) => Stored(m)'
      BY <1>1, <1>10, StillStored DEF past
    <3> QED BY <1>1, <3>2, <3>3 DEF past
  <2> QED BY <2>1, <2>2
<1> QED BY <1>4, <1>5, <1>6, <1>7, <1>9, <1>11, <1>12 DEF Writes, NoneLost

LEMMA EditKeeps == ASSUME TypeOK, Claimed, Writes, Edit PROVE Writes'
<1>1. /\ form.open /\ ~form.sending /\ form.mail \in Mail /\ edits \in Nat /\ edits' = edits + 1
      /\ latest' = [latest EXCEPT ![form.mail] = edits']
      /\ UNCHANGED <<fixed, url, saves, toastVars, server, mails, payloads, keys, faults, undone,
                     failed, dropped, torn, risked>>
  BY DEF Edit, TypeOK
<1>2. /\ form'.open /\ form'.mail = form.mail /\ form'.text = edits' /\ form'.changed /\ form'.timer
      /\ ~form'.covered /\ ~form'.sending /\ form'.key = form.key
  BY <1>1 DEF Edit, TypeOK, Writing
<1>3. latest'[form.mail] = edits' /\ \A m \in Mail : m # form.mail => latest'[m] = latest[m]
  BY <1>1 DEF TypeOK
<1>4. Drawn' /\ Written' /\ OfDialog' /\ OwnDraft'
  BY <1>1, <1>2, <1>3 DEF Writes, Drawn, Written, OfDialog, Payloads, OwnDraft, TypeOK, toastVars,
    server, fixed
<1>5. Begun'
  <2>1. ASSUME NEW m \in Mail, m > mails' PROVE latest'[m] = 0
    BY <1>1, <1>3, <2>1 DEF Writes, Begun, TypeOK, Mail
  <2>2. \A x \in Payloads \union saves \union drafts : x.text \in Nat /\ x.text <= edits
    BY DEF Writes, Begun, Payloads, TypeOK
  <2> QED BY <1>1, <1>2, <2>1, <2>2 DEF Writes, Begun, Payloads, toastVars, server
<1>6. OneSave'
  <2>1. ASSUME NEW s \in saves, s.mail \notin risked, NEW d \in drafts PROVE ~IsLast(s.mail, d)'
    <3>1. s.mail = form.mail
      BY <1>1, <2>1 DEF Writes, OneSave
    <3>2. d.text \in Nat /\ d.text <= edits
      BY DEF Writes, Begun, TypeOK
    <3> QED BY <1>1, <1>3, <3>1, <3>2 DEF IsLast
  <2> QED BY <1>1, <1>2, <2>1 DEF Writes, OneSave, server
<1>7. OfPage'
  BY <1>1, <1>2, <1>3 DEF Writes, OfPage, toastVars, fixed
<1>8. SavedIsStored'
  BY <1>1, <1>2 DEF SavedIsStored
<1>9. ASSUME NEW m \in (1..mails') \ risked'
      PROVE  latest'[m] = 0 \/ m \in dropped' \/ (form'.open /\ IsLast(m, form)') \/ Stored(m)'
  <2>1. CASE m = form.mail
    BY <1>2, <1>3, <2>1 DEF IsLast
  <2>2. CASE m # form.mail
    <3>1. m \in (1..mails) \ risked /\ latest'[m] = latest[m]
      BY <1>1, <1>3, <1>9, <2>2 DEF TypeOK, Mail
    <3>2. latest[m] = 0 \/ m \in dropped \/ Stored(m)
      BY <1>1, <2>2, <3>1 DEF Writes, NoneLost, IsLast
    <3>3. Store' = Store
      BY <1>1 DEF Store, Sending, toastVars, server, fixed
    <3>4. Stored(m) => Stored(m)'
      BY <3>1, <3>3, StillStored
    <3> QED BY <1>1, <3>1, <3>2, <3>4
  <2> QED BY <2>1, <2>2
<1> QED BY <1>4, <1>5, <1>6, <1>7, <1>8, <1>9 DEF Writes, NoneLost

LEMMA AutosaveKeeps == ASSUME TypeOK, Claimed, Writes, Autosave PROVE Writes'
<1> DEFINE s == [key |-> form.key, mail |-> form.mail, text |-> form.text, id |-> url, got |-> 0,
                 reply |-> "none"]
<1>1. /\ form.open /\ form.timer /\ form' = [form EXCEPT !.timer = FALSE]
      /\ saves' = saves \union {s} /\ risked \subseteq risked'
      /\ saves # {} => form.mail \in risked'
      /\ UNCHANGED <<fixed, url, toastVars, server, counters, faults, past>>
  BY DEF Autosave
<1>2. /\ form'.open /\ ~form'.timer /\ form'.mail = form.mail /\ form'.text = form.text
      /\ form'.changed = form.changed /\ form'.covered = form.covered /\ form'.sending = form.sending
      /\ form'.key = form.key
  BY <1>1 DEF TypeOK, Writing
<1>3. s.key = form.key /\ s.mail = form.mail /\ s.text = form.text /\ s.id = url /\ s.got = 0
      /\ s.reply = "none"
  OBVIOUS
<1> HIDE DEF s
<1>4. Drawn' /\ Begun' /\ Written' /\ OfDialog'
  BY <1>1, <1>2, <1>3 DEF Writes, Drawn, Begun, Written, OfDialog, Payloads, TypeOK, toastVars,
    server, fixed, past, counters
\* Those under way before are at risk by now.
<1>5. \A t \in saves : t.mail \in risked'
  BY <1>1 DEF Writes, OneSave
<1>6. OneSave'
  BY <1>1, <1>2, <1>3, <1>5 DEF Writes, OneSave, Written, past
<1>7. OwnDraft'
  BY <1>1, <1>2, <1>3 DEF Writes, OwnDraft, Drawn, TypeOK, toastVars, server
<1>8. OfPage'
  BY <1>1, <1>2 DEF Writes, OfPage, IsLast, toastVars, fixed, past
<1>9. Store' = Store
  BY <1>1 DEF Store, Sending, toastVars, server, fixed
<1>10. \A m : Stored(m) => Stored(m)'
  BY <1>1, <1>9, StillStored DEF past
<1>11. SavedIsStored'
  BY <1>1, <1>2, <1>3 DEF SavedIsStored
<1>12. NoneLost'
  BY <1>1, <1>2, <1>10 DEF Writes, NoneLost, IsLast, past, counters
<1> QED BY <1>4, <1>6, <1>7, <1>8, <1>11, <1>12 DEF Writes

LEMMA SaveDraftKeeps ==
  ASSUME TypeOK, Claimed, Writes, NEW s \in saves, SaveDraft(s)
  PROVE  Writes'
<1>1. /\ Replies(s)
      /\ UNCHANGED <<fixed, form, url, toastVars, sent, counters, history>>
  BY SaveDraftDoes
<1>2. s.id \in Nat /\ s.id <= ids /\ ids \in Nat
  BY DEF TypeOK, Writes, Drawn
<1>3. /\ ids' \in Nat /\ ids <= ids'
      /\ \E t : /\ saves' = (saves \ {s}) \union {t}
                /\ t.key = s.key /\ t.mail = s.mail /\ t.text = s.text /\ t.id = s.id
                /\ t.got \in Nat /\ t.got <= ids'
                /\ \/ t.reply # "made" /\ t.got = 0 /\ drafts' = drafts
                   \/ /\ t.reply = "made" /\ t.got > 0 /\ (t.got = s.id \/ t.got > ids)
                      /\ \E others \in {drafts, Without(s.id)} :
                           /\ t.got = s.id => others = Without(s.id)
                           /\ drafts' = others \union {Draft(t.got, s.mail, s.text)}
  <2>1. ASSUME NEW reply, NEW got, SaveBecomes(s, reply, got)
        PROVE  saves' = (saves \ {s}) \union {[s EXCEPT !.reply = reply, !.got = got]}
    BY <1>1, <2>1 DEF SaveBecomes
  <2>2. s \in [key : Nat, mail : Mail, text : Nat, id : Nat, got : Nat,
               reply : {"none", "made", "failed"}]
    BY DEF TypeOK
  <2>3. ASSUME NEW reply, NEW got
        PROVE  /\ [s EXCEPT !.reply = reply, !.got = got].key = s.key
               /\ [s EXCEPT !.reply = reply, !.got = got].mail = s.mail
               /\ [s EXCEPT !.reply = reply, !.got = got].text = s.text
               /\ [s EXCEPT !.reply = reply, !.got = got].id = s.id
               /\ [s EXCEPT !.reply = reply, !.got = got].got = got
               /\ [s EXCEPT !.reply = reply, !.got = got].reply = reply
    BY <2>2
  <2>4. CASE SaveBecomes(s, "failed", 0) /\ UNCHANGED <<drafts, ids>>
    <3> DEFINE t == [s EXCEPT !.reply = "failed", !.got = 0]
    <3>1. saves' = (saves \ {s}) \union {t}
      BY <2>1, <2>4
    <3>a. t.key = s.key /\ t.mail = s.mail /\ t.text = s.text /\ t.id = s.id /\ t.got = 0 /\ t.reply = "failed"
      BY <2>3
    <3> HIDE DEF t
    <3> QED BY <1>2, <2>4, <3>1, <3>a
  <2>5. CASE /\ s.id # 0 /\ SaveBecomes(s, "made", s.id) /\ UNCHANGED ids
             /\ drafts' = Without(s.id) \union {Draft(s.id, s.mail, s.text)}
    <3> DEFINE t == [s EXCEPT !.reply = "made", !.got = s.id]
    <3>1. saves' = (saves \ {s}) \union {t}
      BY <2>1, <2>5
    <3>a. t.key = s.key /\ t.mail = s.mail /\ t.text = s.text /\ t.id = s.id /\ t.got = s.id /\ t.reply = "made"
      BY <2>3
    <3> HIDE DEF t
    <3> QED BY <1>2, <2>5, <3>1, <3>a
  <2>6. CASE /\ ids' = ids + 1 /\ SaveBecomes(s, "made", ids')
             /\ \E others \in {drafts, Without(s.id)} :
                  drafts' = others \union {Draft(ids', s.mail, s.text)}
    <3> DEFINE t == [s EXCEPT !.reply = "made", !.got = ids']
    <3>1. saves' = (saves \ {s}) \union {t}
      BY <2>1, <2>6
    <3>a. t.key = s.key /\ t.mail = s.mail /\ t.text = s.text /\ t.id = s.id /\ t.got = ids' /\ t.reply = "made"
      BY <2>3
    <3> HIDE DEF t
    <3>2. ids' > 0 /\ ids' > ids /\ ids' \in Nat /\ ids' # s.id
      BY <1>2, <2>6
    <3> QED BY <1>2, <2>6, <3>1, <3>2, <3>a
  <2> QED BY <1>1, <2>4, <2>5, <2>6 DEF Replies, Claimed
<1>4. PICK t : /\ saves' = (saves \ {s}) \union {t}
               /\ t.key = s.key /\ t.mail = s.mail /\ t.text = s.text /\ t.id = s.id
               /\ t.got \in Nat /\ t.got <= ids'
               /\ \/ t.reply # "made" /\ t.got = 0 /\ drafts' = drafts
                  \/ /\ t.reply = "made" /\ t.got > 0 /\ (t.got = s.id \/ t.got > ids)
                     /\ \E others \in {drafts, Without(s.id)} :
                          /\ t.got = s.id => others = Without(s.id)
                          /\ drafts' = others \union {Draft(t.got, s.mail, s.text)}
  BY <1>3
\* What drafts there are: some of before, and perhaps the one of this save.
<1>5. \A d \in drafts' : d \in drafts \/ (d.id = t.got /\ d.mail = s.mail /\ t.got > 0
                                          /\ (t.got = s.id \/ t.got > ids))
  BY <1>4 DEF Without, Draft
<1>6. \A d \in drafts : d.mail \notin risked /\ d.id = s.id => d.mail = s.mail
  BY DEF Writes, OwnDraft
<1>7. \A d \in drafts : d \in drafts' \/ (d.id = s.id /\ Draft(t.got, s.mail, s.text) \in drafts')
  BY <1>4 DEF Without
<1>8. Drawn'
  BY <1>1, <1>2, <1>3, <1>4, <1>5 DEF Writes, Drawn, TypeOK, toastVars
<1>9. Begun'
  <2>1. \A d \in drafts' : d.text <= edits
    BY <1>4 DEF Writes, Begun, Without, Draft
  <2> QED BY <1>1, <1>4, <2>1 DEF Writes, Begun, Payloads, toastVars, past, history, counters
<1>10. Written' /\ OfDialog' /\ OfPage'
  BY <1>1 DEF Writes, Written, OfDialog, OfPage, Payloads, IsLast, toastVars, fixed, past, history
\* A save of a mail that is not at risk is the only one.
<1>11. ASSUME NEW a \in saves', a.mail \notin risked
       PROVE  a = t /\ saves' = {t} /\ s.mail \notin risked
  <2>1. a.mail = s.mail \/ a \in saves
    BY <1>4
  <2>2. s.mail \notin risked
    BY <1>11, <2>1 DEF Writes, OneSave
  <2>3. saves = {s}
    BY <2>2 DEF Writes, OneSave
  <2> QED BY <1>4, <1>11, <2>2, <2>3
<1>12. OneSave'
  <2>1. ASSUME s.mail \notin risked, s.text # latest[s.mail], NEW d \in drafts'
        PROVE  ~IsLast(s.mail, d)
    <3>1. CASE d \in drafts
      BY <2>1, <3>1 DEF Writes, OneSave
    <3>2. CASE d.text = s.text
      BY <2>1, <3>2 DEF IsLast
    <3>3. d \in drafts \/ d.text = s.text
      BY <1>4 DEF Without, Draft
    <3> QED BY <3>1, <3>2, <3>3
  <2>2. \A a \in saves' : (a.key = s.key /\ a.mail = s.mail) \/ a \in saves
    BY <1>4
  <2>3. form.open => \A a \in saves' : \/ a.key = form.key /\ a.mail = form.mail
                                       \/ {a.mail, form.mail} \subseteq risked
    BY <2>2 DEF Writes, OneSave
  <2>4. ASSUME NEW a \in saves', a.mail \notin risked, a.text # latest[a.mail]
        PROVE  (form.open => form.timer) /\ \A d \in drafts' : ~IsLast(a.mail, d)
    <3>1. s.mail \notin risked /\ a.mail = s.mail /\ a.text = s.text
      BY <1>4, <1>11, <2>4
    <3> QED BY <2>1, <2>4, <3>1 DEF Writes, OneSave
  <2> QED BY <1>1, <1>11, <2>3, <2>4 DEF OneSave, IsLast, past, history
<1>13. OwnDraft'
  <2> SUFFICES ASSUME NEW d \in drafts', d.mail \notin risked
               PROVE  /\ form.open /\ d.id = url => d.mail = form.mail
                      /\ \A a \in saves' : d.id \in {a.id, a.got} => d.mail = a.mail
                      /\ \A p \in sends : d.id = p.id => d.mail = p.mail
    BY <1>1 DEF OwnDraft, toastVars, history
  <2>1. ASSUME NEW p \in sends
        PROVE  p.id \in Nat /\ (p.id # 0 => form.open /\ p.mail = form.mail)
    <3>1. p.id \in Nat
      BY DEF TypeOK
    <3>2. CASE surface = "dialog"
      BY <3>1, <3>2 DEF Writes, OfDialog, Payloads
    <3>3. CASE surface = "page"
      BY <3>1, <3>3 DEF Writes, OfPage, IsLast
    <3> QED BY <3>2, <3>3, TwoSurfaces
  <2>2. CASE d \in drafts
    <3>1. d.id > 0 /\ d.id <= ids /\ d.id \in Nat
      BY <2>2 DEF Writes, Drawn, TypeOK
    <3>2. d.id = t.got => t.got = s.id
      BY <1>2, <1>4, <3>1
    <3>3. d.id \in {t.id, t.got} => d.mail = t.mail
      BY <1>4, <1>6, <2>2, <3>2
    <3>4. \A a \in saves' : a = t \/ a \in saves
      BY <1>4
    <3> QED BY <2>2, <3>3, <3>4 DEF Writes, OwnDraft
  <2>3. CASE d.id = t.got /\ d.mail = s.mail /\ t.got > 0
    <3>1. t \in saves' /\ t.mail \notin risked
      BY <1>4, <2>3
    <3>2. saves' = {t} /\ s.mail \notin risked
      BY <1>11, <3>1
    <3>3. form.open => s.mail = form.mail
      BY <3>2 DEF Writes, OneSave
    <3> QED BY <1>4, <2>1, <2>3, <3>2, <3>3
  <2> QED BY <1>5, <2>2, <2>3
<1>14. ASSUME NEW m, m \notin risked, Stored(m) PROVE Stored(m)'
  <2>1. ASSUME NEW x \in Store, IsLast(m, x)
        PROVE  \E y \in Store' : y.mail = x.mail /\ y.text = x.text
    <3>1. CASE x \in drafts /\ x \notin drafts'
      <4> DEFINE y == Draft(t.got, s.mail, s.text)
      <4>1. y \in drafts' /\ x.id = s.id
        BY <1>7, <3>1
      <4>2. y.mail = s.mail /\ y.text = s.text
        BY DEF Draft
      <4>3. x.mail = s.mail /\ x.text = latest[s.mail] /\ s.mail \notin risked
        BY <1>6, <1>14, <2>1, <3>1, <4>1 DEF IsLast
      <4>4. s.text = latest[s.mail]
        BY <3>1, <4>3 DEF Writes, OneSave, IsLast
      <4> HIDE DEF y
      <4> QED BY <4>1, <4>2, <4>3, <4>4 DEF Store
    <3>2. CASE x \notin drafts \/ x \in drafts'
      BY <1>1, <3>2 DEF Store, Sending, toastVars, fixed
    <3> QED BY <3>1, <3>2
  <2> QED BY <1>1, <1>14, <2>1, StillStored DEF past, history
<1>15. SavedIsStored'
  <2> SUFFICES ASSUME form.open, form.mail \notin risked, ~form.timer
               PROVE  saves' # {} /\ \A a \in saves' : a.reply = "made" => Stored(form.mail)'
    BY <1>1 DEF SavedIsStored, history
  <2>1. s.mail = form.mail /\ s.text = latest[s.mail] /\ form.mail \in Mail
    BY DEF Writes, OneSave, TypeOK
  <2>2. PICK m \in Mail : m = form.mail
    BY <2>1
  <2>3. ASSUME t.reply = "made" PROVE Stored(m)'
    <3>1. Draft(t.got, s.mail, s.text) \in drafts'
      BY <1>4, <2>3
    <3> QED BY <1>1, <2>1, <2>2, <3>1 DEF Stored, IsLast, Draft, past, history
  <2>4. ASSUME NEW a \in saves, a.reply = "made" PROVE Stored(m)'
    <3>1. Stored(m)
      BY <2>2, <2>4 DEF Writes, SavedIsStored
    <3> QED BY <1>14, <2>2, <3>1
  <2>5. ASSUME NEW a \in saves', a.reply = "made" PROVE Stored(m)'
    BY <1>4, <2>3, <2>4, <2>5
  <2>6. Stored(m)' => Stored(form.mail)'
    BY <1>1, <2>2 DEF Stored, IsLast
  <2> QED BY <1>4, <2>5, <2>6
<1>16. NoneLost'
  BY <1>1, <1>14 DEF Writes, NoneLost, IsLast, past, history, counters
<1> QED BY <1>8, <1>9, <1>10, <1>12, <1>13, <1>15, <1>16 DEF Writes

LEMMA SaveReturnsKeeps ==
  ASSUME TypeOK, Claimed, Writes, NEW s \in saves, SaveReturns(s)
  PROVE  Writes'
<1>1. /\ saves' = saves \ {s} /\ url' \in {url, s.got} /\ risked \subseteq risked'
      /\ s.reply \in {"made", "failed"}
      /\ s.reply = "failed" /\ form.open /\ form.key = s.key /\ form.covered => form.mail \in risked'
      /\ UNCHANGED <<fixed, toastVars, server, counters, past>>
  BY DEF SaveReturns, TypeOK
<1>2. /\ form'.open = form.open /\ form'.mail = form.mail /\ form'.text = form.text
      /\ form'.changed = form.changed /\ form'.timer = form.timer /\ form'.sending = form.sending
      /\ form'.key = form.key /\ (s.reply = "failed" => form'.covered = form.covered)
  BY DEF SaveReturns, Covers, TypeOK, Writing
<1>3. Drawn' /\ Begun' /\ OneSave' /\ Written' /\ OfDialog'
  BY <1>1, <1>2 DEF Writes, Drawn, Begun, OneSave, Written, OfDialog, Payloads, IsLast, TypeOK,
    toastVars, server, fixed, counters, past
<1>4. OwnDraft'
  <2>1. ASSUME NEW d \in drafts, d.mail \notin risked, form.open, d.id = s.got
        PROVE  d.mail = form.mail
    BY <2>1 DEF Writes, OwnDraft, OneSave
  <2> QED BY <1>1, <1>2, <2>1 DEF Writes, OwnDraft, toastVars, server
<1>5. OfPage'
  BY <1>1, <1>2 DEF Writes, OfPage, IsLast, toastVars, fixed, past
<1>6. Store' = Store
  BY <1>1 DEF Store, Sending, toastVars, server, fixed
<1>7. \A m : Stored(m) => Stored(m)'
  BY <1>1, <1>6, StillStored DEF past
<1>8. ASSUME form.open, form.mail \notin risked', ~form.timer,
             (form.changed /\ form'.covered /\ saves' = {}) \/ \E a \in saves' : a.reply = "made"
      PROVE  Stored(form.mail)'
  <2>1. form.mail \in Mail /\ form.mail \notin risked /\ s.key = form.key
    BY <1>1, <1>8 DEF Writes, OneSave, TypeOK
  <2>2. \E a \in saves : a.reply = "made"
    BY <1>1, <1>2, <1>8, <2>1
  <2>3. \E m \in Mail : m = form.mail /\ Stored(m)
    BY <1>8, <2>1, <2>2 DEF Writes, SavedIsStored
  <2>4. PICK m \in Mail : m = form.mail /\ Stored(m)'
    BY <1>7, <2>3
  <2> QED BY <1>2, <2>4 DEF Stored, IsLast
<1>9. SavedIsStored'
  BY <1>2, <1>8 DEF SavedIsStored
<1>10. NoneLost'
  BY <1>1, <1>2, <1>7 DEF Writes, NoneLost, IsLast, past, counters
<1> QED BY <1>3, <1>4, <1>5, <1>9, <1>10 DEF Writes

\* The composer closes and the calls go on.
LEMMA ClosedKeeps ==
  ASSUME TypeOK, Writes, form' = Closed, url' \in {0, url}, saves' = saves, drafts' = drafts,
         ids' = ids, latest' = latest, mails' = mails, edits' = edits, risked \subseteq risked',
         Payloads' \subseteq Payloads \union {Payload(payloads + 1, 0)}, form.open,
         \A p \in sends' : p \in sends \/ p.id = 0
  PROVE  Drawn' /\ Begun' /\ OneSave' /\ OwnDraft' /\ Written'
<1>1. ~form'.open /\ ~form'.timer /\ form'.text = 0 /\ edits \in Nat
  BY DEF Closed, TypeOK
<1>2. /\ form.mail <= mails /\ Payload(payloads + 1, 0).mail = form.mail
      /\ form.text <= edits /\ Payload(payloads + 1, 0).text = form.text
  BY DEF Payload, Writes, Begun
<1>3. Drawn'
  BY DEF Writes, Drawn, TypeOK
<1>4. Begun'
  BY <1>1, <1>2 DEF Writes, Begun
<1>5. OneSave' /\ Written'
  BY <1>1 DEF Writes, OneSave, Written, IsLast
<1>6. OwnDraft'
  <2>1. \A d \in drafts : d.id # 0
    BY DEF Writes, Drawn, TypeOK
  <2> QED BY <1>1, <2>1 DEF Writes, OwnDraft
<1> QED BY <1>3, <1>4, <1>5, <1>6

\* A composer that is empty may be closed.
LEMMA EmptyMayClose ==
  ASSUME TypeOK, Writes, form.open, form.text = 0
  PROVE  \/ form.mail \in risked \/ latest[form.mail] = 0 \/ form.mail \in dropped
         \/ \E m \in Mail : m = form.mail /\ Stored(m)
<1>1. form.mail \in Mail /\ form.mail \in 1..mails
  BY DEF TypeOK, Writes, Begun, Mail
<1> QED BY <1>1 DEF Writes, NoneLost, IsLast

LEMMA CloseKeeps == ASSUME TypeOK, Claimed, Writes, Close PROVE Writes'
<1>1. /\ form.open /\ ~form.sending /\ form' = Closed /\ url' \in {0, url} /\ risked \subseteq risked'
      /\ UNCHANGED <<fixed, saves, toastVars, server, counters, past>>
  BY DEF Close
<1>2. \/ form.mail \in risked' \/ form.text = 0
      \/ form.changed /\ form.covered /\ ~form.timer /\ saves = {}
  <2>1. ~Unsaved \/ form.mail \in risked'
    BY DEF Close
  <2>2. form.text > 0 \/ form.text = 0
    BY DEF TypeOK, Writing
  <2> QED BY <2>1, <2>2 DEF Unsaved
<1>3. Drawn' /\ Begun' /\ OneSave' /\ OwnDraft' /\ Written'
  <2>1. Payloads' = Payloads /\ sends' = sends
    BY <1>1 DEF Payloads, toastVars
  <2> QED BY <1>1, <2>1, ClosedKeeps DEF server, counters, past
<1>4. OfDialog' /\ OfPage'
  BY <1>1 DEF Writes, OfDialog, OfPage, Payloads, Closed, toastVars, fixed
<1>5. Store' = Store
  BY <1>1 DEF Store, Sending, toastVars, server, fixed
<1>6. \A m : Stored(m) => Stored(m)'
  BY <1>1, <1>5, StillStored DEF past
<1>7. \/ form.mail \in risked' \/ latest[form.mail] = 0 \/ form.mail \in dropped
      \/ \E m \in Mail : m = form.mail /\ Stored(m)
  <2>1. form.mail \in Mail
    BY <1>1 DEF TypeOK
  <2>2. CASE form.text = 0
    BY <1>1, <2>2, EmptyMayClose
  <2>3. CASE form.changed /\ form.covered /\ ~form.timer /\ saves = {}
    BY <1>1, <2>1, <2>3 DEF Writes, SavedIsStored
  <2> QED BY <1>2, <2>2, <2>3
<1>8. SavedIsStored' /\ NoneLost'
  <2>1. ~form'.open /\ form.open \in BOOLEAN
    BY <1>1 DEF Closed
  <2> QED BY <1>1, <1>6, <1>7, <2>1, NothingWritten DEF Writes, past, counters
<1> QED BY <1>3, <1>4, <1>8 DEF Writes

LEMMA DiscardKeeps == ASSUME TypeOK, Claimed, Writes, Discard PROVE Writes'
<1>1. /\ form.open /\ form' = Closed /\ dropped' = dropped \union {form.mail} /\ surface = "dialog"
      /\ UNCHANGED <<fixed, url, saves, toastVars, server, counters, latest, risked>>
  BY DEF Discard
<1>2. Drawn' /\ Begun' /\ OneSave' /\ OwnDraft' /\ Written'
  <2>1. Payloads' = Payloads /\ sends' = sends
    BY <1>1 DEF Payloads, toastVars
  <2> QED BY <1>1, <2>1, ClosedKeeps DEF server, counters
<1>3. OfDialog' /\ OfPage'
  BY <1>1 DEF Writes, OfDialog, OfPage, Payloads, Closed, toastVars, fixed
<1>4. Store' = Store
  BY <1>1 DEF Store, Sending, toastVars, server, fixed
<1>5. \A m : Stored(m) => Stored(m)'
  BY <1>1, <1>4, StillStored
<1>6. SavedIsStored' /\ NoneLost'
  <2>1. ~form'.open /\ form.open \in BOOLEAN /\ form.mail \in dropped' /\ dropped \subseteq dropped'
    BY <1>1 DEF Closed
  <2> QED BY <1>1, <1>5, <2>1, NothingWritten DEF Writes, counters
<1> QED BY <1>2, <1>3, <1>6 DEF Writes

LEMMA SendFromDialogKeeps ==
  ASSUME TypeOK, Claimed, Writes, SendFromDialog PROVE Writes'
<1> DEFINE p == Payload(payloads + 1, 0)
<1>1. /\ form.open /\ form' = Closed /\ surface = "dialog"
      /\ UNCHANGED <<fixed, url, saves, failures, server, mails, edits, keys, past, risked>>
      /\ \/ pending' = pending \union {p} /\ toasts' = toasts \union {p} /\ sends' = sends
         \/ sends' = sends \union {p} /\ pending' = pending /\ toasts' = toasts
  BY DEF SendFromDialog, Submit, history
<1>2. p.id = 0 /\ p.mail = form.mail /\ p.text = form.text
  BY DEF Payload
<1> HIDE DEF p
<1>3. Drawn' /\ Begun' /\ OneSave' /\ OwnDraft' /\ Written'
  <2>1. /\ Payloads' \subseteq Payloads \union {p}
        /\ \A q \in sends' : q \in sends \/ q.id = 0
    BY <1>1, <1>2 DEF Payloads
  <2> QED BY <1>1, <2>1, ClosedKeeps DEF server, past, p
<1>4. OfDialog' /\ OfPage'
  BY <1>1, <1>2 DEF Writes, OfDialog, OfPage, Payloads, Closed, fixed
<1>5. Store' = Store \union {p}
  BY <1>1 DEF Store, Sending, server, fixed
<1>6. \A m : Stored(m) => Stored(m)'
  BY <1>1, <1>5, StillStored DEF past
<1>7. IsLast(form.mail, form) => \E m \in Mail : m = form.mail /\ Stored(m)'
  <2> SUFFICES ASSUME IsLast(form.mail, form), NEW m \in Mail, m = form.mail PROVE Stored(m)'
    BY <1>1 DEF TypeOK
  <2>1. p \in Store' /\ p.mail = m /\ p.text = latest'[m]
    BY <1>1, <1>2, <1>5 DEF IsLast, past
  <2> QED BY <2>1 DEF Stored, Store, IsLast
<1>8. \/ form.mail \in risked \/ latest[form.mail] = 0 \/ form.mail \in dropped
      \/ \E m \in Mail : m = form.mail /\ (Stored(m) \/ Stored(m)')
  <2>1. form.mail \in Mail /\ form.mail \in 1..mails
    BY <1>1 DEF TypeOK, Writes, Begun, Mail
  <2> QED BY <1>7, <2>1 DEF Writes, NoneLost
<1>9. SavedIsStored' /\ NoneLost'
  <2>1. ~form'.open /\ form.open \in BOOLEAN
    BY <1>1 DEF Closed
  <2> QED BY <1>1, <1>6, <1>8, <2>1, NothingWritten DEF Writes, past
<1> QED BY <1>3, <1>4, <1>9 DEF Writes

LEMMA SendFromPageKeeps ==
  ASSUME TypeOK, Claimed, Writes, SendFromPage PROVE Writes'
<1> DEFINE p == Payload(payloads + 1, url)
<1>1. /\ form.open /\ ~form.sending /\ form' = [form EXCEPT !.sending = TRUE, !.timer = FALSE]
      /\ surface = "page" /\ sends' = sends \union {p}
      /\ UNCHANGED <<fixed, url, saves, pending, toasts, failures, server, mails, edits, keys, past>>
      /\ risked \subseteq risked'
      /\ form.timer /\ (saves # {} \/ form.covered) => form.mail \in risked'
  BY DEF SendFromPage, Submit
<1>2. /\ form'.open /\ form'.sending /\ ~form'.timer /\ form'.mail = form.mail
      /\ form'.text = form.text /\ form'.changed = form.changed /\ form'.covered = form.covered
      /\ form'.key = form.key
  BY <1>1 DEF TypeOK, Writing
<1>3. p.id = url /\ p.mail = form.mail /\ p.text = form.text
  BY DEF Payload
<1> HIDE DEF p
<1>4. sends = {} /\ form.text = latest[form.mail] /\ form.mail <= mails /\ form.text <= edits
  BY <1>1 DEF Writes, OfPage, Begun
<1>5. Drawn' /\ Begun' /\ OneSave' /\ Written' /\ OfDialog'
  BY <1>1, <1>2, <1>3, <1>4 DEF Writes, Drawn, Begun, OneSave, Written, OfDialog, Payloads,
    IsLast, TypeOK, server, fixed, past
<1>6. OwnDraft'
  BY <1>1, <1>2, <1>3, <1>4 DEF Writes, OwnDraft, server
<1>7. OfPage'
  BY <1>1, <1>2, <1>3, <1>4 DEF Writes, OfPage, IsLast, fixed, past
<1>8. Store' = Store
  BY <1>1 DEF Store, Sending, server, fixed
<1>9. \A m : Stored(m) => Stored(m)'
  BY <1>1, <1>8, StillStored DEF past
<1>10. SavedIsStored'
  <2> SUFFICES ASSUME form.mail \notin risked', ~form.timer \/ (saves = {} /\ ~form.covered)
               PROVE  /\ form.changed /\ form.covered => saves # {} \/ Stored(form.mail)'
                      /\ \A s \in saves : s.reply = "made" => Stored(form.mail)'
    BY <1>1, <1>2 DEF SavedIsStored
  <2>1. PICK m \in Mail : m = form.mail
    BY <1>1 DEF TypeOK
  <2>2. Stored(m) => Stored(form.mail)'
    BY <1>2, <1>9, <2>1 DEF Stored, IsLast
  <2>3. form.mail \notin risked
    BY <1>1
  <2> QED BY <1>1, <2>1, <2>2, <2>3 DEF Writes, SavedIsStored
<1>11. NoneLost'
  BY <1>1, <1>2, <1>9 DEF Writes, NoneLost, IsLast, past
<1> QED BY <1>5, <1>6, <1>7, <1>10, <1>11 DEF Writes

\* A step of the toasts and the undo window, that leaves the composer alone.
LEMMA ToastsKeep ==
  ASSUME TypeOK, Writes, surface = "dialog", risked \subseteq risked',
         \A m : m \notin risked' /\ Stored(m) => Stored(m)', Payloads' \subseteq Payloads,
         UNCHANGED <<fixed, form, url, saves, drafts, ids, counters, latest, dropped>>
  PROVE  Writes'
<1>1. Drawn' /\ Begun' /\ OneSave' /\ Written' /\ OfDialog' /\ OfPage'
  <2>1. \A p \in sends' : p.id = 0
    BY DEF Writes, OfDialog, Payloads
  <2> QED BY <2>1 DEF Writes, Drawn, Begun, OneSave, Written, OfDialog, OfPage, IsLast, TypeOK,
        server, fixed, counters
<1>2. OwnDraft'
  <2>1. \A p \in sends' : p.id = 0
    BY DEF Writes, OfDialog, Payloads
  <2>2. \A d \in drafts : d.id # 0
    BY DEF Writes, Drawn, TypeOK
  <2> QED BY <2>1, <2>2 DEF Writes, OwnDraft, server
<1>3. SavedIsStored' /\ NoneLost'
  <2>1. form.open \in BOOLEAN
    BY DEF TypeOK, Writing
  <2> QED BY <2>1, NothingWritten DEF Writes, counters
<1> QED BY <1>1, <1>2, <1>3 DEF Writes

LEMMA SendKind == TypeOK => kind \in {"gmail", "graph", "imap"}
  BY ComposeAssumption DEF TypeOK

LEMMA ToastGoesKeeps ==
  ASSUME TypeOK, Claimed, Writes, NEW p \in toasts, ToastGoes(p) PROVE Writes'
<1>1. /\ UNCHANGED <<fixed, form, url, saves, pending, failures, sends, server, counters, past, risked>>
      /\ toasts' \subseteq toasts
  BY DEF ToastGoes, history
<1>2. surface = "dialog"
  BY TwoSurfaces DEF Writes, OfPage
<1>3. Store' = Store
  BY <1>1 DEF Store, Sending, server, fixed
<1>4. \A m : Stored(m) => Stored(m)'
  BY <1>1, <1>3, StillStored DEF past
<1> QED BY <1>1, <1>2, <1>4, ToastsKeep DEF Payloads, past, server

LEMMA WindowEndsKeeps ==
  ASSUME TypeOK, Claimed, Writes, NEW p \in pending, WindowEnds(p) PROVE Writes'
<1>1. /\ UNCHANGED <<fixed, form, url, saves, toasts, failures, server, counters, past, risked>>
      /\ pending' = pending \ {p} /\ sends' = sends \union {p}
  BY DEF WindowEnds, history
<1>2. surface = "dialog"
  BY TwoSurfaces DEF Writes, OfPage
<1>3. Store' = Store
  BY <1>1, <1>2 DEF Store, Sending, server, fixed
<1>4. \A m : Stored(m) => Stored(m)'
  BY <1>1, <1>3, StillStored DEF past
<1> QED BY <1>1, <1>2, <1>4, ToastsKeep DEF Payloads, past, server

LEMMA LetGoKeeps ==
  ASSUME TypeOK, Claimed, Writes, NEW p \in failures, LetGo(p) PROVE Writes'
<1>1. /\ UNCHANGED <<fixed, form, url, saves, pending, toasts, sends, server, counters, past>>
      /\ failures' = failures \ {p} /\ risked \subseteq risked'
      /\ p.mail \in risked' \/ \E d \in drafts : d.mail = p.mail /\ d.text = p.text
  BY DEF LetGo
<1>2. surface = "dialog"
  BY TwoSurfaces DEF Writes, OfPage
<1>3. \A x \in Store : x \in Store' \/ x = p
  BY <1>1 DEF Store, Sending, server, fixed
<1>4. p.mail \in risked' \/ \E y \in Store' : y.mail = p.mail /\ y.text = p.text
  BY <1>1 DEF Store, server
<1>5. ASSUME NEW m, m \notin risked', Stored(m) PROVE Stored(m)'
  <2>1. ASSUME NEW x \in Store, IsLast(m, x)
        PROVE  \E y \in Store' : y.mail = x.mail /\ y.text = x.text
    BY <1>3, <1>4, <1>5, <2>1 DEF IsLast
  <2> QED BY <1>1, <1>5, <2>1, StillStored DEF past
<1>6. Payloads' \subseteq Payloads
  BY <1>1 DEF Payloads
<1> QED BY <1>1, <1>2, <1>5, <1>6, ToastsKeep DEF past, server

\* What is put back leaves the toast, and is in the composer.
LEMMA RestoreKeeps ==
  ASSUME TypeOK, Writes, NEW p \in toasts \union failures, Restore(p),
         pending' \subseteq pending, toasts' \subseteq toasts, failures' \subseteq failures,
         pending \ {p} \subseteq pending', failures \ {p} \subseteq failures',
         UNCHANGED <<fixed, url, saves, sends, server, mails, edits, latest, dropped>>
  PROVE  Writes'
<1>1. /\ form' = Fresh(keys', p.mail, p.text)
      /\ risked \subseteq risked' /\ (form.open => form.mail \in risked')
      /\ \A d \in drafts : d.id = url => d.mail \in risked' \/ d.mail = p.mail
      /\ saves # {} => p.mail \in risked' /\ \A s \in saves : s.mail \in risked'
  <2>1. form' = Fresh(keys', p.mail, p.text) /\ risked' = risked \union Endangered(p.mail, url)
    BY DEF Restore
  <2> QED BY <2>1, EndangeredAre
<1>2. /\ form'.open /\ form'.mail = p.mail /\ form'.text = p.text /\ ~form'.changed
      /\ ~form'.timer /\ ~form'.sending
  BY <1>1 DEF Fresh, Closed
<1>3. surface = "dialog" /\ p.mail <= mails /\ p.text <= edits
  BY TwoSurfaces DEF Writes, OfPage, Begun, Payloads
<1>4. Payloads' \subseteq Payloads
  BY DEF Payloads
<1>5. Drawn' /\ Written'
  BY <1>1, <1>2, <1>3 DEF Writes, Drawn, Written, TypeOK, server
<1>6. Begun'
  BY <1>2, <1>3, <1>4 DEF Writes, Begun, server
<1>7. OneSave'
  BY <1>1, <1>2 DEF Writes, OneSave
<1>8. OfDialog' /\ OfPage'
  BY <1>2, <1>3, <1>4 DEF Writes, OfDialog, OfPage, fixed
<1>9. OwnDraft'
  BY <1>1, <1>2 DEF Writes, OwnDraft, server
<1>10. SavedIsStored'
  BY <1>1, <1>2 DEF SavedIsStored
<1>11. \A x \in Store : x \in Store' \/ x = p
  BY <1>3 DEF Store, Sending, server, fixed
<1>12. ASSUME NEW m \in (1..mails') \ risked'
       PROVE  latest'[m] = 0 \/ m \in dropped' \/ (form'.open /\ IsLast(m, form)') \/ Stored(m)'
  <2>1. latest[m] = 0 \/ m \in dropped \/ Stored(m)
    BY <1>1, <1>12 DEF Writes, NoneLost, IsLast
  <2>2. CASE IsLast(m, p)
    BY <1>2, <2>2 DEF IsLast
  <2>3. CASE ~IsLast(m, p)
    <3>1. \A x \in Store : IsLast(m, x) => \E y \in Store' : y.mail = x.mail /\ y.text = x.text
      BY <1>11, <2>3
    <3>2. Stored(m) => Stored(m)'
      BY <3>1, StillStored
    <3> QED BY <2>1, <3>2
  <2> QED BY <2>2, <2>3
<1> QED BY <1>5, <1>6, <1>7, <1>8, <1>9, <1>10, <1>12 DEF Writes, NoneLost

LEMMA UndoKeeps ==
  ASSUME TypeOK, Claimed, Writes, NEW p \in toasts, Undo(p) PROVE Writes'
<1>1. /\ Restore(p) /\ pending' = pending \ {p} /\ toasts' = toasts \ {p} /\ failures' = failures
      /\ UNCHANGED <<fixed, url, saves, sends, server, mails, edits, latest, dropped>>
  BY DEF Undo
<1> QED BY <1>1, RestoreKeeps

LEMMA RestoreFailedKeeps ==
  ASSUME TypeOK, Claimed, Writes, NEW p \in failures, RestoreFailed(p) PROVE Writes'
<1>1. /\ Restore(p) /\ failures' = failures \ {p} /\ pending' = pending /\ toasts' = toasts
      /\ UNCHANGED <<fixed, url, saves, sends, server, mails, edits, latest, dropped>>
  BY DEF RestoreFailed, past
<1> QED BY <1>1, RestoreKeeps

\* What is delivered is what was sent; on the page, of Gmail, the draft that was
\* named is gone with it.
LEMMA DeliveredIsSent ==
  ASSUME TypeOK, NEW p \in sends, p.id = 0 \/ kind = "gmail", p.id # 0 => HasDraft(p.id)
  PROVE  \E y \in Delivered(p) : y.mail = p.mail /\ y.text = p.text
<1>1. CASE p.id = 0
  <2>1. [n |-> p.n, mail |-> p.mail, text |-> p.text] \in Delivered(p)
    BY <1>1 DEF Delivered, Draft
  <2> QED BY <2>1
<1>2. CASE p.id # 0 /\ kind = "gmail"
  <2>1. PICK x \in drafts : x.id = p.id
    BY <1>2 DEF HasDraft
  <2>2. Draft(x.id, p.mail, p.text) \in {Draft(y.id, p.mail, p.text) : y \in {z \in drafts : z.id = p.id}}
    BY <2>1
  <2>3. [n |-> p.n, mail |-> Draft(x.id, p.mail, p.text).mail,
         text |-> Draft(x.id, p.mail, p.text).text] \in Delivered(p)
    BY <1>2, <2>2 DEF Delivered
  <2>4. Draft(x.id, p.mail, p.text).mail = p.mail /\ Draft(x.id, p.mail, p.text).text = p.text
    BY DEF Draft
  <2> QED BY <2>3, <2>4
<1> QED BY <1>1, <1>2

\* The outcomes of a send that nothing is lost in.
LEMMA SendDoes ==
  ASSUME TypeOK, NEW p \in sends, Send(p)
  PROVE  /\ UNCHANGED <<fixed, saves, pending, toasts, ids, counters, latest, undone, dropped, torn, risked>>
         /\ sends' = sends \ {p} /\ sent \subseteq sent'
         /\ drafts' \in {drafts, Without(p.id)} /\ \E ok \in BOOLEAN : Heard(p, ok)
         /\ \/ (p.id # 0 => HasDraft(p.id)) /\ sent' = sent \union Delivered(p)
            \/ drafts' = drafts /\ Heard(p, FALSE)
  BY DEF Send, Heard

LEMMA SendKeeps ==
  ASSUME TypeOK, Claimed, Writes, NEW p \in sends, Send(p) PROVE Writes'
<1>1. /\ UNCHANGED <<fixed, saves, pending, toasts, ids, counters, latest, dropped, torn, risked>>
      /\ sends' = sends \ {p} /\ sent \subseteq sent' /\ drafts' \subseteq drafts
      /\ drafts' \in {drafts, Without(p.id)}
      /\ \/ (p.id # 0 => HasDraft(p.id)) /\ sent' = sent \union Delivered(p)
         \/ drafts' = drafts /\ Heard(p, FALSE)
  BY SendDoes DEF Without
<1>2. \A d \in drafts : d.id # 0 /\ (d \in drafts' \/ d.id = p.id)
  BY <1>1 DEF Writes, Drawn, TypeOK, Without
<1>3. CASE surface = "dialog"
  <2>1. p.id = 0 /\ drafts' = drafts
    BY <1>1, <1>2, <1>3 DEF Writes, OfDialog, Payloads
  <2>2. /\ UNCHANGED <<form, url>> /\ failures \subseteq failures' /\ failures' \subseteq failures \union {p}
        /\ Heard(p, FALSE) => p \in failures'
    BY <1>3, SendDoes DEF Heard, Claimed
  <2>3. \E y \in Store' : y.mail = p.mail /\ y.text = p.text
    <3>1. CASE sent' = sent \union Delivered(p)
      <4>1. PICK y \in Delivered(p) : y.mail = p.mail /\ y.text = p.text
        BY <2>1, DeliveredIsSent
      <4> QED BY <3>1, <4>1 DEF Store
    <3>2. CASE Heard(p, FALSE)
      BY <2>2, <3>2 DEF Store
    <3> QED BY <1>1, <3>1, <3>2
  <2>4. \A x \in Store : x \in Store' \/ x = p
    BY <1>1, <1>3, <2>1, <2>2 DEF Store, Sending, fixed
  <2>5. \A m : Stored(m) => Stored(m)'
    BY <1>1, <2>3, <2>4, StillStored
  <2> QED BY <1>1, <1>3, <2>1, <2>2, <2>5, ToastsKeep DEF Payloads
<1>4. CASE surface = "page"
  <2>1. /\ kind = "gmail" /\ sends = {p} /\ sends' = {} /\ form.open /\ form.sending /\ IsLast(form.mail, p)
    BY <1>1, <1>4, SendKind DEF Writes, OfPage, Claimed
  <2>2. p.mail = form.mail /\ p.text = latest[form.mail] /\ form.text = latest[form.mail]
    BY <1>4, <2>1 DEF Writes, OfPage, IsLast
  <2>3. /\ failures' = failures /\ pending' = pending /\ toasts' = toasts
        /\ \/ form' = Closed /\ url' = 0 /\ sent' = sent \union Delivered(p) /\ (p.id # 0 => HasDraft(p.id))
           \/ form' = [form EXCEPT !.sending = FALSE] /\ url' = url
    <3>1. PICK ok \in BOOLEAN : Heard(p, ok) /\ (~ok \/ (sent' = sent \union Delivered(p) /\ (p.id # 0 => HasDraft(p.id))))
      BY DEF Send
    <3> QED BY <1>1, <1>4, <3>1 DEF Heard
  <2>4. \/ drafts' = drafts
        \/ \E y \in Store' : y.mail = p.mail /\ y.text = p.text
    <3>1. CASE (p.id # 0 => HasDraft(p.id)) /\ sent' = sent \union Delivered(p)
      <4>1. PICK y \in Delivered(p) : y.mail = p.mail /\ y.text = p.text
        BY <2>1, <3>1, DeliveredIsSent
      <4> QED BY <3>1, <4>1 DEF Store
    <3> QED BY <1>1, <3>1
  <2>5. \A d \in drafts : d.mail \notin risked /\ d.id = p.id => d.mail = p.mail
    BY DEF Writes, OwnDraft
  <2>6. ASSUME NEW m, m \notin risked, NEW x \in Store, IsLast(m, x)
        PROVE  \E y \in Store' : y.mail = x.mail /\ y.text = x.text
    <3>1. CASE x \in Store'
      BY <3>1
    <3>2. CASE x \notin Store'
      <4>1. x \in drafts /\ x \notin drafts'
        BY <1>1, <1>4, <2>3, <2>6, <3>2 DEF Store, Sending, fixed
      <4>2. x.mail = p.mail
        BY <1>2, <2>5, <2>6, <4>1 DEF IsLast
      <4>3. x.text = p.text
        BY <2>2, <2>6, <4>2 DEF IsLast
      <4> QED BY <2>4, <4>1, <4>2, <4>3
    <3> QED BY <3>1, <3>2
  <2>7. ASSUME NEW m, m \notin risked, Stored(m) PROVE Stored(m)'
    BY <1>1, <2>6, <2>7, StillStored
  <2>8. CASE form' = Closed /\ url' = 0 /\ sent' = sent \union Delivered(p) /\ (p.id # 0 => HasDraft(p.id))
    <3>1. ~form'.open /\ ~form'.timer /\ ~form'.sending /\ form'.text = 0 /\ form.open \in BOOLEAN
          /\ edits \in Nat
      BY <2>1, <2>8 DEF Closed, TypeOK
    <3>2. Drawn' /\ Begun' /\ OneSave' /\ Written' /\ OfDialog' /\ OfPage'
      BY <1>1, <1>4, <2>1, <2>3, <2>8, <3>1 DEF Writes, Drawn, Begun, OneSave, Written, OfDialog,
        OfPage, Payloads, IsLast, TypeOK, fixed, counters
    <3>3. OwnDraft'
      BY <1>1, <2>1, <3>1 DEF Writes, OwnDraft
    <3>4. \E m \in Mail : m = form.mail /\ Stored(m)'
      <4>1. form.mail \in Mail
        BY <2>1 DEF TypeOK
      <4>2. PICK y \in Delivered(p) : y.mail = p.mail /\ y.text = p.text
        BY <2>1, <2>8, DeliveredIsSent
      <4>3. ASSUME NEW m \in Mail, m = form.mail PROVE Stored(m)'
        BY <1>1, <2>2, <2>8, <4>2, <4>3 DEF Stored, IsLast
      <4> QED BY <4>1, <4>3
    <3>5. SavedIsStored' /\ NoneLost'
      BY <1>1, <2>7, <3>1, <3>4, NothingWritten DEF Writes, counters
    <3> QED BY <3>2, <3>3, <3>5 DEF Writes
  <2>9. CASE form' = [form EXCEPT !.sending = FALSE] /\ url' = url
    <3>1. /\ form'.open = form.open /\ form'.mail = form.mail /\ form'.text = form.text
          /\ form'.changed = form.changed /\ form'.covered = form.covered
          /\ form'.timer = form.timer /\ form'.key = form.key /\ ~form'.sending /\ form.open \in BOOLEAN
      BY <2>9 DEF TypeOK, Writing
    <3>2. Drawn' /\ Begun' /\ OneSave' /\ Written' /\ OfDialog' /\ OfPage'
      BY <1>1, <1>4, <2>1, <2>3, <2>9, <3>1 DEF Writes, Drawn, Begun, OneSave, Written, OfDialog,
        OfPage, Payloads, IsLast, TypeOK, fixed, counters
    <3>3. OwnDraft'
      BY <1>1, <2>1, <2>9, <3>1 DEF Writes, OwnDraft
    <3>4. SavedIsStored' /\ NoneLost'
      BY <1>1, <2>7, <3>1, NothingWritten DEF Writes, counters
    <3> QED BY <3>2, <3>3, <3>4 DEF Writes
  <2> QED BY <2>3, <2>8, <2>9
<1> QED BY <1>3, <1>4, TwoSurfaces

LEMMA NextKeeps == ASSUME TypeOK, Claimed, Writes, [Next]_vars, Claimed' PROVE Writes'
<1>1. ASSUME Open \/ Edit \/ Close \/ Discard \/ SendFromDialog \/ SendFromPage PROVE Writes'
  BY <1>1, OpenKeeps, EditKeeps, CloseKeeps, DiscardKeeps, SendFromDialogKeeps, SendFromPageKeeps
<1>2. ~TearDown
  BY DEF TearDown, Claimed
<1>3. ASSUME Toasts PROVE Writes'
  BY <1>3, ToastGoesKeeps, UndoKeeps, RestoreFailedKeeps, LetGoKeeps DEF Toasts
<1>4. ASSUME Calls PROVE Writes'
  BY <1>4, SaveDraftKeeps, SaveReturnsKeeps, SendKeeps DEF Calls
<1>5. ASSUME Timers PROVE Writes'
  BY <1>5, AutosaveKeeps, WindowEndsKeeps DEF Timers
<1>6. ASSUME UNCHANGED vars PROVE Writes'
  <2>1. UNCHANGED <<kind, surface, undoSend, form, url, saves, pending, toasts, failures, sends,
                    drafts, sent, ids, mails, edits, latest, dropped, risked>>
    BY <1>6 DEF vars, fixed, toastVars, server, counters, past, history
  <2>2. Store' = Store
    BY <2>1 DEF Store, Sending
  <2>3. \A m : Stored(m) => Stored(m)'
    BY <2>1, <2>2, StillStored
  <2>4. SavedIsStored' /\ NoneLost'
    <3>1. form.open \in BOOLEAN
      BY DEF TypeOK, Writing
    <3> QED BY <2>1, <2>3, <3>1, NothingWritten DEF Writes
  <2> QED BY <2>1, <2>4 DEF Writes, Drawn, Begun, OneSave, OwnDraft, Written, OfDialog, OfPage,
        Payloads, IsLast
<1> QED BY <1>1, <1>2, <1>3, <1>4, <1>5, <1>6 DEF Next, User

LEMMA NextClaimed == TypeOK /\ [Next]_vars /\ Claimed' => Claimed
<1> SUFFICES ASSUME TypeOK, [Next]_vars PROVE UNCHANGED <<kind, surface>> /\ (torn => torn')
  BY DEF Claimed
<1> USE DEF fixed, past, history
<1>1. ASSUME User PROVE UNCHANGED <<kind, surface>> /\ (torn => torn')
  BY <1>1 DEF User, Open, Edit, Close, Discard, SendFromDialog, SendFromPage, TearDown
<1>2. ASSUME Toasts PROVE UNCHANGED <<kind, surface>> /\ (torn => torn')
  BY <1>2 DEF Toasts, ToastGoes, Undo, RestoreFailed, LetGo
<1>3. ASSUME Calls PROVE UNCHANGED <<kind, surface>> /\ (torn => torn')
  <2>1. ASSUME NEW s \in saves, SaveDraft(s) PROVE UNCHANGED <<kind, surface>> /\ (torn => torn')
    BY <2>1, SaveDraftDoes
  <2>2. ASSUME NEW s \in saves, SaveReturns(s) PROVE UNCHANGED <<kind, surface>> /\ (torn => torn')
    BY <2>2 DEF SaveReturns
  <2>3. ASSUME NEW p \in sends, Send(p) PROVE UNCHANGED <<kind, surface>> /\ (torn => torn')
    BY <2>3 DEF Send
  <2> QED BY <1>3, <2>1, <2>2, <2>3 DEF Calls
<1>4. ASSUME Timers PROVE UNCHANGED <<kind, surface>> /\ (torn => torn')
  BY <1>4 DEF Timers, Autosave, WindowEnds
<1>5. ASSUME UNCHANGED vars PROVE UNCHANGED <<kind, surface>> /\ (torn => torn')
  BY <1>5 DEF vars
<1> QED BY <1>1, <1>2, <1>3, <1>4, <1>5 DEF Next

LEMMA InitKept == Init => Writes
<1> SUFFICES ASSUME Init PROVE Writes
  OBVIOUS
<1>1. /\ form = Closed /\ url = 0 /\ ids = 0 /\ mails = 0 /\ edits = 0
      /\ {saves, drafts, pending, toasts, failures, sends, sent} = {{}}
      /\ latest = [m \in Mail |-> 0] /\ (surface = "page" => ~undoSend)
  BY DEF Init, Mail
<1>2. ~form.open /\ ~form.timer /\ ~form.sending /\ form.text = 0
  BY <1>1 DEF Closed
<1>3. NoneLost
  BY <1>1 DEF NoneLost
<1> QED BY <1>1, <1>2, <1>3 DEF Writes, Drawn, Begun, OneSave, OwnDraft, Written, OfDialog, OfPage,
  Payloads, SavedIsStored

LEMMA StoredIsSafe ==
  ASSUME NEW m, Stored(m) \/ (form.open /\ IsLast(m, form)) PROVE Safe(m)
<1>1. Sending \subseteq sends
  BY DEF Sending
<1> QED BY <1>1 DEF Stored, IsLast, Safe

\* The composer, its autosave and its close guard, the dialog's undo window and
\* toasts, sendMail and the drivers' drafts: whatever fails, and also if the user
\* writes during a save, the last edit of each mail is somewhere, if it has not
\* been put at risk.
THEOREM NothingIsLost == Spec => []NothingLost
<1>1. Init => KeptInv
  BY InitTypeOK, InitKept DEF KeptInv
<1>2. KeptInv /\ [Next]_vars => KeptInv'
  <2> SUFFICES ASSUME KeptInv, [Next]_vars PROVE KeptInv'
    OBVIOUS
  <2>1. TypeOK /\ TypeOK'
    BY NextTypeOK DEF KeptInv
  <2> QED BY <2>1, NextClaimed, NextKeeps DEF KeptInv
<1>3. KeptInv => NothingLost
  BY StoredIsSafe DEF KeptInv, Claimed, Writes, NoneLost, NothingLost
<1> QED BY <1>1, <1>2, <1>3, PTL DEF Spec

=============================================================================
