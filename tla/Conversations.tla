--------------------------- MODULE Conversations ---------------------------
(***************************************************************************)
(* Mail grouped into conversations, read and answered: listThreads,        *)
(* getThread, getMessageAttachments and the moves of transport/imap.ts,    *)
(* sendEmail of transport/smtp.ts, get, create and createDraft of          *)
(* driver/google.ts, the actions over them in actions/mail.ts, and in the  *)
(* client useThread and useReplyActions.                                   *)
(*                                                                         *)
(* A mail is numbered in the order of the dates; the number is its         *)
(* Message-ID.  Peers answer as mail clients do: the References of the     *)
(* answer are those of what it answers, and its Message-ID.  Some only     *)
(* say In-Reply-To.  Graph lists and gets single messages and has no       *)
(* conversations to speak of.                                              *)
(***************************************************************************)
EXTENDS Naturals, Sequences, FiniteSets

CONSTANTS
  Kinds,      \* "copy" (iCloud, custom hosts), "saved" (Yahoo), "gmail"
  Accounts,   \* the user's accounts; 1 is the active one
  MaxMail,    \* bound: mails and copies of them
  MaxMoves    \* bound: conversations archived or deleted

VARIABLES
  kind,
  mail,     \* the mails of everybody, oldest first
  nextUid,  \* per account and folder, the UID of the next mail put there
  thread,   \* the open conversation, 0 for none
  cache,    \* the thread queries: per conversation what getThread said
  reply,    \* the composer: NoReply, or the conversation and its References
  moves,    \* what the bound counts
  mixed     \* history: an attachment of another mail has been shown

vars == <<kind, mail, nextUid, thread, cache, reply, moves, mixed>>
client == <<thread, cache, reply, mixed>>

---------------------------------------------------------------------------

Folder == {"inbox", "archive", "sent", "drafts", "trash", "none"}  \* none: not in the account
Ids == 1..MaxMail
Mail == DOMAIN mail
Missing == [here |-> FALSE, mails |-> {}]
NoReply == [conv |-> 0, refs |-> {}, root |-> 0, draft |-> FALSE]

\* getThreadRoot: what heads the References, or the mail itself.  Gmail keeps a
\* conversation for every mail, that of the mail it answers if it answers one.
Root(refs, own, said) == IF refs = {} /\ kind # "gmail" THEN own ELSE said

In(a, f) == {i \in Mail : mail[i].acct = a /\ mail[i].folder = f}

\* listThreads: the groups of a folder's mails
Row(a, f, r) == {i \in In(a, f) : mail[i].root = r}
Rows(a, f) == {mail[i].root : i \in In(a, f)}

\* searchThreadUids.
Search(a, f, r) == {i \in In(a, f) : i = r \/ r \in mail[i].refs}

\* getThread: the inbox and what was sent or, with nothing in the inbox, every
\* folder.
GetImap(a, r) ==
  IF Search(a, "inbox", r) # {} THEN Search(a, "inbox", r) \cup Search(a, "sent", r)
  ELSE UNION {Search(a, f, r) : f \in Folder \ {"inbox", "none"}}

\* Gmail knows the conversation's mails.
GetGmail(a, r) == {i \in Mail : mail[i].acct = a /\ mail[i].root = r /\ mail[i].folder # "none"}

Get(a, r) == IF kind = "gmail" THEN GetGmail(a, r) ELSE GetImap(a, r)

\* parsedMailToMessage, parse: a mail as shown, by its UID and folder
Shown(S) == {[id |-> i, uid |-> mail[i].uid, folder |-> mail[i].folder] : i \in S}

\* A mail comes into a folder.
Put(m) ==
  /\ Len(mail) < MaxMail
  /\ mail' = Append(mail, [m EXCEPT !.uid = nextUid[m.acct][m.folder]])
  /\ nextUid' = [nextUid EXCEPT ![m.acct][m.folder] = @ + 1]

\* conv: the conversation it was written in, if one was open; answers: the mail
\* a peer's answers, or a copy is of; peers: it is known to the peers.
NewMail(a, f, by, refs, root, conv, answers) ==
  [acct |-> a, folder |-> f, by |-> by, refs |-> refs, root |-> root, conv |-> conv,
   answers |-> answers, uid |-> 0, draft |-> FALSE, peers |-> TRUE]

Own == Len(mail) + 1

---------------------------------------------------------------------------
(* The peers. *)

PeerWrites(a) ==
  /\ Put(NewMail(a, "inbox", "peer", {}, Own, 0, 0))
  /\ UNCHANGED <<kind, client, moves>>

PeerAnswers(i) ==
  LET m == mail[i]
      refs == m.refs \cup {i} IN
  /\ m.peers
  /\ Put(NewMail(m.acct, "inbox", "peer", refs, m.root, m.conv, i))
  /\ UNCHANGED <<kind, client, moves>>

PeerAnswersShort(i) ==
  /\ mail[i].peers
  /\ Put(NewMail(mail[i].acct, "inbox", "peer", {}, Root({}, Own, mail[i].root), 0, 0))
  /\ UNCHANGED <<kind, client, moves>>

---------------------------------------------------------------------------
(* Reading. *)

\* A row is opened: useThread fetches what it does not have (staleTime).
Open(a, f, r) ==
  /\ r \in Rows(a, f) /\ thread # r
  /\ thread' = r
  /\ cache' = IF cache[r] = Missing THEN [cache EXCEPT ![r] = [here |-> TRUE, mails |-> Shown(Get(a, r))]] ELSE cache
  /\ UNCHANGED <<kind, mail, nextUid, reply, moves, mixed>>

Close ==
  /\ thread # 0 /\ thread' = 0
  /\ UNCHANGED <<kind, mail, nextUid, cache, reply, moves, mixed>>

\* The hour is over, or markOtherCachesStale: the next one to open it fetches.
Outdate(r) ==
  /\ cache[r] # Missing /\ thread # r
  /\ cache' = [cache EXCEPT ![r] = Missing]
  /\ UNCHANGED <<kind, mail, nextUid, thread, reply, moves, mixed>>

\* openMessageFolder: the UID in the folder the message id names, and of the
\* account that is active.
Found(x) == {i \in In(1, x.folder) : mail[i].uid = x.uid}

\* getMessageAttachments; Gmail's ids stay what they are.
Attached(x) == IF kind = "gmail" THEN {x.id} ELSE Found(x)

\* AttachmentCard.resolveBody, getMessageAttachments
Download(x) ==
  /\ thread # 0 /\ x \in cache[thread].mails
  /\ mixed' = (mixed \/ ~(Attached(x) \subseteq {x.id}))
  /\ UNCHANGED <<kind, mail, nextUid, thread, cache, reply, moves>>

---------------------------------------------------------------------------
(* Answering. *)

Latest(S) == CHOOSE i \in S : \A j \in S : j <= i

\* useThread: the mails of the conversation without its drafts
Letters(S) == {x.id : x \in {y \in S : ~mail[y.id].draft}}

\* buildReplyHeaders.  Variant: only the mail answered.
HeadersOne(i) == [refs |-> {i}, root |-> i]
Headers(i) == [refs |-> mail[i].refs \cup {i}, root |-> IF mail[i].refs = {} THEN i ELSE mail[i].root]

\* handleReply, handleReplyAll: the composer opens on the latest mail.
Reply ==
  /\ thread # 0 /\ reply = NoReply
  /\ Letters(cache[thread].mails) # {}
  /\ LET i == Latest(Letters(cache[thread].mails)) IN
       reply' = [conv |-> thread, refs |-> Headers(i).refs,
                 root |-> IF kind = "gmail" THEN thread ELSE Headers(i).root, draft |-> FALSE]
  /\ UNCHANGED <<kind, mail, nextUid, thread, cache, moves, mixed>>

\* createDraft: at Gmail in the conversation that is open; an IMAP draft
\* refers to nothing and is in a folder getThread shows of no conversation.
Save ==
  /\ reply # NoReply /\ ~reply.draft /\ kind = "gmail" /\ thread # 0
  /\ Put([NewMail(1, "drafts", "me", {}, thread, 0, 0) EXCEPT !.draft = TRUE, !.peers = FALSE])
  /\ reply' = [reply EXCEPT !.draft = TRUE]
  /\ UNCHANGED <<kind, thread, cache, moves, mixed>>

\* Yahoo and Gmail keep what they have sent.
SentKept(refs, root, conv) == Put(NewMail(1, "sent", "me", refs, Root(refs, Own, root), conv, 0))

\* sendEmail: buildRawMessage makes the copy for the Sent folder a mail of its
\* own, with a Message-ID nobody else knows.
SentCopied(refs, root, conv) ==
  /\ Len(mail) + 2 <= MaxMail
  /\ mail' = mail \o
       <<NewMail(1, "none", "me", refs, Root(refs, Own, root), conv, 0),
         [NewMail(1, "sent", "me", refs, Root(refs, Own + 1, root), conv, Own)
            EXCEPT !.uid = nextUid[1]["sent"], !.peers = FALSE]>>
  /\ nextUid' = [nextUid EXCEPT ![1]["sent"] = @ + 1]

Sent(refs, root, conv) ==
  IF kind = "copy" THEN SentCopied(refs, root, conv) ELSE SentKept(refs, root, conv)

Write ==
  /\ Sent({}, Own, 0)
  /\ UNCHANGED <<kind, client, moves>>

\* sendMail with the reply's headers, as sanitizeClientHeaders leaves them
Send ==
  /\ reply # NoReply
  /\ Sent(reply.refs, reply.root, reply.conv)
  /\ reply' = NoReply
  /\ UNCHANGED <<kind, thread, cache, moves, mixed>>

Discard ==
  /\ reply # NoReply /\ reply' = NoReply
  /\ UNCHANGED <<kind, mail, nextUid, thread, cache, moves, mixed>>

---------------------------------------------------------------------------
(* Moving. *)

\* messageMove: the mails get UIDs of the folder they come into.
Move(a, S, f) ==
  /\ S # {} /\ moves < MaxMoves /\ moves' = moves + 1
  /\ mail' = [i \in Mail |->
       IF i \notin S THEN mail[i]
       ELSE [mail[i] EXCEPT !.folder = f, !.uid = nextUid[a][f] + Cardinality({j \in S : j < i})]]
  /\ nextUid' = [nextUid EXCEPT ![a][f] = @ + Cardinality(S)]
  /\ UNCHANGED <<kind, client>>

\* modifyLabels without INBOX: from every folder, what was sent as well.
\* Gmail takes the label off.
Archive(a, r) ==
  /\ r \in Rows(a, "inbox")
  /\ Move(a, IF kind = "gmail" THEN Row(a, "inbox", r)
             ELSE UNION {Search(a, f, r) : f \in Folder \ {"archive", "none"}}, "archive")

\* deleteMessages, threads.trash
Delete(a, r) ==
  /\ r \in Rows(a, "inbox")
  /\ Move(a, IF kind = "gmail" THEN Get(a, r)
             ELSE UNION {Search(a, f, r) : f \in Folder \ {"trash", "none"}}, "trash")

---------------------------------------------------------------------------

Init ==
  /\ kind \in Kinds
  /\ mail = <<>> /\ nextUid = [a \in Accounts |-> [f \in Folder |-> 1]]
  /\ thread = 0 /\ cache = [r \in Ids |-> Missing] /\ reply = NoReply
  /\ moves = 0 /\ mixed = FALSE

Peers == \/ \E a \in Accounts : PeerWrites(a)
         \/ \E i \in Mail : PeerAnswers(i) \/ PeerAnswersShort(i)
Reads == \/ \E a \in Accounts, f \in Folder \ {"drafts", "none"}, r \in Mail : Open(a, f, r)
         \/ Close \/ \E r \in Mail : Outdate(r)
         \/ thread # 0 /\ \E x \in cache[thread].mails : Download(x)
Answers == Reply \/ Save \/ Write \/ Send \/ Discard
Moves == \E a \in Accounts, r \in Mail : Archive(a, r) \/ Delete(a, r)

Next == Peers \/ Reads \/ Answers \/ Moves

Spec == Init /\ [][Next]_vars

---------------------------------------------------------------------------
(* Properties. *)

\* A row of the inbox or of what was sent opens to every mail it stands for;
\* a row of another folder does unless the inbox has mail of the conversation,
\* for getThread looks into the inbox first.
ListedIsShown ==
  \A a \in Accounts, f \in Folder \ {"drafts", "none"} : \A r \in Rows(a, f) :
    \/ Row(a, f, r) \subseteq Get(a, r)
    \/ f \in {"archive", "trash"} /\ Search(a, "inbox", r) # {}

\* What the user answers in an open conversation is shown in it, and so is what
\* peers answer to that: References that begin where the conversation does find
\* the mail in the inbox and the Sent folder, whatever was answered and however
\* old the fetched conversation was (buildReplyHeaders, searchThreadUids).
ReplyJoins ==
  \A i \in Mail : mail[i].conv # 0 /\ mail[i].folder \in {"inbox", "sent"} =>
    i \in Get(mail[i].acct, mail[i].conv)

\* An attachment shown under a mail is that mail's, although the conversation
\* was fetched up to an hour ago and its mails may have been moved since, to
\* where their UIDs are others (encodeMessageId, openMessageFolder).
AttachmentsMatch == ~mixed

\* smtp.ts has "a copy" of outgoing mail appended to the Sent folder: the
\* conversation of a peer's answer shows the mail that it answers.
OwnMailShown ==
  \A i, k \in Mail :
    (/\ mail[i].by = "peer" /\ mail[i].folder = "inbox" /\ mail[i].answers # 0
     /\ mail[k].by = "me" /\ mail[k].folder = "sent"
     /\ mail[i].answers \in {k, mail[k].answers}) => k \in Get(mail[i].acct, mail[i].root)
============================================================================
