------------------------------- MODULE Labels -------------------------------
(***************************************************************************)
(* What a change of labels means to a provider: the arguments of the       *)
(* MailManager operations modifyLabels, markAsRead and markAsUnread, and   *)
(* what each of the providers makes of a message that has them applied.    *)
(***************************************************************************)
EXTENDS FiniteSets

Folders == {"INBOX", "SENT", "TRASH", "ARCHIVE"}
Tags == {"STARRED", "IMPORTANT"}
Label == Folders \union Tags \union {"UNREAD"}

Kind == {"gmail", "graph", "imap"}

\* The changes the server actions ask for.
ChangeOf ==
  [archive   |-> [add |-> {}, remove |-> {"INBOX"}],
   unarchive |-> [add |-> {"INBOX"}, remove |-> {}],
   trash     |-> [add |-> {"TRASH"}, remove |-> {}],
   delete    |-> [add |-> {"TRASH"}, remove |-> {}],
   star      |-> [add |-> {"STARRED"}, remove |-> {}],
   unstar    |-> [add |-> {}, remove |-> {"STARRED"}],
   important |-> [add |-> {"IMPORTANT"}, remove |-> {}],
   read      |-> [add |-> {}, remove |-> {"UNREAD"}],
   unread    |-> [add |-> {"UNREAD"}, remove |-> {}]]

\* IMAP has one flag for both tags.
Tag(k, labels) ==
  IF k = "imap" /\ labels \intersect Tags # {} THEN (labels \ Tags) \union {"STARRED"} ELSE labels

\* Where a message goes: with folders there is one place, and one that leaves the
\* inbox, or any other, for nowhere goes to the archive.
Place(add, remove, labels) ==
  IF add \intersect Folders # {} THEN add \intersect Folders
  ELSE IF remove \intersect Folders # {} THEN {"ARCHIVE"}
  ELSE labels \intersect Folders

\* The labels of a message with labels after change ch.
Changed(k, ch, labels) ==
  LET add == Tag(k, ChangeOf[ch].add)
      remove == Tag(k, ChangeOf[ch].remove)
      after == (labels \union add) \ remove
  IN IF k = "gmail" THEN after ELSE (after \ Folders) \union Place(add, remove, labels)

\* What of a message's labels a driver goes by for the length of a change: the
\* categories Graph has read, and the folder that IMAP looks for it in.
Footing(k, labels) ==
  CASE k = "graph" -> labels \intersect Tags
    [] k = "imap"  -> labels \intersect Folders
    [] OTHER       -> {}

IsReadMark(ch) == ch \in {"read", "unread"}
IsTagging(ch) == (ChangeOf[ch].add \union ChangeOf[ch].remove) \subseteq Tags
=============================================================================
