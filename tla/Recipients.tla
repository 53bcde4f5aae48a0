----------------------------- MODULE Recipients -----------------------------
(***************************************************************************)
(* The people the user writes to: the rows that every mail sent adds or    *)
(* counts, RecipientInput, which proposes them while an address is typed,  *)
(* and the contacts page, which lists and edits them.  All of them call    *)
(* the server functions of one tab, which Next runs one after the other.   *)
(*                                                                         *)
(* A text typed or searched has two characters or more, or is None; which  *)
(* addresses and names contain it is the constant Matching.  There are     *)
(* fewer contacts than the ten a search and the fifty a list return.       *)
(***************************************************************************)
EXTENDS Naturals, Sequences, SequencesExt

CONSTANTS
  Address, Name, Text,
  Matching,   \* the pairs of an address or a name and a text it contains
  None,       \* no row, no name, no text
  MaxTyped,   \* bound: edits of the field
  MaxEdits,   \* bound: contacts added, changed or removed
  MaxViews,   \* bound: searches of the contacts page
  MaxSends,   \* bound: mails sent
  MaxFaults   \* bound: calls that fail

VARIABLES
  rows,     \* the recipients in the database: frequency and name
  chosen,   \* the entries of the field that a comma ends
  token,    \* the last one, which is being typed
  timer,    \* the text the debounce will search for
  sugg,     \* the suggestions, the text they answer, whether they are shown
  lists,    \* ["contacts", query]: the list and whether it is stale
  query,    \* the query of the contacts page
  queue,    \* the calls of server functions
  told,     \* what the contacts page last said, and what had been done
  counts

field == <<chosen, token, timer, sugg>>
page == <<lists, query, told>>
vars == <<rows, chosen, token, timer, sugg, lists, query, queue, told, counts>>

Query == Text \union {None}
NoSuggestions == [found |-> {}, of |-> None, shown |-> FALSE]
Call(kind) == [kind |-> kind, text |-> None, of |-> None, name |-> None, to |-> {}]
Counts(c, bound) == counts[c] < bound /\ counts' = [counts EXCEPT ![c] = @ + 1]
Later(call) == queue' = Append(queue, call)

Has(a, t) == <<a, t>> \in Matching \/ <<rows[a].name, t>> \in Matching
searchRecipients(q) == {a \in Address : rows[a] # None /\ (q = None \/ Has(a, q))}
listContacts(q) == [a \in searchRecipients(q) |-> rows[a].name]

---------------------------------------------------------------------------
(* RecipientInput. *)

\* The effect on the field's value: the debounce begins anew; what was asked
\* before is not called off.
Edited(c, t) ==
  /\ chosen' = c /\ token' = t /\ timer' = t
  /\ sugg' = IF t = None THEN NoSuggestions ELSE sugg

Type ==
  /\ Counts("typed", MaxTyped)
  /\ \E t \in Query \ {token} : Edited(chosen, t)
  /\ UNCHANGED <<rows, page, queue>>

Comma ==
  /\ token # None /\ Counts("typed", MaxTyped) /\ Edited(Append(chosen, token), None)
  /\ UNCHANGED <<rows, page, queue>>

Debounced ==
  /\ timer # None /\ timer' = None /\ Later([Call("search") EXCEPT !.text = timer])
  /\ UNCHANGED <<rows, chosen, token, sugg, page, counts>>

\* selectSuggestion: the last entry that is not empty makes room for the address.
Entries == IF token = None THEN chosen ELSE Append(chosen, token)
Select(a) ==
  /\ sugg.shown /\ a \in sugg.found
  /\ chosen' = Append(IF Entries = <<>> THEN <<>> ELSE Front(Entries), a)
  /\ token' = None /\ timer' = None /\ sugg' = NoSuggestions
  /\ UNCHANGED <<rows, page, queue, counts>>

\* Escape, a click elsewhere, the field's focus
Toggle ==
  /\ sugg.found # {} /\ sugg' = [sugg EXCEPT !.shown = ~@]
  /\ UNCHANGED <<rows, chosen, token, timer, page, queue, counts>>

\* The form takes addresses only; it is reset when the mail has been sent.
sendEmail ==
  /\ Entries # <<>> /\ Range(Entries) \subseteq Address /\ Counts("sends", MaxSends)
  /\ Later([Call("send") EXCEPT !.to = Range(Entries)])
  /\ chosen' = <<>> /\ token' = None /\ timer' = None /\ sugg' = NoSuggestions
  /\ UNCHANGED <<rows, page>>

---------------------------------------------------------------------------
(* ContactsPage and useContacts. *)

\* What is listed is fetched when it is stale, or a minute old.
Look(q, asked) == IF asked THEN Later([Call("list") EXCEPT !.text = q]) ELSE UNCHANGED queue
Search ==
  /\ Counts("views", MaxViews)
  /\ \E q \in Query \ {query}, old \in BOOLEAN :
       query' = q /\ Look(q, old \/ lists[q].data = None \/ lists[q].stale)
  /\ UNCHANGED <<rows, field, lists, told>>

\* AddContactDialog, and the rows of ContactsTable that are listed
Change ==
  /\ Counts("edits", MaxEdits)
  /\ \/ \E a \in Address, n \in Name \union {None} :
          Later([Call("create") EXCEPT !.of = a, !.name = n])
     \/ /\ lists[query].data # None
        /\ \E a \in DOMAIN lists[query].data :
             \/ \E n \in Name \union {None} : Later([Call("update") EXCEPT !.of = a, !.name = n])
             \/ Later([Call("delete") EXCEPT !.of = a])
  /\ UNCHANGED <<rows, field, page>>

---------------------------------------------------------------------------
(* The server functions, and what the page does with their answers. *)

New(n, frequency) == [name |-> n, frequency |-> frequency]
upsertRecipient(row) == IF row = None THEN New(None, 1) ELSE [row EXCEPT !.frequency = @ + 1]

\* The rows after a call; an address is unique.
After(c) ==
  [a \in Address |->
     CASE c.kind = "send" /\ a \in c.to -> upsertRecipient(rows[a])
       [] c.kind = "create" /\ a = c.of /\ rows[a] = None -> New(c.name, 0)
       [] c.kind = "update" /\ a = c.of /\ rows[a] # None -> [rows[a] EXCEPT !.name = c.name]
       [] c.kind = "delete" /\ a = c.of -> None
       [] OTHER -> rows[a]]

Serve(kinds) == queue # <<>> /\ Head(queue).kind \in kinds

Answer ==
  /\ Serve({"search"}) /\ queue' = Tail(queue)
  /\ LET found == searchRecipients(Head(queue).text) IN
       \/ sugg' = [found |-> found, of |-> Head(queue).text, shown |-> found # {}] /\ UNCHANGED counts
       \/ sugg' = NoSuggestions /\ Counts("faults", MaxFaults)
  /\ UNCHANGED <<rows, chosen, token, timer, page>>

List ==
  /\ Serve({"list"}) /\ queue' = Tail(queue)
  /\ LET q == Head(queue).text IN
       \/ lists' = [lists EXCEPT ![q] = [data |-> listContacts(q), stale |-> FALSE]] /\ UNCHANGED counts
       \/ UNCHANGED lists /\ Counts("faults", MaxFaults)
  /\ UNCHANGED <<rows, field, query, told>>

\* Promise.allSettled: a recipient that cannot be counted is not.
Sent ==
  /\ Serve({"send"}) /\ queue' = Tail(queue)
  /\ \/ rows' = After(Head(queue)) /\ UNCHANGED counts
     \/ rows' = rows /\ Counts("faults", MaxFaults)
  /\ UNCHANGED <<field, page>>

Refused(c) == c.kind = "create" /\ rows[c.of] # None

\* Variant: only the list that is shown.
InvalidatedShown == [lists EXCEPT ![query].stale = TRUE]
\* invalidateQueries(["contacts"]): all lists, and the one shown is fetched.
Invalidated == [q \in Query |-> [lists[q] EXCEPT !.stale = TRUE]]

Changed ==
  /\ Serve({"create", "update", "delete"}) /\ ~Refused(Head(queue))
  /\ rows' = After(Head(queue)) /\ lists' = Invalidated
  /\ queue' = Append(Tail(queue), [Call("list") EXCEPT !.text = query])
  /\ told' = [said |-> Head(queue).kind, done |-> TRUE]
  /\ UNCHANGED <<field, query, counts>>

\* The page says that it failed, and for an update or a deletion the table then
\* says that it was done.  The call may have been done all the same.
ChangeFails ==
  LET c == Head(queue) IN
  /\ Serve({"create", "update", "delete"}) /\ queue' = Tail(queue)
  /\ \/ Refused(c) /\ UNCHANGED <<rows, counts>>
     \/ rows' \in {rows, After(c)} /\ Counts("faults", MaxFaults)
  /\ told' = [said |-> IF c.kind = "create" THEN "failed" ELSE c.kind, done |-> rows' = After(c)]
  /\ UNCHANGED <<field, lists, query>>

Init ==
  /\ rows \in [Address -> {None, New(None, 1)}]
  /\ chosen = <<>> /\ token = None /\ timer = None /\ sugg = NoSuggestions
  /\ lists = [q \in Query |-> [data |-> None, stale |-> FALSE]] /\ query = None
  /\ queue = <<[Call("list") EXCEPT !.text = None]>> /\ told = [said |-> "failed", done |-> FALSE]
  /\ counts = [typed |-> 0, edits |-> 0, views |-> 0, sends |-> 0, faults |-> 0]

Next ==
  \/ Type \/ Comma \/ Debounced \/ Toggle \/ sendEmail \/ \E a \in Address : Select(a)
  \/ Search \/ Change \/ Answer \/ List \/ Sent \/ Changed \/ ChangeFails

Spec == Init /\ [][Next]_vars

---------------------------------------------------------------------------
(* Properties. *)

\* use-contacts.ts: when nothing failed, whoever a list names that is not about to
\* be fetched is a contact and has that name, also in the lists of other searches
\* made before the change.
ListedAsStored ==
  counts.faults = 0 => \A q \in Query :
    (q # query \/ \A i \in 1 .. Len(queue) : queue[i].kind # "list" \/ queue[i].text # q) =>
      LET l == lists[q] IN
      ~l.stale /\ l.data # None =>
        \A a \in DOMAIN l.data : rows[a] # None /\ rows[a].name = l.data[a]

\* recipient-input.tsx: choosing a suggestion replaces what is being typed; the
\* entries chosen before stay.
ChosenKept == [][\A a \in Address : Select(a) => IsPrefix(chosen, chosen')]_vars

\* recipient-input.tsx: the suggestions shown are those for what is typed.
SuggestionsMatch == sugg.shown => sugg.of = token

\* contacts-table.tsx: "Contact updated" and "Removed" are said of what was done.
ToldTruth == told.said # "failed" => told.done
=============================================================================
