---------------------------- MODULE MailContent ----------------------------
(***************************************************************************)
(* The mails of a conversation as they are shown: MailDisplay opens and    *)
(* closes them, MailContent has each one's HTML processed on the server    *)
(* (processEmailContent) and shows it in a frame, with remote pictures or  *)
(* without, and useThread has the latest one processed ahead.  What was    *)
(* processed is kept by the query client.                                  *)
(*                                                                         *)
(* Every conversation is in the inbox of another account.  Its n-th mail   *)
(* has the UID n there, which is all that its id says at an IMAP host; at  *)
(* the others it is the only mail of its id.                               *)
(***************************************************************************)
EXTENDS Naturals

CONSTANTS
  Conv,        \* conversations
  None,        \* no conversation, no data, no card
  MaxMails,    \* bound: mails of a conversation
  Trusted,     \* numbers of the mails whose sender is one of trustedSenders
  MaxTurns,    \* bound: what the user does
  MaxChanges,  \* bound: mails that arrive, settings and themes that change
  MaxFaults    \* bound: requests that fail

VARIABLES
  ids,       \* whether ids are those of an IMAP host or of an API
  pictures,  \* by the number of a mail: what pictures it has
  here,      \* per conversation, the mails there are
  loading,   \* the conversations whose thread query is under way
  page,      \* what is rendered: threadId, the mails of each thread query (0: no
             \* data), expandedIds, the settings query, resolvedTheme
  card,      \* per id: None, or the state of the MailContent that has this key
  cache,     \* per ["email-content", ...]: whose HTML it has, whose was asked for
  counts,
  pressed    \* history: the open mails whose Show Images was pressed

vars == <<ids, pictures, here, loading, page, card, cache, counts, pressed>>

---------------------------------------------------------------------------

Number == 1..MaxMails
Mail == Conv \X Number
Pictures == {"pixel", "linked", "inline"}

\* encodeMessageId, or the id of an API
Id(m) == IF ids = "imap" THEN <<"inbox", m[2]>> ELSE m
AllIds == {Id(m) : m \in Mail}
Key == AllIds \X BOOLEAN \X {"light", "dark"}

Counts(c, bound) == counts[c] < bound /\ counts' = [counts EXCEPT ![c] = @ + 1]
Turn == Counts("turns", MaxTurns)
Change == Counts("changes", MaxChanges)
Fault == Counts("faults", MaxFaults)

Fresh == [temp |-> FALSE, notice |-> FALSE, data |-> None]
Nothing == [data |-> None, asked |-> None]

\* processEmailHtml: pictures of no size are taken out; linked ones are put aside
\* unless they are to load.
Preprocessed(m) == IF pictures[m[2]] = "pixel" THEN "none" ELSE pictures[m[2]]
Processed(m, images) == [of |-> m, blocked |-> ~images /\ Preprocessed(m) = "linked"]

---------------------------------------------------------------------------
(* What is on the screen when the page is p and the cards are c.           *)

\* The mails of MailDisplay, and those that isExpanded says are open
Listed(p) == IF p.thread = None THEN {} ELSE {<<p.thread, k>> : k \in 1..p.got[p.thread]}
Latest(p) == {m \in Listed(p) : m[2] = p.got[p.thread]}
Open(p) == {m \in Listed(p) : p.got[p.thread] = 1 \/ Id(m) \in p.expanded}

\* isTrustedSender, shouldLoadImages; imagesEnabled
Allowed(m, p) == p.external \/ m[2] \in Trusted
Enabled(m, p, c) == Allowed(m, p) \/ c[Id(m)].temp

\* Variant: whether with pictures or without.
KeyPlain(m, images, p) == <<Id(m), FALSE, p.theme>>
KeyOf(m, images, p) == <<Id(m), images, p.theme>>

\* The queries, by who has them: each open mail, and useThread for the latest one.
Queries(p, c) ==
  IF ~p.known \/ p.theme = "unknown" THEN {}
  ELSE {[who |-> Id(m), mail |-> m, images |-> Enabled(m, p, c)] : m \in Open(p)}
       \union {[who |-> None, mail |-> m, images |-> Allowed(m, p)] : m \in Latest(p)}
KeyAt(q, p) == KeyOf(q.mail, q.images, p)

\* Variant: whoever is mounted.
FetchedOnMount(p, c, store) ==
  LET old == Queries(page, card)
      new == {q \in Queries(p, c) : \A o \in old : o.who # q.who} IN
  [k \in Key |-> IF store[k] = Nothing /\ \E q \in new : KeyAt(q, p) = k
                   THEN [Nothing EXCEPT !.asked = CHOOSE q \in new : KeyAt(q, p) = k]
                   ELSE store[k]]
\* Whoever comes to a key without data has it fetched.
Fetched(p, c, store) ==
  LET old == Queries(page, card)
      new == {q \in Queries(p, c) : \A o \in old : o.who # q.who \/ KeyAt(o, page) # KeyAt(q, p)} IN
  [k \in Key |-> IF store[k] = Nothing /\ \E q \in new : KeyAt(q, p) = k
                   THEN [Nothing EXCEPT !.asked = CHOOSE q \in new : KeyAt(q, p) = k]
                   ELSE store[k]]

\* processedData
Data(m, p, c, store) ==
  IF p.theme = "unknown" THEN None ELSE store[KeyOf(m, Enabled(m, p, c), p)].data

\* Variant: what is there when the mail is opened puts no notice up.
NoticedLater(x, images, data) ==
  [x EXCEPT !.data = data,
            !.notice = ~images /\ (@ \/ (x # Fresh /\ data # None /\ data # x.data /\ data.blocked))]
\* The effects of MailContent: new data with blocked pictures puts the notice up,
\* pictures that are enabled take it down.
Noticed(x, images, data) ==
  [x EXCEPT !.data = data,
            !.notice = ~images /\ (@ \/ (data # None /\ data # x.data /\ data.blocked))]

\* The mails open at the first rendering, with the expandedIds e there were, and
\* still after the effect that resets them
Still(p, e) == Open(p) \intersect Open([p EXCEPT !.expanded = e])
\* A card stays as it is while its key stays in the list.
Mounted(p, e, c) ==
  [i \in AllIds |-> IF \A m \in Open(p) : Id(m) # i THEN None
                    ELSE IF c[i] # None /\ \E m \in Still(p, e) : Id(m) = i THEN c[i] ELSE Fresh]

\* The page becomes p with the cards c and the queries' data store; e: the
\* expandedIds it is first rendered with.
Rendered(p, e, c, store) ==
  LET cards == Mounted(p, e, c) IN
  /\ page' = p
  /\ card' = [i \in AllIds |->
       IF \E m \in Open(p) : Id(m) = i
         THEN LET m == CHOOSE m \in Open(p) : Id(m) = i IN
              Noticed(cards[i], Enabled(m, p, cards), Data(m, p, cards, store))
         ELSE cards[i]]
  /\ cache' = Fetched(p, cards, store)
Render(p, e, c, store) == Rendered(p, e, c, store) /\ pressed' = pressed \intersect Still(p, e)

\* setExpandedIds, when the conversation or the number of its mails changes
Reset(p) == [p EXCEPT !.expanded = IF Listed(p) = {} THEN @ ELSE {Id(m) : m \in Latest(p)}]

---------------------------------------------------------------------------
(* The user. *)

\* Data an hour old is fetched again.
OpenThread(t) ==
  /\ t # page.thread /\ Turn
  /\ Render(Reset([page EXCEPT !.thread = t]), page.expanded, card, cache)
  /\ \/ loading' = loading \union {t}
     \/ page.got[t] > 0 /\ UNCHANGED loading
  /\ UNCHANGED <<ids, pictures, here>>

CloseThread ==
  /\ page.thread # None /\ Turn
  /\ Render([page EXCEPT !.thread = None], page.expanded, card, cache)
  /\ UNCHANGED <<ids, pictures, here, loading>>

toggleExpanded(m) ==
  /\ m \in Listed(page) /\ page.got[page.thread] > 1 /\ Turn
  /\ LET e == IF Id(m) \in page.expanded THEN page.expanded \ {Id(m)} ELSE page.expanded \union {Id(m)} IN
       Render([page EXCEPT !.expanded = e], e, card, cache)
  /\ UNCHANGED <<ids, pictures, here, loading>>

ShowImages(m) ==
  /\ m \in Open(page) /\ card[Id(m)].notice /\ ~Enabled(m, page, card) /\ Turn
  /\ Rendered(page, page.expanded, [card EXCEPT ![Id(m)].temp = TRUE], cache)
  /\ pressed' = pressed \union {m}
  /\ UNCHANGED <<ids, pictures, here, loading>>

\* The theme toggle, and the switch of the settings once it is saved
ChooseTheme ==
  /\ page.theme # "unknown" /\ Change
  /\ \E th \in {"light", "dark"} \ {page.theme} : Render([page EXCEPT !.theme = th], page.expanded, card, cache)
  /\ UNCHANGED <<ids, pictures, here, loading>>

ChooseImages ==
  /\ page.known /\ Change
  /\ Render([page EXCEPT !.external = ~@], page.expanded, card, cache)
  /\ UNCHANGED <<ids, pictures, here, loading>>

---------------------------------------------------------------------------
(* The queries and the frame. *)

MailArrives(t) ==
  /\ here[t] < MaxMails /\ Change
  /\ here' = [here EXCEPT ![t] = @ + 1]
  /\ UNCHANGED <<ids, pictures, loading, page, card, cache, pressed>>

\* The open conversation is fetched again once it is stale and something mounts its
\* query, or a star on the search page invalidates it.
Refetch ==
  /\ page.thread # None /\ page.thread \notin loading /\ here[page.thread] > page.got[page.thread]
  /\ loading' = loading \union {page.thread}
  /\ UNCHANGED <<ids, pictures, here, page, card, cache, counts, pressed>>

getThread(t) ==
  /\ t \in loading /\ loading' = loading \ {t}
  /\ \/ LET p == [page EXCEPT !.got[t] = here[t]] IN
        /\ Render(IF t = page.thread /\ p # page THEN Reset(p) ELSE p, page.expanded, card, cache)
        /\ UNCHANGED counts
     \/ Fault /\ UNCHANGED <<page, card, cache, pressed>>
  /\ UNCHANGED <<ids, pictures, here>>

getSettings ==
  /\ ~page.known
  /\ \E b \in BOOLEAN : Render([page EXCEPT !.known = TRUE, !.external = b], page.expanded, card, cache)
  /\ UNCHANGED <<ids, pictures, here, loading, counts>>

Hydrate ==
  /\ page.theme = "unknown"
  /\ \E th \in {"light", "dark"} : Render([page EXCEPT !.theme = th], page.expanded, card, cache)
  /\ UNCHANGED <<ids, pictures, here, loading, counts>>

\* processEmailContent
Answer(k) ==
  LET q == cache[k].asked IN
  /\ q # None
  /\ Render(page, page.expanded, card, [cache EXCEPT ![k] = [data |-> Processed(q.mail, q.images), asked |-> None]])
  /\ UNCHANGED <<ids, pictures, here, loading, counts>>

ContentFails(k) ==
  /\ cache[k].asked # None /\ Fault
  /\ cache' = [cache EXCEPT ![k] = Nothing]
  /\ UNCHANGED <<ids, pictures, here, loading, page, card, pressed>>

\* gcTime
Forget(k) ==
  /\ cache[k].data # None /\ \A q \in Queries(page, card) : KeyAt(q, page) # k
  /\ \A m \in Open(page) : KeyOf(m, Enabled(m, page, card), page) # k
  /\ cache' = [cache EXCEPT ![k] = Nothing]
  /\ UNCHANGED <<ids, pictures, here, loading, page, card, counts, pressed>>

\* onMessage: a picture of the frame could not load, and may not.
ImageBlocked(m) ==
  /\ m \in Open(page) /\ card[Id(m)].data # None
  /\ Preprocessed(card[Id(m)].data.of) = "inline" /\ ~Enabled(m, page, card)
  /\ card' = [card EXCEPT ![Id(m)].notice = TRUE]
  /\ UNCHANGED <<ids, pictures, here, loading, page, cache, counts, pressed>>

---------------------------------------------------------------------------

Init ==
  /\ ids \in {"imap", "api"} /\ pictures \in [Number -> Pictures]
  /\ here = [t \in Conv |-> 1] /\ loading = {} /\ pressed = {}
  /\ page = [thread |-> None, got |-> [t \in Conv |-> 0], expanded |-> {},
             known |-> FALSE, external |-> FALSE, theme |-> "unknown"]
  /\ card = [i \in AllIds |-> None] /\ cache = [k \in Key |-> Nothing]
  /\ counts = [turns |-> 0, changes |-> 0, faults |-> 0]

User ==
  \/ \E t \in Conv : OpenThread(t)
  \/ \E m \in Mail : toggleExpanded(m) \/ ShowImages(m)
  \/ CloseThread \/ ChooseTheme \/ ChooseImages
Comes ==
  \/ \E t \in Conv : getThread(t)
  \/ \E k \in Key : Answer(k)
  \/ getSettings \/ Hydrate
Next ==
  \/ User \/ Comes \/ Refetch
  \/ \E t \in Conv : MailArrives(t)
  \/ \E k \in Key : ContentFails(k) \/ Forget(k)
  \/ \E m \in Mail : ImageBlocked(m)

Spec == Init /\ [][Next]_vars

---------------------------------------------------------------------------
(* The frame under a mail's header. *)

Shown(m) == card[Id(m)].data
\* buildFrameDocument: the frame's policy lets pictures load when they are enabled.
Loads(m) == Shown(m) # None /\ ~Shown(m).blocked /\ Enabled(m, page, card)

---------------------------------------------------------------------------
(* Properties. *)

\* mail-content.tsx: a mail is shown with its pictures if the settings or the
\* trust in its sender say so, or Show Images was pressed since it was opened,
\* and else without, whatever was processed, kept or shown before.
PicturesAsChosen ==
  ids = "api" =>
    \A m \in Open(page) :
      Shown(m) # None => (Loads(m) <=> (Allowed(m, page) \/ m \in pressed))

\* mail-content.tsx: where pictures are put aside, the notice with Show Images is up.
NoticeOffers == \A m \in Open(page) : Shown(m) # None /\ Shown(m).blocked => card[Id(m)].notice

\* mail-content.tsx: an open mail that is not shown is being processed, though
\* settings or theme come late or change; but for requests that failed.
BeingProcessed ==
  page.known /\ page.theme # "unknown" /\ counts.faults = 0 =>
    \A m \in Open(page) : Shown(m) # None \/ cache[KeyOf(m, Enabled(m, page, card), page)].asked # None

\* mail-content.tsx: an open mail is being processed or shown, with its pictures as
\* settings, trust and Show Images say, and Show Images is offered if any are missing.
ShownAsChosen == PicturesAsChosen /\ NoticeOffers /\ BeingProcessed

\* mail-display.tsx: under a mail's header is that mail.
OwnContent == \A m \in Open(page) : Shown(m) # None => Shown(m).of = m
=============================================================================
