------------------------------ MODULE Sessions ------------------------------
(***************************************************************************)
(* Who is signed in to a browser, and whose mail its caches hold: the      *)
(* proxy's check of every request, the session a page is rendered with and *)
(* its check in the background, the query cache of each tab, its copy in   *)
(* IndexedDB (createIDBPersister) tagged with the owner cookie zm-uid, the *)
(* sync store of each user, signing in and out.                            *)
(*                                                                         *)
(* A cache is the set of the users whose mail is in it.                    *)
(***************************************************************************)
EXTENDS Naturals

CONSTANTS
  User, Tab,
  None,       \* no user, no page, nothing stored
  Login,      \* the login page
  MaxTurns,   \* bound: pages loaded and closed, sign-ins and sign-outs
  MaxFaults   \* bound: sessions revoked, calls that fail

VARIABLES
  cookies,  \* session_token, session_data (the cookie cache) and zm-uid
  alive,    \* whether the server still has the token's session
  tab,      \* per tab, its document
  blob,     \* mail-query-cache: None, or the owner and the mail
  store,    \* per user, whose records zeitmail-sync:<uid> has
  turns, faults,
  gone,     \* history: users who have signed out and not signed in since
  lapsed    \* history: a session has ended, or another begun, under a page

vars == <<cookies, alive, tab, blob, store, turns, faults, gone, lapsed>>

---------------------------------------------------------------------------

Turn == turns < MaxTurns /\ turns' = turns + 1
Fault == faults < MaxFaults /\ faults' = faults + 1

\* page: Login, or the uid of the page's session; mem: the query cache; read: the
\* stored cache while it is restored; fetch: whose mail a request brings
Closed == [page |-> None, mem |-> {}, restore |-> "done", read |-> None,
           phase |-> "open", fetch |-> None, check |-> "none"]
Document(u) == [Closed EXCEPT !.page = IF u = None THEN Login ELSE u, !.restore = "start"]

Signed(t) == tab[t].page \in User
InApp(t) == Signed(t) /\ tab[t].phase = "open"
Restored(t) == tab[t].page # None /\ tab[t].restore = "done"

\* getSession: whom the cookies name, by the cookie cache or the database
Whom == IF cookies.data # None THEN cookies.data ELSE IF alive THEN cookies.token ELSE None

\* proxy lets a request of u pass, or sends it to the login page if there is no
\* session; validateSession takes a failing database for none.
Proxied(u) ==
  /\ \/ u = Whom /\ UNCHANGED faults
     \/ u = None /\ cookies.data = None /\ Whom # None /\ Fault
  /\ cookies' = [cookies EXCEPT !.owner = u, !.data = IF u = None THEN @ ELSE u]

\* persistClient
Saved(mem) == blob' = [owner |-> cookies.owner, mail |-> mem]

---------------------------------------------------------------------------
(* Documents and what they ask for. *)

\* A document is loaded, whatever page the user wants.
Arrive(t) == \E u \in User \union {None} : Proxied(u) /\ tab' = [tab EXCEPT ![t] = Document(u)]
Load(t) ==
  /\ Turn /\ Arrive(t)
  /\ UNCHANGED <<alive, blob, store, gone>>
Close(t) ==
  /\ tab[t].page # None /\ Turn
  /\ tab' = [tab EXCEPT ![t] = Closed]
  /\ UNCHANGED <<cookies, alive, blob, store, faults, gone>>

\* restoreClient: the stored cache is read, then its owner compared.
RestoreReads(t) ==
  /\ tab[t].restore = "start"
  /\ tab' = [tab EXCEPT ![t].restore = "read", ![t].read = blob]
  /\ UNCHANGED <<cookies, alive, blob, store, turns, faults, gone>>

\* Variant: what is stored is restored whoever's it is.
OwnedByAny(b) == TRUE
Owned(b) == b.owner = cookies.owner
RestoreEnds(t) ==
  LET b == tab[t].read
      own == b # None /\ Owned(b) IN
  /\ tab[t].restore = "read"
  /\ tab' = [tab EXCEPT ![t].restore = "done", ![t].read = None, ![t].mem = IF own THEN b.mail ELSE @]
  /\ blob' = IF b # None /\ ~own THEN None ELSE blob
  /\ UNCHANGED <<cookies, alive, store, turns, faults, gone>>

\* A navigation inside the app keeps the document and its session; one that is
\* sent to the login page keeps the document.
Go(t) ==
  \E u \in User \union {None} :
    /\ Proxied(u)
    /\ tab' = [tab EXCEPT ![t].page = IF u = None THEN Login ELSE @, ![t].check = "none"]
Navigate(t) ==
  /\ InApp(t) /\ tab[t].check # "leave" /\ Go(t)
  /\ UNCHANGED <<alive, blob, store, turns, gone>>

\* A query calls a server action.
Ask(t) ==
  /\ Signed(t) /\ Restored(t) /\ tab[t].fetch = None
  /\ \E u \in User \union {None} : Proxied(u) /\ tab' = [tab EXCEPT ![t].fetch = u]
  /\ UNCHANGED <<alive, blob, store, turns, gone>>
Answered(t) ==
  /\ tab[t].fetch # None /\ Restored(t)
  /\ LET mem == tab[t].mem \union {tab[t].fetch} IN
       /\ tab' = [tab EXCEPT ![t].fetch = None, ![t].mem = mem]
       /\ Saved(mem)
  /\ UNCHANGED <<cookies, alive, store, turns, faults, gone>>

\* The query cache tells its persister of any change.
Persist(t) ==
  /\ Restored(t) /\ Saved(tab[t].mem)
  /\ UNCHANGED <<cookies, alive, tab, store, turns, faults, gone>>

\* The socket is admitted as whom the cookies name; the store is the page's.
Connect(t) ==
  /\ InApp(t) /\ Whom # None
  /\ store' = [store EXCEPT ![tab[t].page] = @ \union {Whom}]
  /\ UNCHANGED <<cookies, alive, tab, blob, turns, faults, gone>>

---------------------------------------------------------------------------
(* Signing in and out. *)

NewSession(u) == [token |-> u, data |-> u, owner |-> cookies.owner]

SignIn(t, u) ==
  /\ tab[t].page = Login /\ tab[t].phase = "open" /\ Turn
  /\ cookies' = NewSession(u) /\ alive' = TRUE
  /\ tab' = [tab EXCEPT ![t].phase = "entering"]
  /\ gone' = gone \ {u}
  /\ UNCHANGED <<blob, store, faults>>

\* router.push
Enter(t) ==
  /\ tab[t].phase = "entering"
  /\ \E u \in User \union {None} :
       /\ Proxied(u)
       /\ tab' = [tab EXCEPT ![t].phase = "open", ![t].page = IF u = None THEN Login ELSE u]
  /\ UNCHANGED <<alive, blob, store, turns, gone>>

\* signIn.social and signUp come back with a new document.
SignInByProvider(t, u) ==
  /\ tab[t].page = Login /\ tab[t].phase = "open" /\ Turn
  /\ cookies' = [NewSession(u) EXCEPT !.owner = u] /\ alive' = TRUE
  /\ tab' = [tab EXCEPT ![t] = Document(u)]
  /\ gone' = gone \ {u}
  /\ UNCHANGED <<blob, store, faults>>

\* handleLogout: signOut, then whatever comes of it the caches are cleared, and
\* the login page is loaded.
SignOut(t) ==
  /\ InApp(t) /\ Turn
  /\ \/ alive' = FALSE /\ tab' = [tab EXCEPT ![t].phase = "signedOut"] /\ UNCHANGED faults
     \/ Fault /\ tab' = [tab EXCEPT ![t].phase = "failed"] /\ UNCHANGED alive
  /\ UNCHANGED <<cookies, blob, store, gone>>

\* clearPersistedQueryCache: the queries, with what they have asked for, and the
\* stored copy.  Variant: the answers still come.
ClearedData(d) == [d EXCEPT !.mem = {}]
Cleared(d) == [d EXCEPT !.mem = {}, !.fetch = None]

Clear(t) ==
  /\ tab[t].phase \in {"signedOut", "failed"}
  /\ tab' = [tab EXCEPT ![t] =
       [Cleared(tab[t]) EXCEPT !.phase = IF tab[t].phase = "failed" THEN "kept" ELSE "ended"]]
  /\ blob' = None
  /\ cookies' = IF tab[t].phase = "failed" THEN cookies ELSE [cookies EXCEPT !.token = None, !.data = None]
  /\ UNCHANGED <<alive, store, turns, faults, gone>>

\* purgeSyncStore
Purge(t) ==
  /\ tab[t].phase \in {"kept", "ended"}
  /\ tab' = [tab EXCEPT ![t].phase = IF @ = "kept" THEN "returning" ELSE "leaving"]
  /\ \/ /\ store' = [store EXCEPT ![tab[t].page] = {}]
        /\ gone' = IF tab[t].phase = "ended" /\ cookies.token = None THEN gone \union {tab[t].page} ELSE gone
        /\ UNCHANGED faults
     \/ Fault /\ UNCHANGED <<store, gone>>
  /\ UNCHANGED <<cookies, alive, blob, turns>>

LoadLogin(t) ==
  /\ tab[t].phase \in {"returning", "leaving"} /\ Arrive(t)
  /\ UNCHANGED <<alive, blob, store, turns, gone>>

---------------------------------------------------------------------------
(* The check in the background. *)

\* check: a second after the page is rendered, and when the tab is turned to
CheckAsked(t) ==
  /\ InApp(t) /\ tab[t].check = "none"
  /\ cookies' = [cookies EXCEPT !.data = Whom]
  /\ tab' = [tab EXCEPT ![t].check = IF Whom = None THEN "ended" ELSE @]
  /\ UNCHANGED <<alive, blob, store, turns, faults, gone>>

\* confirmedNegative; a call that fails counts as being offline.
ConfirmedNegative(t) == tab[t].check = "ended"
CheckAnswered(t) ==
  /\ tab[t].check = "ended" /\ tab[t].phase = "open"
  /\ \/ /\ ConfirmedNegative(t)
        /\ tab' = [tab EXCEPT ![t] = [Cleared(tab[t]) EXCEPT !.check = "leave"]]
        /\ blob' = None
        /\ UNCHANGED faults
     \/ /\ Fault \/ (~ConfirmedNegative(t) /\ UNCHANGED faults)
        /\ tab' = [tab EXCEPT ![t].check = "none"]
        /\ UNCHANGED blob
  /\ UNCHANGED <<cookies, alive, store, turns, gone>>

\* router.replace("/login")
Leave(t) ==
  /\ InApp(t) /\ tab[t].check = "leave" /\ Go(t)
  /\ UNCHANGED <<alive, blob, store, turns, gone>>

---------------------------------------------------------------------------
(* What happens to a session. *)

CookieCacheExpires ==
  /\ cookies.data # None /\ cookies' = [cookies EXCEPT !.data = None]
  /\ UNCHANGED <<alive, tab, blob, store, turns, faults, gone>>

\* It expires, or is revoked: handleChangePassword on another device.
Revoked ==
  /\ alive /\ Fault /\ alive' = FALSE
  /\ UNCHANGED <<cookies, tab, blob, store, turns, gone>>

---------------------------------------------------------------------------

Init ==
  /\ cookies = [token |-> None, data |-> None, owner |-> None] /\ alive = FALSE
  /\ tab = [t \in Tab |-> Closed] /\ blob = None /\ store = [u \in User |-> {}]
  /\ turns = 0 /\ faults = 0 /\ gone = {} /\ lapsed = FALSE

Browser(t) ==
  \/ Load(t) \/ Close(t) \/ RestoreReads(t) \/ RestoreEnds(t) \/ Navigate(t)
  \/ Ask(t) \/ Answered(t) \/ Persist(t) \/ Connect(t)
Signing(t) ==
  \/ \E u \in User : SignIn(t, u) \/ SignInByProvider(t, u)
  \/ Enter(t) \/ SignOut(t) \/ Clear(t) \/ Purge(t) \/ LoadLogin(t)
Check(t) == CheckAsked(t) \/ CheckAnswered(t) \/ Leave(t)

\* A page of one user while the cookies name another, or none, but for the page
\* that has signed out, while they name none; a document that signs in or out, or
\* a login page that gets an owner, while the stored cache is still being restored
Astray(t) ==
  \/ ~Restored(t) /\ (tab[t].phase # "open" \/ (tab[t].page = Login /\ cookies.owner # None))
  \/ /\ Signed(t)
     /\ \/ cookies.owner # tab[t].page
        \/ tab[t].phase = "open" /\ Whom # tab[t].page
        \/ cookies.token # (IF tab[t].phase \in {"ended", "leaving"} THEN None ELSE tab[t].page)

\* A page becomes the login page in the same document.
SentAway(t) == Signed(t) /\ tab'[t].page = Login /\ tab'[t] # Document(None)

Step ==
  \/ \E t \in Tab : Browser(t) \/ Signing(t) \/ Check(t)
  \/ CookieCacheExpires \/ Revoked
Next == Step /\ lapsed' = (lapsed \/ \E t \in Tab : Astray(t)' \/ SentAway(t))

\* Answers come, the cookie cache lasts a minute, and the user comes back to a tab.
Fairness ==
  /\ WF_vars(CookieCacheExpires /\ Next)
  /\ \A t \in Tab :
       /\ WF_vars(CheckAsked(t) /\ Next) /\ WF_vars(CheckAnswered(t) /\ Next) /\ WF_vars(Leave(t) /\ Next)
       /\ WF_vars(Clear(t) /\ Next) /\ WF_vars(Purge(t) /\ Next) /\ WF_vars(LoadLogin(t) /\ Next)

Spec == Init /\ [][Next]_vars /\ Fairness

---------------------------------------------------------------------------
(* Properties. *)

\* query-provider.tsx, sync-provider.tsx: as long as no session ends or changes
\* under an open page, a tab, and the store of a user, hold that user's mail only,
\* the login page none; whoever signed in, out or closed the browser before.
OwnMail ==
  ~lapsed =>
    /\ \A t \in Tab : tab[t].mem \subseteq {tab[t].page}
    /\ \A u \in User : store[u] \subseteq {u}

\* nav-user.tsx: a user who has signed out leaves nothing behind, whatever was
\* under way, nor does it come back before they do.
SignedOutIsGone ==
  ~lapsed => \A u \in gone : store[u] = {} /\ (blob # None => u \notin blob.mail)

\* query-provider.tsx, sync-provider.tsx: what a browser keeps is of whoever is signed
\* in, and of nobody who has signed out.
CachesAreOwn == OwnMail /\ SignedOutIsGone

\* session-provider.tsx: a page whose session has ended for good is left.
RevokedIsLeft == <>[](~alive) => <>[](\A t \in Tab : ~Signed(t))

\* query-provider.tsx: what is restored is mail of the page's user.
RestoredIsOwn ==
  [][\A t \in Tab : tab[t].restore = "read" /\ tab'[t].restore = "done" =>
                      tab'[t].mem \subseteq {tab'[t].page}]_vars

\* query-provider.tsx: the query cache of a page has mail of its user only.
PageIsOwn == \A t \in Tab : Signed(t) => tab[t].mem \subseteq {tab[t].page}
=============================================================================
