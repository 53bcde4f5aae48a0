------------------------------- MODULE Links --------------------------------
(***************************************************************************)
(* What linking a mailbox stores in its connection: connectionHandlerHook  *)
(* of server/lib/auth.ts, the createConnection functions of                *)
(* server/actions/connections.ts and the forms that call them, and         *)
(* createConnection of server/lib/server-utils.ts, which keeps one row for *)
(* an address whatever provider it is linked with.  The refresh of the     *)
(* row's tokens (server/lib/token-store.ts) may be under way meanwhile.    *)
(* Accounts has the default connection, the two steps of a removal and the *)
(* sync records, Tokens the drivers' own refresh request by request; here  *)
(* a link is its steps, and what is stored is whose credentials they are   *)
(* and how old.                                                            *)
(***************************************************************************)
EXTENDS Naturals

CONSTANTS
  Mailbox,     \* mailboxes that may be linked: <<provider, address>>
  Own,         \* the address that the user signed up with
  Worker,      \* server functions that are called
  MaxLinks,    \* bound: links, those of "Reconnect" not counted
  MaxRevokes,  \* bound: times the credentials of a mailbox cease to work
  MaxFaults    \* bound: requests to a provider that fail

VARIABLES
  now,      \* how often the credentials of each mailbox have ceased to work
  row,      \* the connection of each address
  link,     \* each worker's link: how far it is, what it has to store
  renewal,  \* what the refresh under way of each row has from its provider
  torn,     \* history: addresses whose row another provider took during a refresh
  counts

vars == <<now, row, link, renewal, torn, counts>>

Address == {m[2] : m \in Mailbox}
Oauth(provider) == provider \in {"google", "microsoft"}

\* A token or a password: the mailbox it opens, and how old it is.
Nothing == [of |-> <<"none", "none">>, v |-> 0]
Credential(m) == [of |-> m, v |-> now[m]]
Works(c) == c.of \in Mailbox /\ c.v = now[c.of]

NoRow == [provider |-> "none", access |-> Nothing, refresh |-> Nothing, config |-> "none",
          status |-> "none", cursor |-> "none"]
Rows == {a \in Address : row[a] # NoRow}
Idle == [at |-> "idle", of |-> <<"none", "none">>, access |-> Nothing, refresh |-> Nothing, config |-> "none"]
NoRenewal == [at |-> "idle", provider |-> "none", got |-> Nothing]

Counts(c, bound) == counts[c] < bound /\ counts' = [counts EXCEPT ![c] = @ + 1]
Fault == Counts("faults", MaxFaults)
NoFault == UNCHANGED counts
Goto(w, at) == link' = [link EXCEPT ![w].at = at]
Ends(w) == link' = [link EXCEPT ![w] = Idle]
Elsewhere == UNCHANGED <<now, row, renewal, torn>>

---------------------------------------------------------------------------
(* Linking with a provider that gives tokens. *)

\* linkSocial, and better-auth: the tokens of the mailbox that the user
\* consented to, an access token and mostly a refresh token.  It links no
\* address but the user's own (accountLinking, without allowDifferentEmails).
Consent(w, m) ==
  /\ link[w] = Idle /\ m \in Mailbox /\ m[2] = Own
  /\ \E refresh \in {Credential(m), Nothing} :
       link' = [link EXCEPT ![w] = [Idle EXCEPT !.of = m, !.access = Credential(m),
                  !.refresh = refresh, !.at = IF refresh = Nothing THEN "borrow" ELSE "who"]]
  /\ Elsewhere

\* handleProviderClick of the dialog and of the onboarding page
LinkOauth(w) ==
  /\ \E m \in Mailbox : Oauth(m[1]) /\ Consent(w, m)
  /\ Counts("links", MaxLinks)

\* connectionHandlerHook: without a refresh token, that of the first connection
\* with the same provider, in no order; without one there nothing is linked.
Borrow(w) ==
  /\ link[w].at = "borrow" /\ NoFault /\ Elsewhere
  /\ LET same == {a \in Rows : row[a].provider = link[w].of[1]}
     IN  \/ same = {} /\ Ends(w)
         \/ \E a \in same :
              IF row[a].refresh = Nothing THEN Ends(w)
              ELSE link' = [link EXCEPT ![w].refresh = row[a].refresh, ![w].at = "who"]

\* getUserInfo tells the address; if it fails nothing is said.
WhoIsIt(w) ==
  /\ link[w].at = "who" /\ Elsewhere
  /\ \/ Works(link[w].access) /\ NoFault /\ Goto(w, "store")
     \/ ~Works(link[w].access) /\ NoFault /\ Ends(w)
     \/ Fault /\ Ends(w)

---------------------------------------------------------------------------
(* Linking with an app password. *)

\* A password as it is typed, which may be an old one.  A form that names an
\* address outside the provider's domains is refused and changes nothing.
Typed(w, provider, at) ==
  /\ link[w] = Idle /\ Counts("links", MaxLinks) /\ Elsewhere
  /\ \E m \in Mailbox : \E v \in 0..now[m] :
       /\ m[1] = provider
       /\ link' = [link EXCEPT ![w] = [Idle EXCEPT !.of = m, !.access = [of |-> m, v |-> v], !.at = at]]

createIcloudConnection(w) == Typed(w, "icloud", "validate")
createYahooConnection(w) == Typed(w, "yahoo", "validate")
\* A host or a port that assertValidMailEndpoints refuses changes nothing.
createCustomConnection(w) == Typed(w, "custom", "discover")

\* autoDiscoverFolders, for a server of the user's own: imapConfig
Discover(w) ==
  /\ link[w].at = "discover" /\ Elsewhere
  /\ \/ /\ Works(link[w].access) /\ NoFault
        /\ link' = [link EXCEPT ![w].config = link[w].of[2], ![w].at = "validate"]
     \/ ~Works(link[w].access) /\ NoFault /\ Ends(w)
     \/ Fault /\ Ends(w)

\* getUserInfo of the IMAP drivers signs in: validateCredentials
Validate(w) ==
  /\ link[w].at = "validate" /\ Elsewhere
  /\ \/ Works(link[w].access) /\ NoFault /\ Goto(w, "store")
     \/ ~Works(link[w].access) /\ NoFault /\ Ends(w)
     \/ Fault /\ Ends(w)

---------------------------------------------------------------------------
(* The row. *)

\* Variant: a server that is set stays.
StoredConfig(old, l) ==
  [old EXCEPT !.provider = l.of[1], !.access = l.access, !.refresh = l.refresh, !.status = "active",
              !.config = IF l.config = "none" THEN @ ELSE l.config]
\* createConnection inserts the row of an address, or sets all a link knows of
\* it; the row's cursor is not of it.
Stored(old, l) ==
  [old EXCEPT !.provider = l.of[1], !.access = l.access, !.refresh = l.refresh,
              !.config = l.config, !.status = "active"]

Store(w) ==
  /\ link[w].at = "store"
  /\ row' = [row EXCEPT ![link[w].of[2]] = Stored(@, link[w])]
  /\ Ends(w) /\ UNCHANGED <<now, renewal, torn, counts>>

---------------------------------------------------------------------------
(* Using it. *)

\* ensureFreshAccessToken: the access token has expired.  In its lock the row is
\* read and its refresh token exchanged, for one of whatever mailbox that is of;
\* a token that is dead will be flagged, any other failure changes nothing.
StartRefresh(a) ==
  /\ renewal[a] = NoRenewal /\ Oauth(row[a].provider) /\ row[a].refresh # Nothing
  /\ renewal' = [renewal EXCEPT ![a] =
       [at |-> IF Works(row[a].refresh) THEN "got" ELSE "dead",
        provider |-> row[a].provider, got |-> row[a].refresh]]
  /\ UNCHANGED <<now, row, link, torn, counts>>

\* The update of the row, whatever has been stored in it meanwhile.
EndRefresh(a) ==
  /\ renewal[a].at # "idle" /\ renewal' = [renewal EXCEPT ![a] = NoRenewal]
  /\ \/ /\ renewal[a].at = "got" /\ a \in Rows
        /\ row' = [row EXCEPT ![a].access = renewal[a].got, ![a].refresh = renewal[a].got,
                              ![a].status = "active"]
        /\ torn' = IF row[a].provider = renewal[a].provider THEN torn ELSE torn \union {a}
     \/ /\ renewal[a].at = "dead" /\ a \in Rows
        /\ row' = [row EXCEPT ![a].status = "reauth_required"] /\ UNCHANGED torn
     \/ a \notin Rows /\ UNCHANGED <<row, torn>>
  /\ UNCHANGED <<now, link, counts>>

\* A cycle of the sync, which leaves a cursor of its driver's; one that may not
\* sign in changes nothing of the row (a refresh flags it).
Sync(a) ==
  /\ a \in Rows /\ Works(row[a].access) /\ row[a].access.of[1] = row[a].provider
  /\ row' = [row EXCEPT ![a].cursor = row[a].provider]
  /\ UNCHANGED <<now, link, renewal, torn, counts>>

\* The user changes the password, or takes back the consent.
Revoke ==
  /\ Counts("revokes", MaxRevokes)
  /\ \E m \in Mailbox : now' = [now EXCEPT ![m] = @ + 1]
  /\ UNCHANGED <<row, link, renewal, torn>>

\* listConnections: disconnectedIds
Disconnected(a) ==
  /\ a \in Rows
  /\ \/ row[a].status = "reauth_required"
     \/ row[a].access = Nothing
     \/ Oauth(row[a].provider) /\ row[a].refresh = Nothing

\* Reconnect, in the banner and in the settings: linkSocial, which knows no
\* provider with app passwords.
Reconnect(w, a) ==
  /\ Disconnected(a) /\ Oauth(row[a].provider)
  /\ Consent(w, <<row[a].provider, a>>) /\ NoFault

\* revokeToken of the drivers: Google's alone asks the provider, and its failure
\* is swallowed.
RevokeToken(r) ==
  \/ /\ r.provider = "google" /\ Works(r.refresh) /\ Counts("revokes", MaxRevokes)
     /\ now' = [now EXCEPT ![r.refresh.of] = @ + 1]
  \/ r.provider = "google" /\ ~Works(r.refresh) /\ UNCHANGED <<now, counts>>
  \/ r.provider = "google" /\ Fault /\ UNCHANGED now
  \/ r.provider # "google" /\ UNCHANGED <<now, counts>>

\* The grant is revoked, then the row deleted.  A refresh under way finds its row
\* gone, though the flag of a driver's goes by the address.
deleteConnection(a) ==
  /\ RevokeToken(row[a])
  /\ row' = [row EXCEPT ![a] = NoRow]
  /\ \/ renewal[a].at = "dead" /\ UNCHANGED renewal
     \/ renewal' = [renewal EXCEPT ![a] = NoRenewal]
  /\ UNCHANGED <<link, torn>>

\* disconnectAccount; the button is disabled for the only account.
Disconnect(a) == a \in Rows /\ Rows # {a} /\ deleteConnection(a)

Init ==
  /\ now = [m \in Mailbox |-> 0] /\ row = [a \in Address |-> NoRow] /\ link = [w \in Worker |-> Idle]
  /\ renewal = [a \in Address |-> NoRenewal] /\ torn = {}
  /\ counts = [links |-> 0, revokes |-> 0, faults |-> 0]

Link(w) == LinkOauth(w) \/ createIcloudConnection(w) \/ createYahooConnection(w) \/ createCustomConnection(w)
Serve(w) == Borrow(w) \/ WhoIsIt(w) \/ Discover(w) \/ Validate(w) \/ Store(w)
Use(a) == StartRefresh(a) \/ EndRefresh(a) \/ Sync(a) \/ Disconnect(a)

Next ==
  \/ \E w \in Worker : Link(w) \/ Serve(w) \/ \E a \in Address : Reconnect(w, a)
  \/ \E a \in Address : Use(a)
  \/ Revoke

\* Requests return, and a user who is told to reconnect does, as often as it takes.
Fairness ==
  /\ \A w \in Worker : WF_vars(Serve(w))
  /\ \A a \in Address : SF_vars(\E w \in Worker : Reconnect(w, a))

Spec == Init /\ [][Next]_vars /\ Fairness

---------------------------------------------------------------------------
(* Properties. *)

\* server-utils.ts, createConnection: whatever links of an address meet, by
\* whatever provider, its row opens that mailbox and no other, with what that
\* provider needs and nothing of another's.  The update that ends a refresh is
\* the one that can undo it, when another provider took the row meanwhile.
RowsAreWhole ==
  \A a \in Rows \ torn :
    LET r == row[a]
        m == <<r.provider, a>>
    IN  /\ r.access.of = m
        /\ r.refresh.of = IF Oauth(r.provider) THEN m ELSE Nothing.of
        /\ r.config = IF r.provider = "custom" THEN a ELSE "none"

\* "Fresh credentials from a (re-)link clear any reauth flag" and token-store.ts,
\* "restores the account": a refresh that is overtaken by a link leaves a row of
\* another provider with its tokens.
NeverTorn == torn = {}

\* reconnect-banner.tsx: "a re-link through the provider restores it in place".
Recovers ==
  \A a \in Address : (Disconnected(a) /\ Oauth(row[a].provider)) ~> ~(Disconnected(a) /\ Oauth(row[a].provider))

\* reconnect-banner.tsx: "App-password providers re-enter credentials via
\* connection settings", whose Reconnect does nothing for them.
RecoversByPassword ==
  \A a \in Address : row[a].status = "reauth_required" ~> row[a].status # "reauth_required"

\* sync-connection.ts takes the cursor of a row for one of its driver's.
CursorIsDrivers ==
  \A a \in Rows : row[a].cursor \in {"none", row[a].provider}
=============================================================================
