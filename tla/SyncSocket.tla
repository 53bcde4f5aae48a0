----------------------------- MODULE SyncSocket -----------------------------
(***************************************************************************)
(* A socket of the sync engine, as sync-server.ts (a Bun server, for       *)
(* development) and app/api/sync/route.ts wire it: the guard, the registry *)
(* of an instance (getSyncRegistry) and the user's server, for which the   *)
(* handler waits, the frames that come meanwhile, and the close.           *)
(***************************************************************************)
EXTENDS Naturals, Sequences

CONSTANTS
  Socket,     \* sockets, each opened once, by one user each
  MaxFrames,  \* bound: frames a client sends on a socket
  MaxFaults   \* bound: failing starts of the registry or of a user's server

Frame == {"ok", "malformed", "large"}

VARIABLES
  kind,      \* which of the two this is: "bun" upgrades before it waits
  registry,  \* registryPromise: "none", "pending" or "ready"
  socket,    \* per socket: what it waits for, and what came of it
  wire,      \* per socket, the frames on their way
  faults

vars == <<kind, registry, socket, wire, faults>>

---------------------------------------------------------------------------

\* at: closed and new, waiting for the registry or the server, wired, failed;
\* sent: how many frames; pending, handled: SocketData.pending and what onMessage
\* was given; told: calls of onClose
New == [at |-> "new", upgraded |-> FALSE, closed |-> FALSE, closing |-> FALSE,
        sent |-> <<>>, pending |-> <<>>, handled |-> <<>>, told |-> 0]

Fault == faults < MaxFaults /\ faults' = faults + 1
Waiting(s) == socket[s].at \in {"registry", "server"}
Ok(frames) == SelectSeq(frames, LAMBDA f : f[2] = "ok")

\* A socket whose handlers are set: the frames that waited are handled in their
\* order, a close that came meanwhile is told.  Variant: the latest first.
DrainedLast(x) == [i \in 1..Len(x.pending) |-> x.pending[Len(x.pending) + 1 - i]]
Drained(x) == x.pending
\* Variant: a close that came before is not looked at.
WiredUntold(x) ==
  [x EXCEPT !.at = "wired", !.upgraded = TRUE, !.pending = <<>>, !.handled = @ \o Ok(Drained(x))]
Wired(x) ==
  [x EXCEPT !.at = "wired", !.upgraded = TRUE, !.pending = <<>>,
            !.handled = @ \o Ok(Drained(x)), !.told = IF x.closed THEN 1 ELSE 0]

---------------------------------------------------------------------------

\* syncGuard has let the client in.  getSyncRegistry: whoever finds none starts one.
Open(s) ==
  /\ socket[s].at = "new"
  /\ registry' = IF registry = "none" THEN "pending" ELSE registry
  /\ socket' = [socket EXCEPT ![s].at = IF registry = "ready" THEN "server" ELSE "registry",
                              ![s].upgraded = kind = "bun"]
  /\ UNCHANGED <<kind, wire, faults>>

RegistryReady ==
  /\ registry = "pending" /\ registry' = "ready"
  /\ socket' = [s \in Socket |->
       IF socket[s].at = "registry" THEN [socket[s] EXCEPT !.at = "server"] ELSE socket[s]]
  /\ UNCHANGED <<kind, wire, faults>>

\* fetchMaxSyncId fails: whoever waits fails, the next one starts anew.
AfterFailure == "none"
RegistryFails ==
  /\ registry = "pending" /\ Fault /\ registry' = AfterFailure
  /\ socket' = [s \in Socket |->
       IF socket[s].at = "registry" THEN [socket[s] EXCEPT !.at = "failed"] ELSE socket[s]]
  /\ UNCHANGED <<kind, wire>>

\* serverFor, then handleConnection and what follows it in one go; the route
\* upgrades here.
ServerReady(s) ==
  /\ socket[s].at = "server"
  /\ socket' = [socket EXCEPT ![s] = Wired(@)]
  /\ UNCHANGED <<kind, registry, wire, faults>>

ServerFails(s) ==
  /\ socket[s].at = "server" /\ Fault
  /\ socket' = [socket EXCEPT ![s].at = "failed"]
  /\ UNCHANGED <<kind, registry, wire>>

---------------------------------------------------------------------------

Send(s) ==
  /\ socket[s].upgraded /\ ~socket[s].closed /\ Len(socket[s].sent) < MaxFrames
  /\ \E f \in Frame :
       LET frame == <<Len(socket[s].sent) + 1, f>> IN
         /\ socket' = [socket EXCEPT ![s].sent = Append(@, frame)]
         /\ wire' = [wire EXCEPT ![s] = Append(@, frame)]
  /\ UNCHANGED <<kind, registry, faults>>

\* message: too large closes the socket; without a handler it waits; malformed is
\* ignored.
Message(s) ==
  LET frame == Head(wire[s]) IN
  /\ wire[s] # <<>> /\ ~socket[s].closed /\ ~socket[s].closing
  /\ wire' = [wire EXCEPT ![s] = Tail(@)]
  /\ socket' = [socket EXCEPT ![s] =
       IF frame[2] = "large" THEN [@ EXCEPT !.closing = TRUE]
       ELSE IF @.at = "wired" THEN [@ EXCEPT !.handled = @ \o Ok(<<frame>>)]
       ELSE [@ EXCEPT !.pending = Append(@, frame)]]
  /\ UNCHANGED <<kind, registry, faults>>

\* close: by either side, or the network
Close(s) ==
  /\ socket[s].upgraded /\ ~socket[s].closed
  /\ socket' = [socket EXCEPT ![s].closed = TRUE, ![s].told = IF socket[s].at = "wired" THEN @ + 1 ELSE @]
  /\ wire' = [wire EXCEPT ![s] = <<>>]
  /\ UNCHANGED <<kind, registry, faults>>

---------------------------------------------------------------------------

Init ==
  /\ kind \in {"bun", "route"} /\ registry = "none" /\ faults = 0
  /\ socket = [s \in Socket |-> New] /\ wire = [s \in Socket |-> <<>>]

Next ==
  \/ \E s \in Socket :
       \/ Open(s) \/ ServerReady(s) \/ ServerFails(s)
       \/ Send(s) \/ Message(s) \/ Close(s)
  \/ RegistryReady \/ RegistryFails

\* The database answers, and frames arrive.
Fairness ==
  /\ WF_vars(RegistryReady)
  /\ \A s \in Socket : WF_vars(ServerReady(s)) /\ WF_vars(Message(s))

Spec == Init /\ [][Next]_vars /\ Fairness

---------------------------------------------------------------------------
(* Properties. *)

\* sync-server.ts: the engine is given what a client has sent in its order, each
\* frame once, whenever its handler was set; until the socket closes.
InOrder ==
  \A s \in Socket :
    LET x == socket[s] IN
      /\ ~x.closed => x.handled \o Ok(x.pending) \o Ok(wire[s]) = Ok(x.sent)
      /\ \E n \in 0..Len(x.sent) : x.handled = Ok(SubSeq(x.sent, 1, n))
      /\ x.at = "wired" => x.pending = <<>>

\* sync-server.ts: the engine hears once of every close of a socket it was given,
\* also of one that came before.
CloseIsTold ==
  \A s \in Socket : socket[s].told = IF socket[s].at = "wired" /\ socket[s].closed THEN 1 ELSE 0

\* sync-server.ts: the engine hears all of a socket, in order, though it was not
\* there when the socket opened.
EngineHears == InOrder /\ CloseIsTold

\* server-instance.ts: a start of the registry that failed is not the failure of
\* who comes later.
LaterIsServed ==
  \A s \in Socket : Waiting(s) /\ faults = MaxFaults ~> socket[s].at = "wired"

\* sync-server.ts: an open socket is served or closed.
OpenIsServed ==
  \A s \in Socket :
    socket[s].upgraded /\ ~socket[s].closed ~> socket[s].at = "wired" \/ socket[s].closed
=============================================================================
