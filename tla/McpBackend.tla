----------------------------- MODULE McpBackend -----------------------------
(***************************************************************************)
(* How the stdio relays that agents launch (src/src/ucode/                 *)
(* mcp_proxy_runtime.py) find or start the MCP backend they share          *)
(* (mcp_proxy_daemon.py), and how that backend serves them and stops.      *)
(*                                                                         *)
(* One runtime directory holds start.lock, under which one relay at a time *)
(* starts a backend; backend.lock, which a backend holds for life; and     *)
(* endpoint.json, with the port and the secret of the backend that wrote   *)
(* it.  A relay starts at most one backend process, so a backend is named  *)
(* by the relay that started it, and endpoint.json by its backend.  The    *)
(* kernel frees the locks and the connections of a process that dies.      *)
(*                                                                         *)
(* A connection is abandoned when the relay's one-second timeout expires;  *)
(* the backend may still be working on it while the relay dials again.     *)
(***************************************************************************)
EXTENDS Naturals, FiniteSets

CONSTANTS
  Relays,        \* relay processes, and the backend processes they start
  None,          \* nobody
  MaxTimeouts,   \* bound on the dials a relay abandons
  Hasty,         \* the relays whose dials may time out
  RelayCrashes,  \* TRUE: an agent may kill its relay
  BackendCrashes,\* TRUE: a backend may be killed
  Slow           \* TRUE: waiting for a lock or for a start-up may time out

ASSUME ConstantsAssumption ==
  /\ IsFiniteSet(Relays) /\ None \notin Relays
  /\ MaxTimeouts \in Nat /\ Hasty \subseteq Relays
  /\ {RelayCrashes, BackendCrashes, Slow} \subseteq BOOLEAN

Maybe == Relays \cup {None}
\* The dials of a relay; <<r, tries[r]>> is its current one.
Dials == Relays \X (0..MaxTimeouts)

Connecting == {"read", "dial", "await"}
Gone == {"failed", "done", "dead"}
RelayLabels == {"idle", "lock", "spawn", "check", "giveup", "session"}
               \cup Connecting \cup Gone
\* Which of the four calls of _connect a relay is in.
Phases == {"first", "locked", "poll", "final"}

Listening == {"listening", "serving"}
\* From the lifetime lock to its release.
Holding == {"locked", "closing", "unlinking", "releasing"} \cup Listening
BackendStates == {"none", "starting", "dead"} \cup Holding

\* Connections whose accept() coroutine has run up to `active += 1`.
Counted == {"hello", "ready", "session"}
\* Connections with a transport, which wait_closed waits for.
Attached == {"attached"} \cup Counted
DialStates == {"none", "queued", "closed"} \cup Attached

VARIABLES
  startLock,    \* relay that holds start.lock
  backendLock,  \* backend that holds backend.lock
  endpoint,     \* backend that endpoint.json names
  pc,           \* where each relay stands
  phase,        \* the call of _connect it is in
  meta,         \* the backend named by the endpoint.json it read last
  tries,        \* dials it has abandoned
  late,         \* its start-up deadline has passed
  backend,      \* where each backend process stands
  active,       \* its counter of sessions
  elapsed,      \* the idle timeout has passed since its last_disconnect
  state,        \* each dial, as its backend sees it
  peer,         \* the backend at its other end
  open          \* the relay has not closed it

relayVars   == <<pc, phase, meta, tries, late>>
backendVars == <<backend, active, elapsed>>
dialVars    == <<state, peer, open>>
vars == <<startLock, backendLock, endpoint, relayVars, backendVars, dialVars>>

Current(r) == <<r, tries[r]>>
Alive(d) == backend[d] \notin {"none", "dead"}
\* The dials one backend is working on.
Handled(d) == {c \in Dials : peer[c] = d /\ state[c] \in Counted}

Init ==
  /\ startLock = None /\ backendLock = None
  /\ endpoint = None
  /\ pc = [r \in Relays |-> "idle"]
  /\ phase = [r \in Relays |-> "first"]
  /\ meta = [r \in Relays |-> None]
  /\ tries = [r \in Relays |-> 0]
  /\ late = [r \in Relays |-> FALSE]
  /\ backend = [d \in Relays |-> "none"]
  /\ active = [d \in Relays |-> 0]
  /\ elapsed = [d \in Relays |-> FALSE]
  /\ state = [c \in Dials |-> "none"]
  /\ peer = [c \in Dials |-> None]
  /\ open = [c \in Dials |-> TRUE]

-----------------------------------------------------------------------------
(* A relay: connect_backend and relay. *)

\* start.lock is released on every way out of the block that holds it.
ReleaseStart(r) == startLock' = IF startLock = r THEN None ELSE startLock

\* The variables of connect_backend end with it; the metadata of the
\* connection it returns is kept for the properties.
Leave(r, label) ==
  /\ pc' = [pc EXCEPT ![r] = label]
  /\ phase' = [phase EXCEPT ![r] = "first"]
  /\ late' = [late EXCEPT ![r] = FALSE]

\* Where a relay goes when a call of _connect returns None.
AfterFailure(r) ==
  CASE phase[r] = "first"  -> "lock"
    [] phase[r] = "locked" -> "spawn"
    [] phase[r] = "poll"   -> "check"
    [] phase[r] = "final"  -> "giveup"

Start(r) ==
  /\ pc[r] = "idle"
  /\ pc' = [pc EXCEPT ![r] = "read"]
  /\ UNCHANGED <<startLock, backendLock, endpoint, phase, meta, tries, late,
                 backendVars, dialVars>>

ReadEndpoint(r) ==
  /\ pc[r] = "read"
  /\ meta' = [meta EXCEPT ![r] = endpoint]
  /\ pc' = [pc EXCEPT ![r] = IF endpoint = None THEN AfterFailure(r) ELSE "dial"]
  /\ UNCHANGED <<startLock, backendLock, endpoint, phase, tries, late,
                 backendVars, dialVars>>

\* The port may belong to the backend it was read for, to nobody, or to a
\* later backend that was given the same number.
Dial(r) ==
  /\ pc[r] = "dial"
  /\ \/ \E d \in Relays :
          /\ backend[d] \in Listening
          /\ state' = [state EXCEPT ![Current(r)] = "queued"]
          /\ peer' = [peer EXCEPT ![Current(r)] = d]
          /\ pc' = [pc EXCEPT ![r] = "await"]
     \/ /\ backend[meta[r]] \notin Listening
        /\ pc' = [pc EXCEPT ![r] = AfterFailure(r)]
        /\ UNCHANGED <<state, peer>>
  /\ UNCHANGED <<startLock, backendLock, endpoint, phase, meta, tries, late,
                 backendVars, open>>

Connected(r) ==
  /\ pc[r] = "await" /\ state[Current(r)] = "ready"
  /\ Leave(r, "session")
  /\ ReleaseStart(r)
  /\ UNCHANGED <<backendLock, endpoint, meta, tries, backendVars, dialVars>>

\* The backend closed the connection before the relay read its answer.
Refused(r) ==
  /\ pc[r] = "await" /\ state[Current(r)] = "closed"
  /\ pc' = [pc EXCEPT ![r] = AfterFailure(r)]
  /\ state' = [state EXCEPT ![Current(r)] = "none"]
  /\ UNCHANGED <<startLock, backendLock, endpoint, phase, meta, tries, late,
                 backendVars, peer, open>>

\* No answer within the socket's timeout.
Abandon(r) ==
  /\ pc[r] = "await" /\ r \in Hasty /\ tries[r] < MaxTimeouts
  /\ open' = [open EXCEPT ![Current(r)] = FALSE]
  /\ tries' = [tries EXCEPT ![r] = @ + 1]
  /\ pc' = [pc EXCEPT ![r] = AfterFailure(r)]
  /\ UNCHANGED <<startLock, backendLock, endpoint, phase, meta, late,
                 backendVars, state, peer>>

TakeStartLock(r) ==
  /\ pc[r] = "lock" /\ startLock = None
  /\ startLock' = r
  /\ pc' = [pc EXCEPT ![r] = "read"]
  /\ phase' = [phase EXCEPT ![r] = "locked"]
  /\ UNCHANGED <<backendLock, endpoint, meta, tries, late, backendVars,
                 dialVars>>

StartLockTimeout(r) ==
  /\ Slow
  /\ pc[r] = "lock" /\ startLock # None
  /\ Leave(r, "failed")
  /\ UNCHANGED <<startLock, backendLock, endpoint, meta, tries, backendVars,
                 dialVars>>

Spawn(r) ==
  /\ pc[r] = "spawn"
  /\ backend' = [backend EXCEPT ![r] = "starting"]
  /\ pc' = [pc EXCEPT ![r] = "read"]
  /\ phase' = [phase EXCEPT ![r] = "poll"]
  /\ UNCHANGED <<startLock, backendLock, endpoint, meta, tries, late,
                 active, elapsed, dialVars>>

Deadline(r) ==
  /\ Slow
  /\ phase[r] = "poll" /\ pc[r] \notin Gone \cup {"session"} /\ ~late[r]
  /\ late' = [late EXCEPT ![r] = TRUE]
  /\ UNCHANGED <<startLock, backendLock, endpoint, pc, phase, meta, tries,
                 backendVars, dialVars>>

\* Mistaken form: the start-up loop has no deadline.
CheckChildForever(r) ==
  /\ pc[r] = "check"
  /\ pc' = [pc EXCEPT ![r] = "read"]
  /\ phase' = [phase EXCEPT ![r] = IF Alive(r) THEN @ ELSE "final"]
  /\ UNCHANGED <<startLock, backendLock, endpoint, meta, tries, late,
                 backendVars, dialVars>>

\* child.poll(), then the loop's condition.
CheckChild(r) ==
  /\ pc[r] = "check"
  /\ \/ /\ ~Alive(r)
        /\ phase' = [phase EXCEPT ![r] = "final"]
        /\ pc' = [pc EXCEPT ![r] = "read"]
     \/ /\ Alive(r) /\ ~late[r]
        /\ pc' = [pc EXCEPT ![r] = "read"]
        /\ UNCHANGED phase
     \/ /\ Alive(r) /\ late[r]
        /\ pc' = [pc EXCEPT ![r] = "giveup"]
        /\ UNCHANGED phase
  /\ UNCHANGED <<startLock, backendLock, endpoint, meta, tries, late,
                 backendVars, dialVars>>

\* A backend process ends, and its counter and timer with it.
Exit(d) ==
  /\ backend' = [backend EXCEPT ![d] = "dead"]
  /\ active' = [active EXCEPT ![d] = 0]
  /\ elapsed' = [elapsed EXCEPT ![d] = FALSE]

\* What a killed backend leaves: no lock and no connections, but its
\* endpoint.json.
Dies(d) ==
  /\ Exit(d)
  /\ backendLock' = IF backendLock = d THEN None ELSE backendLock
  /\ state' = [c \in Dials |->
                IF peer[c] = d /\ state[c] # "none" THEN "closed" ELSE state[c]]

\* "Shared MCP proxy did not start": a child that still runs is terminated.
GiveUp(r) ==
  /\ pc[r] = "giveup"
  /\ Leave(r, "failed")
  /\ ReleaseStart(r)
  /\ IF Alive(r) THEN Dies(r) ELSE UNCHANGED <<backendVars, backendLock, state>>
  /\ UNCHANGED <<endpoint, meta, tries, peer, open>>

\* The agent closes its end: the relay shuts the connection down and exits.
Finish(r) ==
  /\ pc[r] = "session"
  /\ pc' = [pc EXCEPT ![r] = "done"]
  /\ open' = [open EXCEPT ![Current(r)] = FALSE]
  /\ UNCHANGED <<startLock, backendLock, endpoint, phase, meta, tries, late,
                 backendVars, state, peer>>

\* "Shared MCP proxy disconnected", or the error of the session.
Disconnected(r) ==
  /\ pc[r] = "session" /\ state[Current(r)] = "closed"
  /\ pc' = [pc EXCEPT ![r] = "failed"]
  /\ UNCHANGED <<startLock, backendLock, endpoint, phase, meta, tries, late,
                 backendVars, dialVars>>

KillRelay(r) ==
  /\ RelayCrashes /\ pc[r] \notin Gone \cup {"idle"}
  /\ Leave(r, "dead")
  /\ ReleaseStart(r)
  /\ open' = [open EXCEPT ![Current(r)] = FALSE]
  /\ UNCHANGED <<backendLock, endpoint, meta, tries, backendVars, state, peer>>

-----------------------------------------------------------------------------
(* A backend: main and run_backend. *)

\* Mistaken form: a backend that does not get the lock goes on without it.
IgnoreLock(d) ==
  /\ backend[d] = "starting"
  /\ backendLock' = IF backendLock = None THEN d ELSE backendLock
  /\ backend' = [backend EXCEPT ![d] = "locked"]
  /\ UNCHANGED <<startLock, endpoint, relayVars, active, elapsed, dialVars>>

\* acquire_exclusive_file_lock(lock, timeout=0).
TakeBackendLock(d) ==
  /\ backend[d] = "starting"
  /\ IF backendLock = None
     THEN /\ backendLock' = d
          /\ backend' = [backend EXCEPT ![d] = "locked"]
          /\ UNCHANGED <<active, elapsed>>
     ELSE Exit(d) /\ UNCHANGED backendLock
  /\ UNCHANGED <<startLock, endpoint, relayVars, dialVars>>

Listen(d) ==
  /\ backend[d] = "locked"
  /\ backend' = [backend EXCEPT ![d] = "listening"]
  /\ UNCHANGED <<startLock, backendLock, endpoint, relayVars, active, elapsed,
                 dialVars>>

Publish(d) ==
  /\ backend[d] = "listening"
  /\ endpoint' = d
  /\ backend' = [backend EXCEPT ![d] = "serving"]
  /\ UNCHANGED <<startLock, backendLock, relayVars, active, elapsed, dialVars>>

\* asyncio accepts the connection and creates its transport; accept() runs in
\* a later iteration of the event loop.
Attach(c) ==
  /\ state[c] = "queued" /\ backend[peer[c]] \in Listening
  /\ state' = [state EXCEPT ![c] = "attached"]
  /\ UNCHANGED <<startLock, backendLock, endpoint, relayVars, backendVars,
                 peer, open>>

Begin(c) ==
  /\ state[c] = "attached"
  /\ state' = [state EXCEPT ![c] = "hello"]
  /\ active' = [active EXCEPT ![peer[c]] = @ + 1]
  /\ UNCHANGED <<startLock, backendLock, endpoint, relayVars, backend, elapsed,
                 peer, open>>

\* Mistaken form: `active` is not decremented.
EndLeaks(c) ==
  /\ state' = [state EXCEPT ![c] = "closed"]
  /\ elapsed' = [elapsed EXCEPT ![peer[c]] = FALSE]
  /\ UNCHANGED <<startLock, backendLock, endpoint, relayVars, backend, active,
                 peer, open>>

\* The finally of accept().
End(c) ==
  /\ state' = [state EXCEPT ![c] = "closed"]
  /\ active' = [active EXCEPT ![peer[c]] = @ - 1]
  /\ elapsed' = [elapsed EXCEPT ![peer[c]] = FALSE]
  /\ UNCHANGED <<startLock, backendLock, endpoint, relayVars, backend, peer,
                 open>>

\* Mistaken form: the secret is not compared.
HelloUnchecked(c) ==
  /\ state[c] = "hello" /\ open[c]
  /\ state' = [state EXCEPT ![c] = "ready"]
  /\ UNCHANGED <<startLock, backendLock, endpoint, relayVars, backendVars,
                 peer, open>>

\* The relay sent the secret of the endpoint it read before it dialled.
Hello(c) ==
  /\ state[c] = "hello" /\ open[c] /\ meta[c[1]] = peer[c]
  /\ state' = [state EXCEPT ![c] = "ready"]
  /\ UNCHANGED <<startLock, backendLock, endpoint, relayVars, backendVars,
                 peer, open>>

WrongSecret(c) ==
  /\ state[c] = "hello" /\ open[c] /\ meta[c[1]] # peer[c]
  /\ End(c)

\* The session's configuration arrives.
Configure(c) ==
  /\ state[c] = "ready" /\ open[c] /\ pc[c[1]] = "session"
  /\ state' = [state EXCEPT ![c] = "session"]
  /\ UNCHANGED <<startLock, backendLock, endpoint, relayVars, backendVars,
                 peer, open>>

\* asyncio.timeout(5) around the handshake and the configuration.
HandshakeTimeout(c) ==
  /\ Slow
  /\ state[c] \in {"hello", "ready"}
  /\ End(c)

\* The relay is gone: every read returns the end of the stream.
EndOfStream(c) ==
  /\ state[c] \in Counted /\ ~open[c]
  /\ End(c)

\* A configuration that is refused, no token, or an upstream error: the
\* backend reports it to this relay only.
SessionFails(c) ==
  /\ state[c] = "session"
  /\ End(c)

IdlePasses(d) ==
  /\ backend[d] \in Listening /\ ~elapsed[d]
  /\ elapsed' = [elapsed EXCEPT ![d] = TRUE]
  /\ UNCHANGED <<startLock, backendLock, endpoint, relayVars, backend, active,
                 dialVars>>

\* Mistaken form: only the time since the last disconnect counts.
StopWhenElapsed(d) ==
  /\ backend[d] = "serving" /\ elapsed[d]
  /\ backend' = [backend EXCEPT ![d] = "closing"]
  /\ UNCHANGED <<startLock, backendLock, endpoint, relayVars, active, elapsed,
                 dialVars>>

\* The loop of run_backend breaks and the listener closes; what only the
\* kernel had accepted is reset.
StopListening(d) ==
  /\ backend[d] = "serving" /\ active[d] = 0 /\ elapsed[d]
  /\ backend' = [backend EXCEPT ![d] = "closing"]
  /\ state' = [c \in Dials |->
                IF peer[c] = d /\ state[c] = "queued" THEN "closed"
                ELSE state[c]]
  /\ UNCHANGED <<startLock, backendLock, endpoint, relayVars, active, elapsed,
                 peer, open>>

\* Mistaken form: the lifetime lock is released before the endpoint goes.
ReleaseFirst(d) ==
  /\ backend[d] = "closing"
  /\ \A c \in Dials : peer[c] = d => state[c] \notin Attached
  /\ backend' = [backend EXCEPT ![d] = "unlinking"]
  /\ backendLock' = None
  /\ UNCHANGED <<startLock, endpoint, relayVars, active, elapsed, dialVars>>

\* `async with server` waits for the connections that have a transport.
Drained(d) ==
  /\ backend[d] = "closing"
  /\ \A c \in Dials : peer[c] = d => state[c] \notin Attached
  /\ backend' = [backend EXCEPT ![d] = "unlinking"]
  /\ UNCHANGED <<startLock, backendLock, endpoint, relayVars, active, elapsed,
                 dialVars>>

Unlink(d) ==
  /\ backend[d] = "unlinking"
  /\ endpoint' = None
  /\ backend' = [backend EXCEPT ![d] = "releasing"]
  /\ UNCHANGED <<startLock, backendLock, relayVars, active, elapsed, dialVars>>

Release(d) ==
  /\ backend[d] = "releasing"
  /\ backendLock' = IF backendLock = d THEN None ELSE backendLock
  /\ Exit(d)
  /\ UNCHANGED <<startLock, endpoint, relayVars, dialVars>>

KillBackend(d) ==
  /\ BackendCrashes /\ Alive(d)
  /\ Dies(d)
  /\ UNCHANGED <<startLock, endpoint, relayVars, peer, open>>

-----------------------------------------------------------------------------
RelayStep(r) ==
  \/ ReadEndpoint(r) \/ Dial(r) \/ Connected(r) \/ Refused(r)
  \/ TakeStartLock(r) \/ StartLockTimeout(r) \/ Spawn(r) \/ CheckChild(r)
  \/ GiveUp(r) \/ Disconnected(r)

BackendStep(d) ==
  \/ TakeBackendLock(d) \/ Listen(d) \/ Publish(d) \/ StopListening(d)
  \/ Drained(d) \/ Unlink(d) \/ Release(d)

DialStep(c) ==
  \/ Attach(c) \/ Begin(c) \/ Hello(c) \/ WrongSecret(c) \/ Configure(c)
  \/ EndOfStream(c)

Next ==
  \/ \E r \in Relays : \/ RelayStep(r) \/ Start(r) \/ Abandon(r)
                       \/ Deadline(r) \/ Finish(r) \/ KillRelay(r)
  \/ \E d \in Relays : BackendStep(d) \/ IdlePasses(d) \/ KillBackend(d)
  \/ \E c \in Dials : DialStep(c) \/ HandshakeTimeout(c) \/ SessionFails(c)

\* Processes that can run do, the event loop takes up what is ready, and time
\* passes; nothing makes agents start or stop, sessions fail, or processes die.
Fairness ==
  /\ \A r \in Relays : WF_vars(RelayStep(r)) /\ WF_vars(Deadline(r))
  /\ \A d \in Relays : WF_vars(BackendStep(d)) /\ WF_vars(IdlePasses(d))
  /\ \A c \in Dials : WF_vars(DialStep(c))

Spec == Init /\ [][Next]_vars
FairSpec == Spec /\ Fairness

-----------------------------------------------------------------------------
(* Properties. *)

TypeOK ==
  /\ startLock \in Maybe /\ backendLock \in Maybe /\ endpoint \in Maybe
  /\ pc \in [Relays -> RelayLabels]
  /\ phase \in [Relays -> Phases]
  /\ meta \in [Relays -> Maybe]
  /\ tries \in [Relays -> 0..MaxTimeouts]
  /\ late \in [Relays -> BOOLEAN]
  /\ backend \in [Relays -> BackendStates]
  /\ active \in [Relays -> Nat]
  /\ elapsed \in [Relays -> BOOLEAN]
  /\ state \in [Dials -> DialStates]
  /\ peer \in [Dials -> Maybe]
  /\ open \in [Dials -> BOOLEAN]

\* All sessions of a runtime directory, those of abandoned dials and of a
\* backend that is stopping included, are in the one process that holds the
\* lifetime lock: process-wide state of the backend (its pinned workspace, its
\* token cache) is never duplicated.
OneBackendServes ==
  \A c \in Dials : state[c] \in Counted => backendLock = peer[c]

\* While a backend serves, endpoint.json names it, whatever stops or starts
\* around it; a backend that leaves of its own accord leaves no endpoint.
EndpointOwned ==
  \A d \in Relays :
    /\ backend[d] = "serving" => endpoint = d
    /\ backend[d] = "releasing" => endpoint = None

\* A relay is in session only with the backend whose endpoint it read, even
\* when that backend died and another one listens on the same port.
SessionIsAuthentic ==
  \A r \in Relays : pc[r] = "session" => peer[Current(r)] = meta[r]

\* The idle stop takes no backend away from a relay that is in session,
\* however the sessions and the abandoned dials before it ended.
IdleStopSparesSessions ==
  [][\A d, r \in Relays :
       backend[d] = "serving" /\ backend'[d] = "closing" /\ pc[r] = "session" =>
         peer[Current(r)] # d \/ state[Current(r)] = "closed"]_vars

\* Every relay that looks for a backend gets a session or an error, unless its
\* agent kills it.
RelayAnswered ==
  \A r \in Relays : pc[r] = "read" ~> pc[r] \in Gone \cup {"session"}

\* When the last relay is gone every backend stops, however they went.
BackendStops ==
  (\A r \in Relays : pc[r] \in Gone) ~> (\A d \in Relays : ~Alive(d))
=============================================================================
