----------------------------- MODULE McpProofs ------------------------------
(***************************************************************************)
(* The safety properties of McpBackend, for every set of relays and every  *)
(* combination of its faults, and of McpBridge, for every set of requests. *)
(*                                                                         *)
(* The inductive invariant of McpBackend ties a backend's counter to the   *)
(* connections its coroutines work on, and says which connections a        *)
(* backend can have at each of its labels.                                 *)
(*                                                                         *)
(* The one of McpBridge says where each request is: nowhere, at the        *)
(* server, on its way back, in a task, or answered; and for each of these  *)
(* places what the books and the sign-in know of it.  It speaks of one     *)
(* request at a time, so a step has to be looked at for the request it     *)
(* works on and leaves the places of the others alone.                     *)
(***************************************************************************)
EXTENDS McpBackend, McpBridge, FiniteSetTheorems, TLAPS

USE DEF Maybe, Connecting, Gone, RelayLabels, Phases, Listening, Holding,
        BackendStates, Counted, Attached, DialStates

-----------------------------------------------------------------------------
(* The inductive invariant. *)

LockInv == \A d \in Relays : backend[d] \in Holding => backendLock = d

EndpointInv == \A d \in Relays :
  /\ backend[d] \in {"serving", "closing", "unlinking"} => endpoint = d
  /\ backend[d] = "releasing" => endpoint = None

\* A connection in progress is at a backend that can have it, and one that
\* the relay has not closed is the relay's current one.
DialInv == \A c \in Dials :
  /\ state[c] = "queued" => backend[peer[c]] \in Listening
  /\ state[c] \in Attached => backend[peer[c]] \in Listening \cup {"closing"}
  /\ state[c] \in {"queued"} \cup Attached => peer[c] \in Relays
  /\ state[c] \in {"queued"} \cup Attached /\ open[c] =>
       c = Current(c[1]) /\ pc[c[1]] \in {"await", "session"}
  /\ /\ state[c] \in {"ready", "session"}
     /\ c = Current(c[1]) /\ pc[c[1]] \in {"await", "session"}
     => peer[c] = meta[c[1]]

\* The counter of a backend is the number of connections it works on.
CountInv == \A d \in Relays : active[d] = Cardinality(Handled(d))

\* A relay that has not reached its spawn has no child.
SpawnInv == \A r \in Relays :
  /\ \/ pc[r] \in {"idle", "lock", "spawn"}
     \/ pc[r] \in Connecting /\ phase[r] \in {"first", "locked"}
     => backend[r] = "none"
  /\ pc[r] = "check" => phase[r] = "poll"

\* A relay has not closed the dial it works on, nor those to come.
OpenInv == \A c \in Dials :
  \/ c[2] > tries[c[1]]
  \/ c[2] = tries[c[1]] /\ pc[c[1]] \notin {"done", "dead"}
  => open[c]

\* The backend that answered a relay in session keeps it or has closed it.
SessionInv == \A r \in Relays : pc[r] = "session" =>
  /\ state[Current(r)] \in {"ready", "session", "closed"}
  /\ peer[Current(r)] = meta[r]

Inv == /\ TypeOK /\ LockInv /\ EndpointInv /\ DialInv /\ CountInv
       /\ SpawnInv /\ OpenInv /\ SessionInv

-----------------------------------------------------------------------------
(* Facts used by every step. *)

LEMMA CurrentIsDial ==
  ASSUME TypeOK, NEW r \in Relays
  PROVE  Current(r) \in Dials /\ Current(r)[1] = r /\ Current(r)[2] = tries[r]
BY DEF TypeOK, Current, Dials

LEMMA HandledFinite ==
  ASSUME NEW d
  PROVE  IsFiniteSet(Handled(d))
<1>1. IsFiniteSet(0..MaxTimeouts)  BY FS_Interval, ConstantsAssumption
<1>2. IsFiniteSet(Dials)  BY <1>1, FS_Product, ConstantsAssumption DEF Dials
<1> QED  BY <1>2, FS_Subset DEF Handled

\* A relay that does not wait for an answer has no dial in progress.
LEMMA NotDialling ==
  ASSUME Inv, NEW r \in Relays,
         pc[r] \notin {"await", "session", "done", "dead"}
  PROVE  state[Current(r)] \notin {"queued"} \cup Attached
<1>1. /\ Current(r) \in Dials /\ Current(r)[1] = r /\ Current(r)[2] = tries[r]
  BY CurrentIsDial DEF Inv
<1>2. open[Current(r)]  BY <1>1 DEF Inv, OpenInv
<1> QED  BY <1>1, <1>2 DEF Inv, DialInv

\* A backend that does not listen and does not drain works on no connection.
LEMMA NothingHandled ==
  ASSUME Inv, NEW d \in Relays, backend[d] \notin Listening \cup {"closing"}
  PROVE  Handled(d) = {}
BY DEF Inv, DialInv, Handled

-----------------------------------------------------------------------------
(* The relay's steps. *)

LEMMA StartKeeps ==
  ASSUME Inv, NEW r \in Relays, Start(r)
  PROVE  Inv'
<1> USE DEF Inv, Start, relayVars, backendVars, dialVars
<1>1. TypeOK'  BY DEF TypeOK
<1>2. LockInv' /\ EndpointInv'  BY DEF LockInv, EndpointInv
<1>3. DialInv'  BY CurrentIsDial DEF TypeOK, DialInv, Current, Dials
<1>4. CountInv'  BY DEF CountInv, Handled
<1>5. SpawnInv'  BY DEF TypeOK, SpawnInv
<1>6. OpenInv'  BY DEF TypeOK, OpenInv, Dials
<1>7. SessionInv'  BY DEF TypeOK, SessionInv, Current
<1> QED  BY <1>1, <1>2, <1>3, <1>4, <1>5, <1>6, <1>7

LEMMA ReadEndpointKeeps ==
  ASSUME Inv, NEW r \in Relays, ReadEndpoint(r)
  PROVE  Inv'
<1> USE DEF Inv, ReadEndpoint, relayVars, backendVars, dialVars
<1>1. TypeOK'  BY DEF TypeOK, AfterFailure
<1>2. LockInv' /\ EndpointInv'  BY DEF LockInv, EndpointInv
<1>3. DialInv'  BY DEF TypeOK, DialInv, AfterFailure, Current, Dials
<1>4. CountInv'  BY DEF CountInv, Handled
<1>5. SpawnInv'  BY DEF TypeOK, SpawnInv, AfterFailure
<1>6. OpenInv'  BY DEF TypeOK, OpenInv, Dials, AfterFailure
<1>7. SessionInv'  BY DEF TypeOK, SessionInv, Current, AfterFailure
<1> QED  BY <1>1, <1>2, <1>3, <1>4, <1>5, <1>6, <1>7

LEMMA ConnectedKeeps ==
  ASSUME Inv, NEW r \in Relays, Connected(r)
  PROVE  Inv'
<1> USE DEF Inv, Connected, relayVars, backendVars, dialVars
<1>1. TypeOK'  BY DEF TypeOK, Leave, ReleaseStart
<1>2. LockInv' /\ EndpointInv'  BY DEF LockInv, EndpointInv
<1>3. DialInv'  BY DEF TypeOK, DialInv, Leave, Current, Dials
<1>4. CountInv'  BY DEF CountInv, Handled
<1>5. SpawnInv'  BY DEF TypeOK, SpawnInv, Leave
<1>6. OpenInv'  BY DEF TypeOK, OpenInv, Dials, Leave
<1>7. SessionInv'
  BY CurrentIsDial DEF TypeOK, SessionInv, DialInv, Current, Leave
<1> QED  BY <1>1, <1>2, <1>3, <1>4, <1>5, <1>6, <1>7

LEMMA TakeStartLockKeeps ==
  ASSUME Inv, NEW r \in Relays, TakeStartLock(r)
  PROVE  Inv'
<1> USE DEF Inv, TakeStartLock, relayVars, backendVars, dialVars
<1>1. TypeOK'  BY DEF TypeOK
<1>2. LockInv' /\ EndpointInv'  BY DEF LockInv, EndpointInv
<1>3. DialInv'  BY CurrentIsDial DEF TypeOK, DialInv, Current, Dials
<1>4. CountInv'  BY DEF CountInv, Handled
<1>5. SpawnInv'  BY DEF TypeOK, SpawnInv
<1>6. OpenInv'  BY DEF TypeOK, OpenInv, Dials
<1>7. SessionInv'  BY DEF TypeOK, SessionInv, Current
<1> QED  BY <1>1, <1>2, <1>3, <1>4, <1>5, <1>6, <1>7

LEMMA StartLockTimeoutKeeps ==
  ASSUME Inv, NEW r \in Relays, StartLockTimeout(r)
  PROVE  Inv'
<1> USE DEF Inv, StartLockTimeout, relayVars, backendVars, dialVars
<1>1. TypeOK'  BY DEF TypeOK, Leave
<1>2. LockInv' /\ EndpointInv'  BY DEF LockInv, EndpointInv
<1>3. DialInv'  BY DEF TypeOK, DialInv, Leave, Current, Dials
<1>4. CountInv'  BY DEF CountInv, Handled
<1>5. SpawnInv'  BY DEF TypeOK, SpawnInv, Leave
<1>6. OpenInv'  BY DEF TypeOK, OpenInv, Dials, Leave
<1>7. SessionInv'  BY DEF TypeOK, SessionInv, Current, Leave
<1> QED  BY <1>1, <1>2, <1>3, <1>4, <1>5, <1>6, <1>7

LEMMA DeadlineKeeps ==
  ASSUME Inv, NEW r \in Relays, Deadline(r)
  PROVE  Inv'
<1> USE DEF Inv, Deadline, relayVars, backendVars, dialVars
<1>1. TypeOK'  BY DEF TypeOK
<1>2. LockInv' /\ EndpointInv'  BY DEF LockInv, EndpointInv
<1>3. DialInv'  BY CurrentIsDial DEF TypeOK, DialInv, Current, Dials
<1>4. CountInv'  BY DEF CountInv, Handled
<1>5. SpawnInv'  BY DEF TypeOK, SpawnInv
<1>6. OpenInv'  BY DEF TypeOK, OpenInv, Dials
<1>7. SessionInv'  BY DEF TypeOK, SessionInv, Current
<1> QED  BY <1>1, <1>2, <1>3, <1>4, <1>5, <1>6, <1>7

LEMMA CheckChildKeeps ==
  ASSUME Inv, NEW r \in Relays, CheckChild(r)
  PROVE  Inv'
<1> USE DEF Inv, CheckChild, relayVars, backendVars, dialVars
<1>1. TypeOK'  BY DEF TypeOK
<1>2. LockInv' /\ EndpointInv'  BY DEF LockInv, EndpointInv
<1>3. DialInv'  BY DEF TypeOK, DialInv, Current, Dials
<1>4. CountInv'  BY DEF CountInv, Handled
<1>5. SpawnInv'  BY DEF TypeOK, SpawnInv
<1>6. OpenInv'  BY DEF TypeOK, OpenInv, Dials
<1>7. SessionInv'  BY DEF TypeOK, SessionInv, Current
<1> QED  BY <1>1, <1>2, <1>3, <1>4, <1>5, <1>6, <1>7

LEMMA DisconnectedKeeps ==
  ASSUME Inv, NEW r \in Relays, Disconnected(r)
  PROVE  Inv'
<1> USE DEF Inv, Disconnected, relayVars, backendVars, dialVars
<1>1. TypeOK'  BY DEF TypeOK, Leave
<1>2. LockInv' /\ EndpointInv'  BY DEF LockInv, EndpointInv
<1>3. DialInv'
  <2>1. ASSUME NEW b \in Dials, state[b] \in {"queued"} \cup Attached,
               b = Current(b[1])
        PROVE  b[1] # r
    BY <2>1
  <2>2. \A b \in Dials : b[1] # r => pc'[b[1]] = pc[b[1]]
    BY DEF TypeOK, Leave, Dials
  <2>3. \A b \in Dials : Current(b[1])' = Current(b[1])  BY DEF Current
  <2>4. pc'[r] = "failed"  BY DEF TypeOK, Leave
  <2> QED  BY <2>1, <2>2, <2>3, <2>4 DEF DialInv
<1>4. CountInv'  BY DEF CountInv, Handled
<1>5. SpawnInv'  BY DEF TypeOK, SpawnInv, Leave
<1>6. OpenInv'  BY DEF TypeOK, OpenInv, Dials, Leave
<1>7. SessionInv'  BY DEF TypeOK, SessionInv, Current, Leave
<1> QED  BY <1>1, <1>2, <1>3, <1>4, <1>5, <1>6, <1>7

LEMMA DialKeeps ==
  ASSUME Inv, NEW r \in Relays, Dial(r)
  PROVE  Inv'
<1> DEFINE c == Current(r)
<1> USE DEF Inv, backendVars
<1>1. /\ pc[r] = "dial"
      /\ UNCHANGED <<startLock, backendLock, endpoint, phase, meta, tries,
                     late, backend, active, elapsed, open>>
  BY DEF Dial
<1>2. c \in Dials /\ c[1] = r /\ c[2] = tries[r]  BY CurrentIsDial
<1>3. state[c] \notin {"queued"} \cup Attached  BY <1>1, NotDialling
<1>4. CASE pc' = [pc EXCEPT ![r] = AfterFailure(r)] /\ UNCHANGED <<state, peer>>
  <2>1. TypeOK'  BY <1>1, <1>4 DEF TypeOK, AfterFailure
  <2>2. DialInv'
    BY <1>1, <1>4 DEF TypeOK, DialInv, AfterFailure, Dials, Current
  <2>3. SpawnInv'  BY <1>1, <1>4 DEF TypeOK, SpawnInv, AfterFailure
  <2>4. OpenInv'  BY <1>1, <1>4 DEF TypeOK, OpenInv, Dials, AfterFailure
  <2>5. SessionInv'
    BY <1>1, <1>4 DEF TypeOK, SessionInv, Current, AfterFailure
  <2> QED
    BY <1>1, <1>4, <2>1, <2>2, <2>3, <2>4, <2>5
       DEF LockInv, EndpointInv, CountInv, Handled
<1>5. ASSUME NEW d \in Relays, backend[d] \in Listening,
             state' = [state EXCEPT ![c] = "queued"],
             peer' = [peer EXCEPT ![c] = d],
             pc' = [pc EXCEPT ![r] = "await"]
      PROVE  Inv'
  <2> USE <1>1, <1>2, <1>5
  <2>1. TypeOK'  BY DEF TypeOK
  <2>2. /\ state'[c] = "queued" /\ peer'[c] = d /\ pc'[r] = "await"
        /\ \A b \in Dials \ {c} : state'[b] = state[b] /\ peer'[b] = peer[b]
        /\ \A q \in Relays \ {r} : pc'[q] = pc[q]
        /\ \A q \in Relays : Current(q)' = Current(q)
    BY DEF TypeOK, Current
  <2>3. DialInv'
    <3>1. ASSUME NEW b \in Dials \ {c}, state[b] \in {"queued"} \cup Attached,
                 open[b]
          PROVE  b[1] # r
      BY <3>1 DEF DialInv
    <3>2. ASSUME NEW b \in Dials \ {c}, b[1] = r  PROVE b # Current(b[1])
      BY <3>2
    <3>4. ASSUME NEW b \in Dials \ {c}, b[1] # r
          PROVE  pc'[b[1]] = pc[b[1]]
      BY <3>4, <2>2 DEF Dials
    <3> HIDE DEF c
    <3>5. ASSUME NEW b \in Dials \ {c}
          PROVE  /\ state[b] = "queued" => backend[peer[b]] \in Listening
                 /\ state[b] \in Attached =>
                      backend[peer[b]] \in Listening \cup {"closing"}
                 /\ state[b] \in {"queued"} \cup Attached => peer[b] \in Relays
      BY DEF DialInv
    <3>6. ASSUME NEW b \in Dials \ {c},
                 state[b] \in {"queued"} \cup Attached, open[b]
          PROVE  b = Current(b[1]) /\ pc'[b[1]] \in {"await", "session"}
      BY <3>1, <3>4, <3>6 DEF DialInv
    <3>7. ASSUME NEW b \in Dials \ {c}, state[b] \in {"ready", "session"},
                 b = Current(b[1]), pc'[b[1]] \in {"await", "session"}
          PROVE  peer[b] = meta[b[1]]
      BY <3>2, <3>4, <3>7 DEF DialInv
    <3>8. c = Current(r)  BY DEF c
    <3>9. ASSUME NEW b \in Dials, b # c
          PROVE  /\ state'[b] = state[b] /\ peer'[b] = peer[b]
                 /\ Current(b[1])' = Current(b[1])
      BY <2>2, <3>9 DEF Dials
    <3> QED  BY <2>2, <3>5, <3>6, <3>7, <3>8, <3>9 DEF DialInv
  <2>4. ASSUME NEW b \in Relays  PROVE Handled(b)' = Handled(b)
    BY <1>3, <2>2 DEF Handled
  <2>5. CountInv'  BY <2>4 DEF CountInv
  <2>6. SpawnInv'  BY DEF TypeOK, SpawnInv
  <2>7. OpenInv'  BY DEF TypeOK, OpenInv, Dials
  <2>8. SessionInv'
    <3>1. ASSUME NEW q \in Relays, q # r  PROVE Current(q) \in Dials \ {c}
      BY <3>1, CurrentIsDial
    <3> QED  BY <2>2, <3>1 DEF SessionInv
  <2> QED
    BY <2>1, <2>3, <2>5, <2>6, <2>7, <2>8 DEF LockInv, EndpointInv
<1> QED  BY <1>1, <1>4, <1>5 DEF Dial

LEMMA RefusedKeeps ==
  ASSUME Inv, NEW r \in Relays, Refused(r)
  PROVE  Inv'
<1> USE DEF Inv, Refused, relayVars, backendVars, dialVars
<1>1. TypeOK'  BY CurrentIsDial DEF TypeOK, AfterFailure
<1>2. LockInv' /\ EndpointInv'  BY DEF LockInv, EndpointInv
<1>3. DialInv'
  BY CurrentIsDial DEF TypeOK, DialInv, AfterFailure, Current, Dials
<1>4. CountInv'  BY CurrentIsDial DEF TypeOK, CountInv, Handled
<1>5. SpawnInv'  BY DEF TypeOK, SpawnInv, AfterFailure
<1>6. OpenInv'  BY DEF TypeOK, OpenInv, Dials, AfterFailure
<1>7. SessionInv'
  BY CurrentIsDial DEF TypeOK, SessionInv, Current, Dials, AfterFailure
<1> QED  BY <1>1, <1>2, <1>3, <1>4, <1>5, <1>6, <1>7

LEMMA AbandonKeeps ==
  ASSUME Inv, NEW r \in Relays, Abandon(r)
  PROVE  Inv'
<1> USE DEF Inv, Abandon, relayVars, backendVars, dialVars
<1>1. TypeOK'  BY CurrentIsDial, ConstantsAssumption DEF TypeOK, AfterFailure
<1>2. LockInv' /\ EndpointInv'  BY DEF LockInv, EndpointInv
<1>3. DialInv'
  BY CurrentIsDial DEF TypeOK, DialInv, AfterFailure, Current, Dials
<1>4. CountInv'  BY DEF CountInv, Handled
<1>5. SpawnInv'  BY DEF TypeOK, SpawnInv, AfterFailure
<1>6. OpenInv'
  BY CurrentIsDial DEF TypeOK, OpenInv, Current, Dials, AfterFailure
<1>7. SessionInv'
  BY CurrentIsDial DEF TypeOK, SessionInv, Current, Dials, AfterFailure
<1> QED  BY <1>1, <1>2, <1>3, <1>4, <1>5, <1>6, <1>7

LEMMA FinishKeeps ==
  ASSUME Inv, NEW r \in Relays, Finish(r)
  PROVE  Inv'
<1> USE DEF Inv, Finish, relayVars, backendVars, dialVars
<1>1. TypeOK'  BY CurrentIsDial DEF TypeOK
<1>2. LockInv' /\ EndpointInv'  BY DEF LockInv, EndpointInv
<1>3. DialInv'  BY CurrentIsDial DEF TypeOK, DialInv, Current, Dials
<1>4. CountInv'  BY DEF CountInv, Handled
<1>5. SpawnInv'  BY DEF TypeOK, SpawnInv
<1>6. OpenInv'  BY CurrentIsDial DEF TypeOK, OpenInv, Current, Dials
<1>7. SessionInv'  BY DEF TypeOK, SessionInv, Current
<1> QED  BY <1>1, <1>2, <1>3, <1>4, <1>5, <1>6, <1>7

LEMMA KillRelayKeeps ==
  ASSUME Inv, NEW r \in Relays, KillRelay(r)
  PROVE  Inv'
<1> USE DEF Inv, KillRelay, relayVars, backendVars, dialVars
<1>1. TypeOK'  BY CurrentIsDial DEF TypeOK, Leave, ReleaseStart
<1>2. LockInv' /\ EndpointInv'  BY DEF LockInv, EndpointInv
<1>3. DialInv'  BY CurrentIsDial DEF TypeOK, DialInv, Leave, Current, Dials
<1>4. CountInv'  BY DEF CountInv, Handled
<1>5. SpawnInv'  BY DEF TypeOK, SpawnInv, Leave
<1>6. OpenInv'  BY CurrentIsDial DEF TypeOK, OpenInv, Current, Dials, Leave
<1>7. SessionInv'  BY DEF TypeOK, SessionInv, Current, Leave
<1> QED  BY <1>1, <1>2, <1>3, <1>4, <1>5, <1>6, <1>7

LEMMA SpawnKeeps ==
  ASSUME Inv, NEW r \in Relays, Spawn(r)
  PROVE  Inv'
<1> USE DEF Inv, Spawn, relayVars, backendVars, dialVars
<1>1. TypeOK'  BY DEF TypeOK
<1>2. LockInv' /\ EndpointInv'  BY DEF TypeOK, LockInv, EndpointInv, SpawnInv
<1>3. DialInv'  BY DEF TypeOK, DialInv, SpawnInv, Current, Dials
<1>4. CountInv'  BY DEF CountInv, Handled
<1>5. SpawnInv'  BY DEF TypeOK, SpawnInv
<1>6. OpenInv'  BY DEF TypeOK, OpenInv, Dials
<1>7. SessionInv'  BY DEF TypeOK, SessionInv, Current
<1> QED  BY <1>1, <1>2, <1>3, <1>4, <1>5, <1>6, <1>7

\* The death of a backend, and of its launcher's connect_backend if that is
\* what killed it: only its own connections close, and its counter with them.
LEMMA DiesKeeps ==
  ASSUME Inv, NEW d \in Relays, Dies(d), NEW r \in Relays,
         \/ UNCHANGED <<startLock, pc, phase, late>>
         \/ pc[r] = "giveup" /\ Leave(r, "failed") /\ ReleaseStart(r),
         backend[d] # "none",
         UNCHANGED <<endpoint, meta, tries, peer, open>>
  PROVE  Inv'
<1> USE DEF Inv, Dies, Exit
<1>1. TypeOK'  BY DEF TypeOK, Leave, ReleaseStart
<1>2. LockInv' /\ EndpointInv'  BY DEF TypeOK, LockInv, EndpointInv
<1>3. DialInv'
  BY DEF TypeOK, DialInv, Leave, Dials, Current
<1>4. CountInv'
  <2>1. Handled(d)' = {}  BY DEF TypeOK, Handled
  <2>2. ASSUME NEW b \in Relays, b # d  PROVE Handled(b)' = Handled(b)
    BY <2>2 DEF TypeOK, Handled
  <2> QED  BY <2>1, <2>2, FS_EmptySet DEF TypeOK, CountInv
<1>5. SpawnInv'  BY DEF TypeOK, SpawnInv, Leave
<1>6. OpenInv'  BY DEF TypeOK, OpenInv, Leave, Dials
<1>7. SessionInv'
  BY CurrentIsDial DEF TypeOK, SessionInv, Current, Leave
<1> QED  BY <1>1, <1>2, <1>3, <1>4, <1>5, <1>6, <1>7

LEMMA GiveUpKeeps ==
  ASSUME Inv, NEW r \in Relays, GiveUp(r)
  PROVE  Inv'
<1>1. CASE Alive(r)
  BY <1>1, DiesKeeps DEF GiveUp, Alive
<1>2. CASE ~Alive(r)
  <2> USE <1>2 DEF Inv, GiveUp, backendVars
  <2>1. TypeOK'  BY DEF TypeOK, Leave, ReleaseStart
  <2>2. LockInv' /\ EndpointInv'  BY DEF LockInv, EndpointInv
  <2>3. DialInv'  BY DEF TypeOK, DialInv, Leave, Dials, Current
  <2>4. CountInv'  BY DEF CountInv, Handled
  <2>5. SpawnInv'  BY DEF TypeOK, SpawnInv, Leave
  <2>6. OpenInv'  BY DEF TypeOK, OpenInv, Leave, Dials
  <2>7. SessionInv'  BY DEF TypeOK, SessionInv, Current, Leave
  <2> QED  BY <2>1, <2>2, <2>3, <2>4, <2>5, <2>6, <2>7
<1> QED  BY <1>1, <1>2

LEMMA KillBackendKeeps ==
  ASSUME Inv, NEW d \in Relays, KillBackend(d)
  PROVE  Inv'
BY DiesKeeps DEF KillBackend, Alive, relayVars

-----------------------------------------------------------------------------
(* The backend's steps. *)

LEMMA ListenKeeps ==
  ASSUME Inv, NEW d \in Relays, Listen(d)
  PROVE  Inv'
<1> USE DEF Inv, Listen, relayVars, backendVars, dialVars
<1>1. TypeOK'  BY DEF TypeOK
<1>2. LockInv' /\ EndpointInv'  BY DEF TypeOK, LockInv, EndpointInv
<1>3. DialInv'  BY DEF TypeOK, DialInv, Current
<1>4. CountInv'  BY DEF CountInv, Handled
<1>5. SpawnInv'  BY DEF TypeOK, SpawnInv
<1>6. OpenInv'  BY DEF OpenInv
<1>7. SessionInv'  BY DEF SessionInv, Current
<1> QED  BY <1>1, <1>2, <1>3, <1>4, <1>5, <1>6, <1>7

LEMMA PublishKeeps ==
  ASSUME Inv, NEW d \in Relays, Publish(d)
  PROVE  Inv'
<1> USE DEF Inv, Publish, relayVars, backendVars, dialVars
<1>1. TypeOK'  BY DEF TypeOK
<1>2. LockInv' /\ EndpointInv'  BY DEF TypeOK, LockInv, EndpointInv
<1>3. DialInv'  BY DEF TypeOK, DialInv, Current
<1>4. CountInv'  BY DEF CountInv, Handled
<1>5. SpawnInv'  BY DEF TypeOK, SpawnInv
<1>6. OpenInv'  BY DEF OpenInv
<1>7. SessionInv'  BY DEF SessionInv, Current
<1> QED  BY <1>1, <1>2, <1>3, <1>4, <1>5, <1>6, <1>7

LEMMA UnlinkKeeps ==
  ASSUME Inv, NEW d \in Relays, Unlink(d)
  PROVE  Inv'
<1> USE DEF Inv, Unlink, relayVars, backendVars, dialVars
<1>1. TypeOK'  BY DEF TypeOK
<1>2. LockInv' /\ EndpointInv'  BY DEF TypeOK, LockInv, EndpointInv
<1>3. DialInv'  BY DEF TypeOK, DialInv, Current
<1>4. CountInv'  BY DEF CountInv, Handled
<1>5. SpawnInv'  BY DEF TypeOK, SpawnInv
<1>6. OpenInv'  BY DEF OpenInv
<1>7. SessionInv'  BY DEF SessionInv, Current
<1> QED  BY <1>1, <1>2, <1>3, <1>4, <1>5, <1>6, <1>7

LEMMA DrainedKeeps ==
  ASSUME Inv, NEW d \in Relays, Drained(d)
  PROVE  Inv'
<1> USE DEF Inv, Drained, relayVars, backendVars, dialVars
<1>1. TypeOK'  BY DEF TypeOK
<1>2. LockInv' /\ EndpointInv'  BY DEF TypeOK, LockInv, EndpointInv
<1>3. DialInv'  BY DEF TypeOK, DialInv, Current
<1>4. CountInv'  BY DEF CountInv, Handled
<1>5. SpawnInv'  BY DEF TypeOK, SpawnInv
<1>6. OpenInv'  BY DEF OpenInv
<1>7. SessionInv'  BY DEF SessionInv, Current
<1> QED  BY <1>1, <1>2, <1>3, <1>4, <1>5, <1>6, <1>7

LEMMA IdlePassesKeeps ==
  ASSUME Inv, NEW d \in Relays, IdlePasses(d)
  PROVE  Inv'
<1> USE DEF Inv, IdlePasses, relayVars, backendVars, dialVars
<1>1. TypeOK'  BY DEF TypeOK
<1>2. LockInv' /\ EndpointInv'  BY DEF LockInv, EndpointInv
<1>3. DialInv'  BY DEF DialInv, Current
<1>4. CountInv'  BY DEF CountInv, Handled
<1>5. SpawnInv'  BY DEF SpawnInv
<1>6. OpenInv'  BY DEF OpenInv
<1>7. SessionInv'  BY DEF SessionInv, Current
<1> QED  BY <1>1, <1>2, <1>3, <1>4, <1>5, <1>6, <1>7

LEMMA TakeBackendLockKeeps ==
  ASSUME Inv, NEW d \in Relays, TakeBackendLock(d)
  PROVE  Inv'
<1> USE DEF Inv, TakeBackendLock, relayVars, backendVars, dialVars
<1>1. TypeOK'
  <2>1. CASE backendLock = None  BY <2>1 DEF TypeOK
  <2>2. CASE backendLock # None
    <3>1. /\ backend' = [backend EXCEPT ![d] = "dead"]
          /\ active' = [active EXCEPT ![d] = 0]
          /\ elapsed' = [elapsed EXCEPT ![d] = FALSE]
          /\ UNCHANGED <<backendLock, startLock, endpoint, pc, phase, meta,
                         tries, late, state, peer, open>>
      BY <2>2 DEF Exit
    <3>2. elapsed' \in [Relays -> BOOLEAN]  BY <3>1 DEF TypeOK
    <3>3. backend' \in [Relays -> BackendStates]  BY <3>1 DEF TypeOK
    <3> QED  BY <3>1, <3>2, <3>3 DEF TypeOK
  <2> QED  BY <2>1, <2>2
<1>2. LockInv' /\ EndpointInv'
  BY ConstantsAssumption DEF TypeOK, LockInv, EndpointInv, Exit
<1>3. DialInv'  BY DEF TypeOK, DialInv, Exit, Current
<1>4. CountInv'
  BY NothingHandled, FS_EmptySet DEF TypeOK, CountInv, Handled, Exit
<1>5. SpawnInv'  BY DEF TypeOK, SpawnInv, Exit
<1>6. OpenInv'  BY DEF OpenInv
<1>7. SessionInv'  BY DEF SessionInv, Current
<1> QED  BY <1>1, <1>2, <1>3, <1>4, <1>5, <1>6, <1>7

LEMMA ReleaseKeeps ==
  ASSUME Inv, NEW d \in Relays, Release(d)
  PROVE  Inv'
<1> USE DEF Inv, Release, relayVars, backendVars, dialVars
<1>1. TypeOK'  BY DEF TypeOK, Exit
<1>2. LockInv' /\ EndpointInv'  BY DEF TypeOK, LockInv, EndpointInv, Exit
<1>3. DialInv'  BY DEF TypeOK, DialInv, Exit, Current
<1>4. CountInv'
  BY NothingHandled, FS_EmptySet DEF TypeOK, CountInv, Handled, Exit
<1>5. SpawnInv'  BY DEF TypeOK, SpawnInv, Exit
<1>6. OpenInv'  BY DEF OpenInv
<1>7. SessionInv'  BY DEF SessionInv, Current
<1> QED  BY <1>1, <1>2, <1>3, <1>4, <1>5, <1>6, <1>7

LEMMA StopListeningKeeps ==
  ASSUME Inv, NEW d \in Relays, StopListening(d)
  PROVE  Inv'
<1> USE DEF Inv, StopListening, relayVars
<1>1. TypeOK'  BY DEF TypeOK
<1>2. LockInv' /\ EndpointInv'  BY DEF TypeOK, LockInv, EndpointInv
<1>3. DialInv'  BY DEF TypeOK, DialInv, Current
<1>4. CountInv'
  <2>1. ASSUME NEW b \in Relays  PROVE Handled(b)' = Handled(b)
    BY DEF TypeOK, Handled
  <2> QED  BY <2>1 DEF CountInv
<1>5. SpawnInv'  BY DEF TypeOK, SpawnInv
<1>6. OpenInv'  BY DEF OpenInv
<1>7. SessionInv'  BY CurrentIsDial DEF TypeOK, SessionInv, Current
<1> QED  BY <1>1, <1>2, <1>3, <1>4, <1>5, <1>6, <1>7

-----------------------------------------------------------------------------
(* The steps of one connection. *)

LEMMA AttachKeeps ==
  ASSUME Inv, NEW c \in Dials, Attach(c)
  PROVE  Inv'
<1> USE DEF Inv, Attach, relayVars, backendVars, dialVars
<1>1. TypeOK'  BY DEF TypeOK
<1>2. LockInv' /\ EndpointInv'  BY DEF LockInv, EndpointInv
<1>3. DialInv'  BY DEF TypeOK, DialInv, Current
<1>4. CountInv'  BY DEF TypeOK, CountInv, Handled
<1>5. SpawnInv'  BY DEF SpawnInv
<1>6. OpenInv'  BY DEF OpenInv
<1>7. SessionInv'  BY DEF TypeOK, SessionInv, Current
<1> QED  BY <1>1, <1>2, <1>3, <1>4, <1>5, <1>6, <1>7

LEMMA HelloKeeps ==
  ASSUME Inv, NEW c \in Dials, Hello(c)
  PROVE  Inv'
<1> USE DEF Inv, Hello, relayVars, backendVars, dialVars
<1>1. TypeOK'  BY DEF TypeOK
<1>2. LockInv' /\ EndpointInv'  BY DEF LockInv, EndpointInv
<1>3. DialInv'  BY DEF TypeOK, DialInv, Current
<1>4. CountInv'  BY DEF TypeOK, CountInv, Handled
<1>5. SpawnInv'  BY DEF SpawnInv
<1>6. OpenInv'  BY DEF OpenInv
<1>7. SessionInv'  BY DEF TypeOK, SessionInv, Current
<1> QED  BY <1>1, <1>2, <1>3, <1>4, <1>5, <1>6, <1>7

LEMMA ConfigureKeeps ==
  ASSUME Inv, NEW c \in Dials, Configure(c)
  PROVE  Inv'
<1> USE DEF Inv, Configure, relayVars, backendVars, dialVars
<1>1. TypeOK'  BY DEF TypeOK
<1>2. LockInv' /\ EndpointInv'  BY DEF LockInv, EndpointInv
<1>3. DialInv'  BY DEF TypeOK, DialInv, Current
<1>4. CountInv'  BY DEF TypeOK, CountInv, Handled
<1>5. SpawnInv'  BY DEF SpawnInv
<1>6. OpenInv'  BY DEF OpenInv
<1>7. SessionInv'  BY DEF TypeOK, SessionInv, Current
<1> QED  BY <1>1, <1>2, <1>3, <1>4, <1>5, <1>6, <1>7

LEMMA BeginKeeps ==
  ASSUME Inv, NEW c \in Dials, Begin(c)
  PROVE  Inv'
<1> USE DEF Inv, Begin, relayVars
<1>0. peer[c] \in Relays  BY DEF DialInv
<1>1. TypeOK'  BY <1>0 DEF TypeOK
<1>2. LockInv' /\ EndpointInv'  BY DEF LockInv, EndpointInv
<1>3. DialInv'  BY DEF TypeOK, DialInv, Current
<1>4. CountInv'
  <2>1. /\ Handled(peer[c])' = Handled(peer[c]) \cup {c}
        /\ c \notin Handled(peer[c])
    BY DEF TypeOK, Handled
  <2>2. ASSUME NEW d \in Relays, d # peer[c]  PROVE Handled(d)' = Handled(d)
    BY <2>2 DEF TypeOK, Handled
  <2>3. Cardinality(Handled(peer[c]))' = Cardinality(Handled(peer[c])) + 1
    BY <2>1, HandledFinite, FS_AddElement
  <2> QED  BY <1>0, <2>2, <2>3 DEF TypeOK, CountInv
<1>5. SpawnInv'  BY DEF SpawnInv
<1>6. OpenInv'  BY DEF OpenInv
<1>7. SessionInv'  BY DEF TypeOK, SessionInv, Current
<1> QED  BY <1>1, <1>2, <1>3, <1>4, <1>5, <1>6, <1>7

\* However a session ends, the counter loses the connection it counted.
LEMMA EndKeeps ==
  ASSUME Inv, NEW c \in Dials, state[c] \in Counted, End(c)
  PROVE  Inv'
<1> USE DEF Inv, End, relayVars
<1>0. peer[c] \in Relays  BY DEF DialInv
<1>1. CountInv'
  <2>1. /\ Handled(peer[c])' = Handled(peer[c]) \ {c}
        /\ c \in Handled(peer[c])
    BY DEF TypeOK, Handled
  <2>2. ASSUME NEW d \in Relays, d # peer[c]  PROVE Handled(d)' = Handled(d)
    BY <2>2 DEF TypeOK, Handled
  <2>3. Cardinality(Handled(peer[c]))' = Cardinality(Handled(peer[c])) - 1
    BY <2>1, HandledFinite, FS_RemoveElement
  <2> QED  BY <1>0, <2>2, <2>3 DEF TypeOK, CountInv
<1>2. TypeOK'
  <2>1. active'[peer[c]] = Cardinality(Handled(peer[c])')
    BY <1>0, <1>1 DEF CountInv
  <2>2. IsFiniteSet(Handled(peer[c])')
    <3>1. Handled(peer[c])' \subseteq Handled(peer[c])  BY DEF TypeOK, Handled
    <3> QED  BY <3>1, HandledFinite, FS_Subset
  <2>3. active'[peer[c]] \in Nat  BY <2>1, <2>2, FS_CardinalityType
  <2> QED  BY <1>0, <2>3 DEF TypeOK
<1>3. LockInv' /\ EndpointInv'  BY DEF LockInv, EndpointInv
<1>4. DialInv'  BY DEF TypeOK, DialInv, Current
<1>5. SpawnInv'  BY DEF SpawnInv
<1>6. OpenInv'  BY DEF OpenInv
<1>7. SessionInv'  BY DEF TypeOK, SessionInv, Current
<1> QED  BY <1>1, <1>2, <1>3, <1>4, <1>5, <1>6, <1>7

-----------------------------------------------------------------------------
(* The invariant. *)

LEMMA InitInv == Init => Inv
<1> SUFFICES ASSUME Init PROVE Inv  OBVIOUS
<1>1. TypeOK  BY ConstantsAssumption DEF Init, TypeOK
<1>2. CountInv
  <2>1. ASSUME NEW d \in Relays  PROVE Handled(d) = {}
    BY DEF Init, Handled
  <2> QED  BY <2>1, FS_EmptySet DEF Init, CountInv
<1>3. LockInv /\ EndpointInv /\ DialInv /\ SpawnInv /\ OpenInv /\ SessionInv
  BY DEF Init, LockInv, EndpointInv, DialInv, SpawnInv, OpenInv, SessionInv
<1> QED  BY <1>1, <1>2, <1>3 DEF Inv

LEMMA NextInv == Inv /\ [Next]_vars => Inv'
<1> SUFFICES ASSUME Inv, [Next]_vars PROVE Inv'  OBVIOUS
<1>1. ASSUME NEW r \in Relays, RelayStep(r)  PROVE Inv'
  BY <1>1, ReadEndpointKeeps, DialKeeps, ConnectedKeeps, RefusedKeeps,
     TakeStartLockKeeps, StartLockTimeoutKeeps, SpawnKeeps, CheckChildKeeps,
     GiveUpKeeps, DisconnectedKeeps DEF RelayStep
<1>2. ASSUME NEW r \in Relays, \/ Start(r) \/ Abandon(r) \/ Deadline(r)
                               \/ Finish(r) \/ KillRelay(r)
      PROVE  Inv'
  BY <1>2, StartKeeps, AbandonKeeps, DeadlineKeeps, FinishKeeps,
     KillRelayKeeps
<1>3. ASSUME NEW d \in Relays, \/ BackendStep(d) \/ IdlePasses(d)
                               \/ KillBackend(d)
      PROVE  Inv'
  BY <1>3, TakeBackendLockKeeps, ListenKeeps, PublishKeeps,
     StopListeningKeeps, DrainedKeeps, UnlinkKeeps, ReleaseKeeps,
     IdlePassesKeeps, KillBackendKeeps DEF BackendStep
<1>4. ASSUME NEW c \in Dials, \/ DialStep(c) \/ HandshakeTimeout(c)
                              \/ SessionFails(c)
      PROVE  Inv'
  BY <1>4, AttachKeeps, BeginKeeps, HelloKeeps, ConfigureKeeps, EndKeeps
     DEF DialStep, WrongSecret, EndOfStream, HandshakeTimeout, SessionFails
<1>5. CASE UNCHANGED vars
  <2> USE <1>5 DEF vars, relayVars, backendVars, dialVars, Inv
  <2>1. TypeOK' /\ LockInv' /\ EndpointInv' /\ SpawnInv' /\ OpenInv'
    BY DEF TypeOK, LockInv, EndpointInv, SpawnInv, OpenInv
  <2>2. DialInv' /\ CountInv' /\ SessionInv'
    BY DEF DialInv, CountInv, SessionInv, Handled, Current
  <2> QED  BY <2>1, <2>2
<1> QED  BY <1>1, <1>2, <1>3, <1>4, <1>5 DEF Next

LEMMA Invariance == Spec => []Inv
<1>1. Init => Inv  BY InitInv
<1>2. Inv /\ [Next]_vars => Inv'  BY NextInv
<1> QED  BY <1>1, <1>2, PTL DEF Spec

-----------------------------------------------------------------------------
(* The properties. *)

\* Every variable keeps its type; in particular no end of a session takes a
\* backend's counter below zero.
THEOREM TypeCorrect == Spec => []TypeOK
<1>1. Inv => TypeOK  BY DEF Inv
<1> QED  BY <1>1, Invariance, PTL

\* Every session of a runtime directory is in the process that holds its
\* lifetime lock, whatever relays and backends start, stop or die.
THEOREM SharedBackend == Spec => []OneBackendServes
<1>1. Inv => OneBackendServes
  BY DEF Inv, DialInv, LockInv, OneBackendServes
<1> QED  BY <1>1, Invariance, PTL

\* endpoint.json names the backend that serves, until it stops.
THEOREM EndpointStays == Spec => []EndpointOwned
<1>1. Inv => EndpointOwned  BY DEF Inv, EndpointInv, EndpointOwned
<1> QED  BY <1>1, Invariance, PTL

\* A relay in session is at the backend whose endpoint it read.
THEOREM Authenticated == Spec => []SessionIsAuthentic
<1>1. Inv => SessionIsAuthentic  BY DEF Inv, SessionInv, SessionIsAuthentic
<1> QED  BY <1>1, Invariance, PTL

\* A backend's idle stop never meets a relay in session: its counter is zero
\* only when none of its connections is worked on.
THEOREM IdleStopIsIdle == Spec => IdleStopSparesSessions
<1> DEFINE Spares == \A d, r \in Relays :
             backend[d] = "serving" /\ backend'[d] = "closing"
             /\ pc[r] = "session" =>
               peer[Current(r)] # d \/ state[Current(r)] = "closed"
<1>1. ASSUME Inv, [Next]_vars  PROVE Spares
  <2> SUFFICES ASSUME NEW d \in Relays, NEW r \in Relays,
                      backend[d] = "serving", backend'[d] = "closing",
                      pc[r] = "session", peer[Current(r)] = d
               PROVE  state[Current(r)] = "closed"
    OBVIOUS
  <2>1. \E b \in Relays : StopListening(b) /\ backend' = [backend EXCEPT ![b] = "closing"]
    BY <1>1
       DEF Inv, TypeOK, Next, RelayStep, BackendStep, DialStep, vars, relayVars,
           backendVars, dialVars, ReadEndpoint, Dial, Connected, Refused,
           TakeStartLock, StartLockTimeout, Spawn, CheckChild, GiveUp,
           Disconnected, Start, Abandon, Deadline, Finish, KillRelay,
           TakeBackendLock, Listen, Publish, StopListening, Drained, Unlink,
           Release, IdlePasses, KillBackend, Attach, Begin, Hello, WrongSecret,
           Configure, EndOfStream, HandshakeTimeout, SessionFails, End, Dies,
           Exit
  <2>2. active[d] = 0
    BY <1>1, <2>1 DEF Inv, TypeOK, StopListening
  <2>3. Handled(d) = {}
    BY <1>1, <2>2, HandledFinite, FS_EmptySet DEF Inv, CountInv
  <2>4. Current(r) \in Dials  BY <1>1, CurrentIsDial DEF Inv
  <2> QED  BY <1>1, <2>3, <2>4 DEF Handled, Inv, SessionInv
<1>2. Inv /\ [Next]_vars => [Spares]_vars  BY <1>1
<1> HIDE DEF Spares
<1>3. Spec => [][Spares]_vars  BY <1>2, Invariance, PTL DEF Spec
<1> QED  BY <1>3 DEF IdleStopSparesSessions, Spares

-----------------------------------------------------------------------------
(* A session of the bridge. *)

USE DEF CallVerdicts, ListVerdicts, Outcomes, ListTasks, AuthTasks, Running, Settle,
        Becomes, Posted, Answer, Forward, flags, login, refresh, books, client

Forwarded(i) == i \in pending /\ answers[i] = 0
Settled(i) == i \notin pending /\ i \notin retried

Unasked(i) ==
  /\ Settled(i) /\ answers[i] = 0
  /\ post[i] = "none" /\ task[i] = "none" /\ signin[i] = "no"

\* A call is at the server or on its way back, waits for a sign-in inside the HTTP
\* client or in a task of the bridge, or is answered.
CallPlace(i) ==
  \/ /\ Forwarded(i) /\ task[i] = "none"
     /\ post[i] \in {"posted", "dropped"} \cup CallVerdicts /\ signin[i] = "no"
  \/ /\ Forwarded(i) /\ task[i] = "none"
     /\ post[i] = "unauthorized" /\ signin[i] # "no"
  \/ /\ Forwarded(i) /\ task[i] = "retry" /\ i \in retried
     /\ post[i] = "none" /\ signin[i] # "no"
  \/ /\ Settled(i) /\ answers[i] = 1 /\ task[i] = "none"
     /\ post[i] = "none" /\ signin[i] = "no"

\* A tool list leaves the books before it is answered, and its task goes on after.
ListPlace(l) ==
  /\ l \notin retried /\ signin[l] = "no"
  /\ \/ /\ Forwarded(l) /\ task[l] = "none"
        /\ post[l] \in {"posted"} \cup ListVerdicts
     \/ /\ Settled(l) /\ answers[l] = 0 /\ task[l] \in {"start", "linked", "offer"}
        /\ post[l] \in ListVerdicts
     \/ /\ Settled(l) /\ answers[l] = 1 /\ task[l] \in {"mark", "wake", "none"}
        /\ post[l] = "none"

\* The bridge's own tool never is in the books.
ToolPlace(a) ==
  /\ Settled(a) /\ post[a] = "none"
  /\ \/ task[a] = "signing" /\ signin[a] # "no" /\ answers[a] = 0
     \/ task[a] \in {"notify", "refresh"} /\ signin[a] = "no" /\ answers[a] = 0
     \/ task[a] = "none" /\ signin[a] = "no" /\ answers[a] = 1

\* What the server has run is on its way back, or answered.
RunPlace(i) == post[i] = "ok" \/ (answers[i] = 1 /\ post[i] = "none")

Place(i) ==
  /\ i \notin asked => Unasked(i)
  /\ i \in asked \cap local => ToolPlace(i)
  /\ i \in (asked \ local) \ Lists => CallPlace(i)
  /\ i \in (asked \ local) \cap Lists => ListPlace(i)
  /\ i \in executed => RunPlace(i)

\* The automatic sign-in is the first there is.
LoginInv ==
  /\ autos <= 1
  /\ session # "over" /\ ~attempted => autos = 0
  /\ completed => attempted
  /\ \A i \in Requests : signin[i] = "browser" => attempted

OverInv == session = "over" => pending = {} /\ retried = {} /\ post = NoPost

BridgeInv ==
  /\ BridgeTypeOK /\ LoginInv /\ OverInv
  /\ session # "over" => \A i \in Requests : Place(i)

\* Nothing happens to a request.
Same(i) ==
  /\ i \in asked' <=> i \in asked
  /\ i \in local' <=> i \in local
  /\ i \in pending' <=> i \in pending
  /\ i \in retried' <=> i \in retried
  /\ i \in executed' <=> i \in executed
  /\ answers'[i] = answers[i] /\ post'[i] = post[i]
  /\ task'[i] = task[i] /\ signin'[i] = signin[i]

LEMMA SamePlace ==
  ASSUME NEW i \in Requests, Place(i), Same(i)  PROVE Place(i)'
BY DEF Place, Same, Unasked, ToolPlace, CallPlace, ListPlace, RunPlace, Forwarded, Settled

\* What a step on one request has to show.
LEMMA StepKeeps ==
  ASSUME BridgeInv, session # "over", session' # "over", NEW i \in Requests,
         BridgeTypeOK', LoginInv', Place(i)', \A j \in Requests \ {i} : Same(j)
  PROVE  BridgeInv'
<1>1. \A j \in Requests : Place(j)
  BY DEF BridgeInv
<1>2. \A j \in Requests : Place(j)'
  BY <1>1, SamePlace
<1> QED  BY <1>2 DEF BridgeInv, OverInv

LEMMA AskKeeps ==
  ASSUME BridgeInv, NEW i \in Requests, Ask(i)  PROVE BridgeInv'
<1> USE DEF Ask
<1>1. session # "over" /\ session' # "over"
  OBVIOUS
<1>2. Place(i)
  BY <1>1 DEF BridgeInv
<1>3. BridgeTypeOK'
  <2>1. post' \in [Requests -> Posts]
    BY DEF BridgeInv, BridgeTypeOK, Posts, Verdicts
  <2>2. task' \in [Requests -> Tasks] /\ signin' \in [Requests -> SignIns]
    BY DEF BridgeInv, BridgeTypeOK, Tasks, SignIns
  <2>3. answers' \in [Requests -> 0..1]
    BY <1>2 DEF BridgeInv, BridgeTypeOK, Place, Unasked, Forwarded, Settled
  <2>4. /\ asked' \subseteq Requests /\ local' \subseteq Authentications \cap asked'
        /\ cancelled' \subseteq Calls \cap asked'
        /\ again' \subseteq asked' /\ pending' \subseteq asked' /\ retried' \subseteq asked'
        /\ executed' \subseteq asked' /\ waiters' \subseteq local' /\ woken' \subseteq local'
    BY <1>2, RequestsAssumption DEF BridgeInv, BridgeTypeOK, Requests, Place, Unasked, Forwarded, Settled
  <2>5. autos' \in Nat /\ session' \in {"open", "eof", "over"}
    BY DEF BridgeInv, BridgeTypeOK
  <2> QED  BY <2>1, <2>2, <2>3, <2>4, <2>5 DEF BridgeInv, BridgeTypeOK
<1>4. Place(i)'
  BY <1>2, RequestsAssumption DEF BridgeInv, BridgeTypeOK, Requests, Place, Unasked,
         CallPlace, ListPlace, ToolPlace, RunPlace, Forwarded, Settled
<1>5. \A j \in Requests \ {i} : Same(j)
  BY DEF BridgeInv, BridgeTypeOK, Same
<1>6. LoginInv'
  BY DEF BridgeInv, BridgeTypeOK, LoginInv
<1> QED  BY <1>1, <1>3, <1>4, <1>5, <1>6, StepKeeps

LEMMA AskAuthenticateKeeps ==
  ASSUME BridgeInv, NEW a \in Requests, AskAuthenticate(a)  PROVE BridgeInv'
<1> USE DEF AskAuthenticate
<1>1. session # "over" /\ session' # "over"
  OBVIOUS
<1>2. Place(a)
  BY <1>1 DEF BridgeInv
<1>3. BridgeTypeOK'
  <2>1. post' \in [Requests -> Posts]
    BY DEF BridgeInv, BridgeTypeOK, Posts, Verdicts
  <2>2. task' \in [Requests -> Tasks] /\ signin' \in [Requests -> SignIns]
    BY DEF BridgeInv, BridgeTypeOK, Tasks, SignIns
  <2>3. answers' \in [Requests -> 0..1]
    BY <1>2 DEF BridgeInv, BridgeTypeOK, Place, Unasked, Forwarded, Settled
  <2>4. /\ asked' \subseteq Requests /\ local' \subseteq Authentications \cap asked'
        /\ cancelled' \subseteq Calls \cap asked'
        /\ again' \subseteq asked' /\ pending' \subseteq asked' /\ retried' \subseteq asked'
        /\ executed' \subseteq asked' /\ waiters' \subseteq local' /\ woken' \subseteq local'
    BY <1>2, RequestsAssumption DEF BridgeInv, BridgeTypeOK, Requests, Place, Unasked, Forwarded, Settled
  <2>5. autos' \in Nat /\ session' \in {"open", "eof", "over"}
    BY DEF BridgeInv, BridgeTypeOK
  <2> QED  BY <2>1, <2>2, <2>3, <2>4, <2>5 DEF BridgeInv, BridgeTypeOK
<1>4. Place(a)'
  BY <1>2, RequestsAssumption DEF BridgeInv, BridgeTypeOK, Requests, Place, Unasked,
         CallPlace, ListPlace, ToolPlace, RunPlace, Forwarded, Settled
<1>5. \A j \in Requests \ {a} : Same(j)
  BY DEF BridgeInv, BridgeTypeOK, Same
<1>6. LoginInv'
  BY DEF BridgeInv, BridgeTypeOK, LoginInv
<1> QED  BY <1>1, <1>3, <1>4, <1>5, <1>6, StepKeeps

LEMMA CancelKeeps ==
  ASSUME BridgeInv, NEW i \in Requests, Cancel(i)  PROVE BridgeInv'
<1> USE DEF Cancel
<1>1. session # "over" /\ session' # "over"
  OBVIOUS
<1>2. Place(i)
  BY <1>1 DEF BridgeInv
<1>3. BridgeTypeOK'
  <2>1. post' \in [Requests -> Posts]
    BY DEF BridgeInv, BridgeTypeOK, Posts, Verdicts
  <2>2. task' \in [Requests -> Tasks] /\ signin' \in [Requests -> SignIns]
    BY DEF BridgeInv, BridgeTypeOK, Tasks, SignIns
  <2>3. answers' \in [Requests -> 0..1]
    BY <1>2 DEF BridgeInv, BridgeTypeOK, Place, Unasked, Forwarded, Settled
  <2>4. /\ asked' \subseteq Requests /\ local' \subseteq Authentications \cap asked'
        /\ cancelled' \subseteq Calls \cap asked'
        /\ again' \subseteq asked' /\ pending' \subseteq asked' /\ retried' \subseteq asked'
        /\ executed' \subseteq asked' /\ waiters' \subseteq local' /\ woken' \subseteq local'
    BY <1>2, RequestsAssumption DEF BridgeInv, BridgeTypeOK, Requests, Place, Unasked, Forwarded, Settled
  <2>5. autos' \in Nat /\ session' \in {"open", "eof", "over"}
    BY DEF BridgeInv, BridgeTypeOK
  <2> QED  BY <2>1, <2>2, <2>3, <2>4, <2>5 DEF BridgeInv, BridgeTypeOK
<1>4. Place(i)'
  BY <1>2, RequestsAssumption DEF BridgeInv, BridgeTypeOK, Requests, Place, Unasked,
         CallPlace, ListPlace, ToolPlace, RunPlace, Forwarded, Settled
<1>5. \A j \in Requests \ {i} : Same(j)
  BY DEF BridgeInv, BridgeTypeOK, Same
<1>6. LoginInv'
  BY DEF BridgeInv, BridgeTypeOK, LoginInv
<1> QED  BY <1>1, <1>3, <1>4, <1>5, <1>6, StepKeeps

LEMMA ServerAnswersKeeps ==
  ASSUME BridgeInv, NEW i \in Requests, ServerAnswers(i)  PROVE BridgeInv'
<1> USE DEF ServerAnswers
<1>1. session # "over" /\ session' # "over"
  OBVIOUS
<1>2. Place(i)
  BY <1>1 DEF BridgeInv
<1>3. BridgeTypeOK'
  <2>1. post' \in [Requests -> Posts]
    BY DEF BridgeInv, BridgeTypeOK, Posts, Verdicts
  <2>2. task' \in [Requests -> Tasks] /\ signin' \in [Requests -> SignIns]
    BY DEF BridgeInv, BridgeTypeOK, Tasks, SignIns
  <2>3. answers' \in [Requests -> 0..1]
    BY <1>2 DEF BridgeInv, BridgeTypeOK, Place, Unasked, Forwarded, Settled
  <2>4. /\ asked' \subseteq Requests /\ local' \subseteq Authentications \cap asked'
        /\ cancelled' \subseteq Calls \cap asked'
        /\ again' \subseteq asked' /\ pending' \subseteq asked' /\ retried' \subseteq asked'
        /\ executed' \subseteq asked' /\ waiters' \subseteq local' /\ woken' \subseteq local'
    BY <1>2, RequestsAssumption DEF BridgeInv, BridgeTypeOK, Requests, Place, Unasked, Forwarded, Settled
  <2>5. autos' \in Nat /\ session' \in {"open", "eof", "over"}
    BY DEF BridgeInv, BridgeTypeOK
  <2> QED  BY <2>1, <2>2, <2>3, <2>4, <2>5 DEF BridgeInv, BridgeTypeOK
<1>4. Place(i)'
  BY <1>2, RequestsAssumption DEF BridgeInv, BridgeTypeOK, Requests, Place, Unasked,
         CallPlace, ListPlace, ToolPlace, RunPlace, Forwarded, Settled
<1>5. \A j \in Requests \ {i} : Same(j)
  BY DEF BridgeInv, BridgeTypeOK, Same
<1>6. LoginInv'
  BY DEF BridgeInv, BridgeTypeOK, LoginInv
<1> QED  BY <1>1, <1>3, <1>4, <1>5, <1>6, StepKeeps

LEMMA ServerDropsKeeps ==
  ASSUME BridgeInv, NEW i \in Requests, ServerDrops(i)  PROVE BridgeInv'
<1> USE DEF ServerDrops
<1>1. session # "over" /\ session' # "over"
  OBVIOUS
<1>2. Place(i)
  BY <1>1 DEF BridgeInv
<1>3. BridgeTypeOK'
  <2>1. post' \in [Requests -> Posts]
    BY DEF BridgeInv, BridgeTypeOK, Posts, Verdicts
  <2>2. task' \in [Requests -> Tasks] /\ signin' \in [Requests -> SignIns]
    BY DEF BridgeInv, BridgeTypeOK, Tasks, SignIns
  <2>3. answers' \in [Requests -> 0..1]
    BY <1>2 DEF BridgeInv, BridgeTypeOK, Place, Unasked, Forwarded, Settled
  <2>4. /\ asked' \subseteq Requests /\ local' \subseteq Authentications \cap asked'
        /\ cancelled' \subseteq Calls \cap asked'
        /\ again' \subseteq asked' /\ pending' \subseteq asked' /\ retried' \subseteq asked'
        /\ executed' \subseteq asked' /\ waiters' \subseteq local' /\ woken' \subseteq local'
    BY <1>2, RequestsAssumption DEF BridgeInv, BridgeTypeOK, Requests, Place, Unasked, Forwarded, Settled
  <2>5. autos' \in Nat /\ session' \in {"open", "eof", "over"}
    BY DEF BridgeInv, BridgeTypeOK
  <2> QED  BY <2>1, <2>2, <2>3, <2>4, <2>5 DEF BridgeInv, BridgeTypeOK
<1>4. Place(i)'
  BY <1>2, RequestsAssumption DEF BridgeInv, BridgeTypeOK, Requests, Place, Unasked,
         CallPlace, ListPlace, ToolPlace, RunPlace, Forwarded, Settled
<1>5. \A j \in Requests \ {i} : Same(j)
  BY DEF BridgeInv, BridgeTypeOK, Same
<1>6. LoginInv'
  BY DEF BridgeInv, BridgeTypeOK, LoginInv
<1> QED  BY <1>1, <1>3, <1>4, <1>5, <1>6, StepKeeps

LEMMA ServerUnauthorizedKeeps ==
  ASSUME BridgeInv, NEW i \in Requests, ServerUnauthorized(i)  PROVE BridgeInv'
<1> USE DEF ServerUnauthorized
<1>1. session # "over" /\ session' # "over"
  OBVIOUS
<1>2. Place(i)
  BY <1>1 DEF BridgeInv
<1>3. BridgeTypeOK'
  <2>1. post' \in [Requests -> Posts]
    BY DEF BridgeInv, BridgeTypeOK, Posts, Verdicts
  <2>2. task' \in [Requests -> Tasks] /\ signin' \in [Requests -> SignIns]
    BY DEF BridgeInv, BridgeTypeOK, Tasks, SignIns
  <2>3. answers' \in [Requests -> 0..1]
    BY <1>2 DEF BridgeInv, BridgeTypeOK, Place, Unasked, Forwarded, Settled
  <2>4. /\ asked' \subseteq Requests /\ local' \subseteq Authentications \cap asked'
        /\ cancelled' \subseteq Calls \cap asked'
        /\ again' \subseteq asked' /\ pending' \subseteq asked' /\ retried' \subseteq asked'
        /\ executed' \subseteq asked' /\ waiters' \subseteq local' /\ woken' \subseteq local'
    BY <1>2, RequestsAssumption DEF BridgeInv, BridgeTypeOK, Requests, Place, Unasked, Forwarded, Settled
  <2>5. autos' \in Nat /\ session' \in {"open", "eof", "over"}
    BY DEF BridgeInv, BridgeTypeOK
  <2> QED  BY <2>1, <2>2, <2>3, <2>4, <2>5 DEF BridgeInv, BridgeTypeOK
<1>4. Place(i)'
  BY <1>2, RequestsAssumption DEF BridgeInv, BridgeTypeOK, Requests, Place, Unasked,
         CallPlace, ListPlace, ToolPlace, RunPlace, Forwarded, Settled
<1>5. \A j \in Requests \ {i} : Same(j)
  BY DEF BridgeInv, BridgeTypeOK, Same
<1>6. LoginInv'
  BY DEF BridgeInv, BridgeTypeOK, LoginInv
<1> QED  BY <1>1, <1>3, <1>4, <1>5, <1>6, StepKeeps

LEMMA PostAgainKeeps ==
  ASSUME BridgeInv, NEW i \in Requests, PostAgain(i)  PROVE BridgeInv'
<1> USE DEF PostAgain
<1>1. session # "over" /\ session' # "over"
  OBVIOUS
<1>2. Place(i)
  BY <1>1 DEF BridgeInv
<1>3. BridgeTypeOK'
  <2>1. post' \in [Requests -> Posts]
    BY DEF BridgeInv, BridgeTypeOK, Posts, Verdicts
  <2>2. task' \in [Requests -> Tasks] /\ signin' \in [Requests -> SignIns]
    BY DEF BridgeInv, BridgeTypeOK, Tasks, SignIns
  <2>3. answers' \in [Requests -> 0..1]
    BY <1>2 DEF BridgeInv, BridgeTypeOK, Place, Unasked, Forwarded, Settled
  <2>4. /\ asked' \subseteq Requests /\ local' \subseteq Authentications \cap asked'
        /\ cancelled' \subseteq Calls \cap asked'
        /\ again' \subseteq asked' /\ pending' \subseteq asked' /\ retried' \subseteq asked'
        /\ executed' \subseteq asked' /\ waiters' \subseteq local' /\ woken' \subseteq local'
    BY <1>2, RequestsAssumption DEF BridgeInv, BridgeTypeOK, Requests, Place, Unasked, Forwarded, Settled
  <2>5. autos' \in Nat /\ session' \in {"open", "eof", "over"}
    BY DEF BridgeInv, BridgeTypeOK
  <2> QED  BY <2>1, <2>2, <2>3, <2>4, <2>5 DEF BridgeInv, BridgeTypeOK
<1>4. Place(i)'
  BY <1>2, RequestsAssumption DEF BridgeInv, BridgeTypeOK, Requests, Place, Unasked,
         CallPlace, ListPlace, ToolPlace, RunPlace, Forwarded, Settled
<1>5. \A j \in Requests \ {i} : Same(j)
  BY DEF BridgeInv, BridgeTypeOK, Same
<1>6. LoginInv'
  BY DEF BridgeInv, BridgeTypeOK, LoginInv
<1> QED  BY <1>1, <1>3, <1>4, <1>5, <1>6, StepKeeps

LEMMA SignInKeeps ==
  ASSUME BridgeInv, NEW i \in Requests, SignIn(i)  PROVE BridgeInv'
<1> USE DEF SignIn, LockFree, Explicit
<1>1. session # "over" /\ session' # "over"
  OBVIOUS
<1>2. Place(i)
  BY <1>1 DEF BridgeInv
<1>3. BridgeTypeOK'
  <2>1. post' \in [Requests -> Posts]
    BY DEF BridgeInv, BridgeTypeOK, Posts, Verdicts
  <2>2. task' \in [Requests -> Tasks] /\ signin' \in [Requests -> SignIns]
    BY DEF BridgeInv, BridgeTypeOK, Tasks, SignIns
  <2>3. answers' \in [Requests -> 0..1]
    BY <1>2 DEF BridgeInv, BridgeTypeOK, Place, Unasked, Forwarded, Settled
  <2>4. /\ asked' \subseteq Requests /\ local' \subseteq Authentications \cap asked'
        /\ cancelled' \subseteq Calls \cap asked'
        /\ again' \subseteq asked' /\ pending' \subseteq asked' /\ retried' \subseteq asked'
        /\ executed' \subseteq asked' /\ waiters' \subseteq local' /\ woken' \subseteq local'
    BY <1>2, RequestsAssumption DEF BridgeInv, BridgeTypeOK, Requests, Place, Unasked, Forwarded, Settled
  <2>5. autos' \in Nat /\ session' \in {"open", "eof", "over"}
    BY DEF BridgeInv, BridgeTypeOK
  <2> QED  BY <2>1, <2>2, <2>3, <2>4, <2>5 DEF BridgeInv, BridgeTypeOK
<1>4. Place(i)'
  BY <1>2, RequestsAssumption DEF BridgeInv, BridgeTypeOK, Requests, Place, Unasked,
         CallPlace, ListPlace, ToolPlace, RunPlace, Forwarded, Settled
<1>5. \A j \in Requests \ {i} : Same(j)
  BY DEF BridgeInv, BridgeTypeOK, Same
<1>6. LoginInv'
  BY DEF BridgeInv, BridgeTypeOK, LoginInv
<1> QED  BY <1>1, <1>3, <1>4, <1>5, <1>6, StepKeeps

LEMMA BrowserReturnsKeeps ==
  ASSUME BridgeInv, NEW i \in Requests, BrowserReturns(i)  PROVE BridgeInv'
<1> USE DEF BrowserReturns
<1>1. session # "over" /\ session' # "over"
  OBVIOUS
<1>2. Place(i)
  BY <1>1 DEF BridgeInv
<1>3. BridgeTypeOK'
  <2>1. post' \in [Requests -> Posts]
    BY DEF BridgeInv, BridgeTypeOK, Posts, Verdicts
  <2>2. task' \in [Requests -> Tasks] /\ signin' \in [Requests -> SignIns]
    BY DEF BridgeInv, BridgeTypeOK, Tasks, SignIns
  <2>3. answers' \in [Requests -> 0..1]
    BY <1>2 DEF BridgeInv, BridgeTypeOK, Place, Unasked, Forwarded, Settled
  <2>4. /\ asked' \subseteq Requests /\ local' \subseteq Authentications \cap asked'
        /\ cancelled' \subseteq Calls \cap asked'
        /\ again' \subseteq asked' /\ pending' \subseteq asked' /\ retried' \subseteq asked'
        /\ executed' \subseteq asked' /\ waiters' \subseteq local' /\ woken' \subseteq local'
    BY <1>2, RequestsAssumption DEF BridgeInv, BridgeTypeOK, Requests, Place, Unasked, Forwarded, Settled
  <2>5. autos' \in Nat /\ session' \in {"open", "eof", "over"}
    BY DEF BridgeInv, BridgeTypeOK
  <2> QED  BY <2>1, <2>2, <2>3, <2>4, <2>5 DEF BridgeInv, BridgeTypeOK
<1>4. Place(i)'
  BY <1>2, RequestsAssumption DEF BridgeInv, BridgeTypeOK, Requests, Place, Unasked,
         CallPlace, ListPlace, ToolPlace, RunPlace, Forwarded, Settled
<1>5. \A j \in Requests \ {i} : Same(j)
  BY DEF BridgeInv, BridgeTypeOK, Same
<1>6. LoginInv'
  BY DEF BridgeInv, BridgeTypeOK, LoginInv
<1> QED  BY <1>1, <1>3, <1>4, <1>5, <1>6, StepKeeps

LEMMA TakeCallKeeps ==
  ASSUME BridgeInv, NEW i \in Requests, TakeCall(i)  PROVE BridgeInv'
<1> USE DEF TakeCall, MayRetry, KeepBack
<1>1. session # "over" /\ session' # "over"
  OBVIOUS
<1>2. Place(i)
  BY <1>1 DEF BridgeInv
<1>3. /\ i \in (asked \ local) \ Lists /\ Forwarded(i)
      /\ task[i] = "none" /\ signin[i] = "no" /\ (i \in executed => post[i] = "ok")
  BY <1>2, RequestsAssumption DEF BridgeInv, BridgeTypeOK, Place, Unasked, CallPlace,
         ListPlace, ToolPlace, RunPlace, Forwarded, Settled
<1>4. BridgeTypeOK'
  <2>1. post' \in [Requests -> Posts]
    BY DEF BridgeInv, BridgeTypeOK, Posts, Verdicts
  <2>2. task' \in [Requests -> Tasks] /\ signin' \in [Requests -> SignIns]
    BY DEF BridgeInv, BridgeTypeOK, Tasks, SignIns
  <2>3. answers' \in [Requests -> 0..1]
    BY <1>3 DEF BridgeInv, BridgeTypeOK, Forwarded, Settled
  <2>4. /\ asked' \subseteq Requests /\ local' \subseteq Authentications \cap asked'
        /\ cancelled' \subseteq Calls \cap asked'
        /\ again' \subseteq asked' /\ pending' \subseteq asked' /\ retried' \subseteq asked'
        /\ executed' \subseteq asked' /\ waiters' \subseteq local' /\ woken' \subseteq local'
    BY <1>3, RequestsAssumption DEF BridgeInv, BridgeTypeOK, Requests, Forwarded, Settled
  <2>5. autos' \in Nat /\ session' \in {"open", "eof", "over"}
    BY DEF BridgeInv, BridgeTypeOK
  <2> QED  BY <2>1, <2>2, <2>3, <2>4, <2>5 DEF BridgeInv, BridgeTypeOK
<1>5. Place(i)'
  BY <1>2, <1>3, RequestsAssumption DEF BridgeInv, BridgeTypeOK, Requests, Place,
         Unasked, CallPlace, ListPlace, ToolPlace, RunPlace, Forwarded, Settled
<1>6. \A j \in Requests \ {i} : Same(j)
  BY DEF BridgeInv, BridgeTypeOK, Same
<1>7. LoginInv'
  BY DEF BridgeInv, BridgeTypeOK, LoginInv
<1> QED  BY <1>1, <1>4, <1>5, <1>6, <1>7, StepKeeps

LEMMA RetryKeeps ==
  ASSUME BridgeInv, NEW i \in Requests, Retry(i)  PROVE BridgeInv'
<1> USE DEF Retry
<1>1. session # "over" /\ session' # "over"
  OBVIOUS
<1>2. Place(i)
  BY <1>1 DEF BridgeInv
<1>3. /\ i \in (asked \ local) \ Lists /\ i \notin executed
      /\ Forwarded(i) /\ post[i] = "none"
  BY <1>2, RequestsAssumption DEF BridgeInv, BridgeTypeOK, Place, Unasked, CallPlace,
         ListPlace, ToolPlace, RunPlace, Forwarded, Settled
<1>4. BridgeTypeOK'
  <2>1. post' \in [Requests -> Posts]
    BY DEF BridgeInv, BridgeTypeOK, Posts, Verdicts
  <2>2. task' \in [Requests -> Tasks] /\ signin' \in [Requests -> SignIns]
    BY DEF BridgeInv, BridgeTypeOK, Tasks, SignIns
  <2>3. answers' \in [Requests -> 0..1]
    BY <1>3 DEF BridgeInv, BridgeTypeOK, Forwarded, Settled
  <2>4. /\ asked' \subseteq Requests /\ local' \subseteq Authentications \cap asked'
        /\ cancelled' \subseteq Calls \cap asked'
        /\ again' \subseteq asked' /\ pending' \subseteq asked' /\ retried' \subseteq asked'
        /\ executed' \subseteq asked' /\ waiters' \subseteq local' /\ woken' \subseteq local'
    BY <1>3, RequestsAssumption DEF BridgeInv, BridgeTypeOK, Requests, Forwarded, Settled
  <2>5. autos' \in Nat /\ session' \in {"open", "eof", "over"}
    BY DEF BridgeInv, BridgeTypeOK
  <2> QED  BY <2>1, <2>2, <2>3, <2>4, <2>5 DEF BridgeInv, BridgeTypeOK
<1>5. Place(i)'
  BY <1>2, <1>3, RequestsAssumption DEF BridgeInv, BridgeTypeOK, Requests, Place,
         Unasked, CallPlace, ListPlace, ToolPlace, RunPlace, Forwarded, Settled
<1>6. \A j \in Requests \ {i} : Same(j)
  BY DEF BridgeInv, BridgeTypeOK, Same
<1>7. LoginInv'
  BY DEF BridgeInv, BridgeTypeOK, LoginInv
<1> QED  BY <1>1, <1>4, <1>5, <1>6, <1>7, StepKeeps

LEMMA TakeListKeeps ==
  ASSUME BridgeInv, NEW l \in Requests, TakeList(l)  PROVE BridgeInv'
<1> USE DEF TakeList
<1>1. session # "over" /\ session' # "over"
  OBVIOUS
<1>2. Place(l)
  BY <1>1 DEF BridgeInv
<1>3. BridgeTypeOK'
  <2>1. post' \in [Requests -> Posts]
    BY DEF BridgeInv, BridgeTypeOK, Posts, Verdicts
  <2>2. task' \in [Requests -> Tasks] /\ signin' \in [Requests -> SignIns]
    BY DEF BridgeInv, BridgeTypeOK, Tasks, SignIns
  <2>3. answers' \in [Requests -> 0..1]
    BY <1>2 DEF BridgeInv, BridgeTypeOK, Place, Unasked, Forwarded, Settled
  <2>4. /\ asked' \subseteq Requests /\ local' \subseteq Authentications \cap asked'
        /\ cancelled' \subseteq Calls \cap asked'
        /\ again' \subseteq asked' /\ pending' \subseteq asked' /\ retried' \subseteq asked'
        /\ executed' \subseteq asked' /\ waiters' \subseteq local' /\ woken' \subseteq local'
    BY <1>2, RequestsAssumption DEF BridgeInv, BridgeTypeOK, Requests, Place, Unasked, Forwarded, Settled
  <2>5. autos' \in Nat /\ session' \in {"open", "eof", "over"}
    BY DEF BridgeInv, BridgeTypeOK
  <2> QED  BY <2>1, <2>2, <2>3, <2>4, <2>5 DEF BridgeInv, BridgeTypeOK
<1>4. Place(l)'
  BY <1>2, RequestsAssumption DEF BridgeInv, BridgeTypeOK, Requests, Place, Unasked,
         CallPlace, ListPlace, ToolPlace, RunPlace, Forwarded, Settled
<1>5. \A j \in Requests \ {l} : Same(j)
  BY DEF BridgeInv, BridgeTypeOK, Same
<1>6. LoginInv'
  BY DEF BridgeInv, BridgeTypeOK, LoginInv
<1> QED  BY <1>1, <1>3, <1>4, <1>5, <1>6, StepKeeps

LEMMA StartListKeeps ==
  ASSUME BridgeInv, NEW l \in Requests, StartList(l)  PROVE BridgeInv'
<1>1. session # "over" /\ session' = session
  BY DEF StartList
<1>2. Place(l)
  BY <1>1 DEF BridgeInv
<1>3. /\ l \in (asked \ local) \cap Lists /\ Settled(l) /\ signin[l] = "no"
      /\ answers[l] = 0 /\ post[l] \in ListVerdicts /\ (l \in executed => post[l] = "ok")
  BY <1>2, RequestsAssumption
     DEF StartList, BridgeInv, BridgeTypeOK, Place, Unasked, CallPlace, ListPlace, ToolPlace,
         RunPlace, Forwarded, Settled
<1>4. \/ post' = post /\ answers' = answers
         /\ \E t \in {"linked", "offer"} : task' = [task EXCEPT ![l] = t]
      \/ post' = [post EXCEPT ![l] = "none"] /\ answers' = [answers EXCEPT ![l] = @ + 1]
         /\ \E t \in {"mark", "wake", "none"} : task' = [task EXCEPT ![l] = t]
  BY DEF StartList, AskForSignIn, Send
<1>5. /\ UNCHANGED <<session, asked, local, cancelled, again, pending, retried, signin, executed>>
      /\ UNCHANGED <<waiters, woken, attempted, completed, autos>>
      /\ UNCHANGED confirmed \/ confirmed' = FALSE
      /\ required' \in BOOLEAN /\ available' \in BOOLEAN /\ own' \in BOOLEAN
  BY DEF StartList, AskForSignIn, BridgeInv, BridgeTypeOK
<1>6. post' \in [Requests -> Posts] /\ task' \in [Requests -> Tasks]
  BY <1>4 DEF BridgeInv, BridgeTypeOK, Posts, Tasks
<1>7. answers' \in [Requests -> 0..1]
  BY <1>3, <1>4 DEF BridgeInv, BridgeTypeOK
<1>8. BridgeTypeOK'
  BY <1>5, <1>6, <1>7 DEF BridgeInv, BridgeTypeOK
<1>9. ListPlace(l)' /\ (l \in executed => RunPlace(l))'
  BY <1>3, <1>4, <1>5 DEF BridgeInv, BridgeTypeOK, ListPlace, RunPlace, Forwarded, Settled
<1>10. Place(l)'
  BY <1>3, <1>5, <1>9 DEF Place
<1>11. \A j \in Requests \ {l} : Same(j)
  BY <1>4, <1>5 DEF BridgeInv, BridgeTypeOK, Same
<1>12. LoginInv'
  BY <1>5 DEF BridgeInv, LoginInv
<1> QED  BY <1>1, <1>8, <1>10, <1>11, <1>12, StepKeeps

LEMMA ListCheckedKeeps ==
  ASSUME BridgeInv, NEW l \in Requests, ListChecked(l)  PROVE BridgeInv'
<1>1. session # "over" /\ session' = session
  BY DEF ListChecked
<1>2. Place(l)
  BY <1>1 DEF BridgeInv
<1>3. /\ l \in (asked \ local) \cap Lists /\ Settled(l) /\ signin[l] = "no"
      /\ answers[l] = 0 /\ post[l] \in ListVerdicts /\ (l \in executed => post[l] = "ok")
  BY <1>2, RequestsAssumption
     DEF ListChecked, BridgeInv, BridgeTypeOK, Place, Unasked, CallPlace, ListPlace, ToolPlace,
         RunPlace, Forwarded, Settled
<1>4. \/ post' = post /\ answers' = answers
         /\ \E t \in {"linked", "offer"} : task' = [task EXCEPT ![l] = t]
      \/ post' = [post EXCEPT ![l] = "none"] /\ answers' = [answers EXCEPT ![l] = @ + 1]
         /\ \E t \in {"mark", "wake", "none"} : task' = [task EXCEPT ![l] = t]
  BY DEF ListChecked, AskForSignIn, Send
<1>5. /\ UNCHANGED <<session, asked, local, cancelled, again, pending, retried, signin, executed>>
      /\ UNCHANGED <<waiters, woken, attempted, completed, autos>>
      /\ UNCHANGED confirmed \/ confirmed' = FALSE
      /\ required' \in BOOLEAN /\ available' \in BOOLEAN /\ own' \in BOOLEAN
  BY DEF ListChecked, AskForSignIn, BridgeInv, BridgeTypeOK
<1>6. post' \in [Requests -> Posts] /\ task' \in [Requests -> Tasks]
  BY <1>4 DEF BridgeInv, BridgeTypeOK, Posts, Tasks
<1>7. answers' \in [Requests -> 0..1]
  BY <1>3, <1>4 DEF BridgeInv, BridgeTypeOK
<1>8. BridgeTypeOK'
  BY <1>5, <1>6, <1>7 DEF BridgeInv, BridgeTypeOK
<1>9. ListPlace(l)' /\ (l \in executed => RunPlace(l))'
  BY <1>3, <1>4, <1>5 DEF BridgeInv, BridgeTypeOK, ListPlace, RunPlace, Forwarded, Settled
<1>10. Place(l)'
  BY <1>3, <1>5, <1>9 DEF Place
<1>11. \A j \in Requests \ {l} : Same(j)
  BY <1>4, <1>5 DEF BridgeInv, BridgeTypeOK, Same
<1>12. LoginInv'
  BY <1>5 DEF BridgeInv, LoginInv
<1> QED  BY <1>1, <1>8, <1>10, <1>11, <1>12, StepKeeps

LEMMA WakeKeeps ==
  ASSUME BridgeInv, NEW l \in Requests, Wake(l)  PROVE BridgeInv'
<1> USE DEF Wake
<1>1. session # "over" /\ session' # "over"
  OBVIOUS
<1>2. Place(l)
  BY <1>1 DEF BridgeInv
<1>3. BridgeTypeOK'
  <2>1. post' \in [Requests -> Posts]
    BY DEF BridgeInv, BridgeTypeOK, Posts, Verdicts
  <2>2. task' \in [Requests -> Tasks] /\ signin' \in [Requests -> SignIns]
    BY DEF BridgeInv, BridgeTypeOK, Tasks, SignIns
  <2>3. answers' \in [Requests -> 0..1]
    BY <1>2 DEF BridgeInv, BridgeTypeOK, Place, Unasked, Forwarded, Settled
  <2>4. /\ asked' \subseteq Requests /\ local' \subseteq Authentications \cap asked'
        /\ cancelled' \subseteq Calls \cap asked'
        /\ again' \subseteq asked' /\ pending' \subseteq asked' /\ retried' \subseteq asked'
        /\ executed' \subseteq asked' /\ waiters' \subseteq local' /\ woken' \subseteq local'
    BY <1>2, RequestsAssumption DEF BridgeInv, BridgeTypeOK, Requests, Place, Unasked, Forwarded, Settled
  <2>5. autos' \in Nat /\ session' \in {"open", "eof", "over"}
    BY DEF BridgeInv, BridgeTypeOK
  <2> QED  BY <2>1, <2>2, <2>3, <2>4, <2>5 DEF BridgeInv, BridgeTypeOK
<1>4. Place(l)'
  BY <1>2, RequestsAssumption DEF BridgeInv, BridgeTypeOK, Requests, Place, Unasked,
         CallPlace, ListPlace, ToolPlace, RunPlace, Forwarded, Settled
<1>5. \A j \in Requests \ {l} : Same(j)
  BY DEF BridgeInv, BridgeTypeOK, Same
<1>6. LoginInv'
  BY DEF BridgeInv, BridgeTypeOK, LoginInv
<1> QED  BY <1>1, <1>3, <1>4, <1>5, <1>6, StepKeeps

LEMMA SignedInKeeps ==
  ASSUME BridgeInv, NEW a \in Requests, SignedIn(a)  PROVE BridgeInv'
<1> USE DEF SignedIn, Report
<1>1. session # "over" /\ session' # "over"
  OBVIOUS
<1>2. Place(a)
  BY <1>1 DEF BridgeInv
<1>3. /\ a \in (asked \cap local) \ Lists /\ a \notin executed
      /\ Settled(a) /\ answers[a] = 0 /\ post[a] = "none"
  BY <1>2, RequestsAssumption DEF BridgeInv, BridgeTypeOK, Place, Unasked, CallPlace,
         ListPlace, ToolPlace, RunPlace, Forwarded, Settled
<1>4. BridgeTypeOK'
  <2>1. post' \in [Requests -> Posts]
    BY DEF BridgeInv, BridgeTypeOK, Posts, Verdicts
  <2>2. task' \in [Requests -> Tasks] /\ signin' \in [Requests -> SignIns]
    BY DEF BridgeInv, BridgeTypeOK, Tasks, SignIns
  <2>3. answers' \in [Requests -> 0..1]
    BY <1>3 DEF BridgeInv, BridgeTypeOK, Forwarded, Settled
  <2>4. /\ asked' \subseteq Requests /\ local' \subseteq Authentications \cap asked'
        /\ cancelled' \subseteq Calls \cap asked'
        /\ again' \subseteq asked' /\ pending' \subseteq asked' /\ retried' \subseteq asked'
        /\ executed' \subseteq asked' /\ waiters' \subseteq local' /\ woken' \subseteq local'
    BY <1>3, RequestsAssumption DEF BridgeInv, BridgeTypeOK, Requests, Forwarded, Settled
  <2>5. autos' \in Nat /\ session' \in {"open", "eof", "over"}
    BY DEF BridgeInv, BridgeTypeOK
  <2> QED  BY <2>1, <2>2, <2>3, <2>4, <2>5 DEF BridgeInv, BridgeTypeOK
<1>5. Place(a)'
  BY <1>2, <1>3, RequestsAssumption DEF BridgeInv, BridgeTypeOK, Requests, Place,
         Unasked, CallPlace, ListPlace, ToolPlace, RunPlace, Forwarded, Settled
<1>6. \A j \in Requests \ {a} : Same(j)
  BY DEF BridgeInv, BridgeTypeOK, Same
<1>7. LoginInv'
  BY DEF BridgeInv, BridgeTypeOK, LoginInv
<1> QED  BY <1>1, <1>4, <1>5, <1>6, <1>7, StepKeeps

LEMMA NotifyKeeps ==
  ASSUME BridgeInv, NEW a \in Requests, Notify(a)  PROVE BridgeInv'
<1> USE DEF Notify
<1>1. session # "over" /\ session' # "over"
  OBVIOUS
<1>2. Place(a)
  BY <1>1 DEF BridgeInv
<1>3. BridgeTypeOK'
  <2>1. post' \in [Requests -> Posts]
    BY DEF BridgeInv, BridgeTypeOK, Posts, Verdicts
  <2>2. task' \in [Requests -> Tasks] /\ signin' \in [Requests -> SignIns]
    BY DEF BridgeInv, BridgeTypeOK, Tasks, SignIns
  <2>3. answers' \in [Requests -> 0..1]
    BY <1>2 DEF BridgeInv, BridgeTypeOK, Place, Unasked, Forwarded, Settled
  <2>4. /\ asked' \subseteq Requests /\ local' \subseteq Authentications \cap asked'
        /\ cancelled' \subseteq Calls \cap asked'
        /\ again' \subseteq asked' /\ pending' \subseteq asked' /\ retried' \subseteq asked'
        /\ executed' \subseteq asked' /\ waiters' \subseteq local' /\ woken' \subseteq local'
    BY <1>2, RequestsAssumption DEF BridgeInv, BridgeTypeOK, Requests, Place, Unasked, Forwarded, Settled
  <2>5. autos' \in Nat /\ session' \in {"open", "eof", "over"}
    BY DEF BridgeInv, BridgeTypeOK
  <2> QED  BY <2>1, <2>2, <2>3, <2>4, <2>5 DEF BridgeInv, BridgeTypeOK
<1>4. Place(a)'
  BY <1>2, RequestsAssumption DEF BridgeInv, BridgeTypeOK, Requests, Place, Unasked,
         CallPlace, ListPlace, ToolPlace, RunPlace, Forwarded, Settled
<1>5. \A j \in Requests \ {a} : Same(j)
  BY DEF BridgeInv, BridgeTypeOK, Same
<1>6. LoginInv'
  BY DEF BridgeInv, BridgeTypeOK, LoginInv
<1> QED  BY <1>1, <1>3, <1>4, <1>5, <1>6, StepKeeps

LEMMA RefreshedKeeps ==
  ASSUME BridgeInv, NEW a \in Requests, Refreshed(a)  PROVE BridgeInv'
<1> USE DEF Refreshed, Report
<1>1. session # "over" /\ session' # "over"
  OBVIOUS
<1>2. Place(a)
  BY <1>1 DEF BridgeInv
<1>3. /\ a \in (asked \cap local) \ Lists /\ a \notin executed
      /\ Settled(a) /\ signin[a] = "no" /\ answers[a] = 0 /\ post[a] = "none"
  BY <1>2, RequestsAssumption DEF BridgeInv, BridgeTypeOK, Place, Unasked, CallPlace,
         ListPlace, ToolPlace, RunPlace, Forwarded, Settled
<1>4. BridgeTypeOK'
  <2>1. post' \in [Requests -> Posts]
    BY DEF BridgeInv, BridgeTypeOK, Posts, Verdicts
  <2>2. task' \in [Requests -> Tasks] /\ signin' \in [Requests -> SignIns]
    BY DEF BridgeInv, BridgeTypeOK, Tasks, SignIns
  <2>3. answers' \in [Requests -> 0..1]
    BY <1>3 DEF BridgeInv, BridgeTypeOK, Forwarded, Settled
  <2>4. /\ asked' \subseteq Requests /\ local' \subseteq Authentications \cap asked'
        /\ cancelled' \subseteq Calls \cap asked'
        /\ again' \subseteq asked' /\ pending' \subseteq asked' /\ retried' \subseteq asked'
        /\ executed' \subseteq asked' /\ waiters' \subseteq local' /\ woken' \subseteq local'
    BY <1>3, RequestsAssumption DEF BridgeInv, BridgeTypeOK, Requests, Forwarded, Settled
  <2>5. autos' \in Nat /\ session' \in {"open", "eof", "over"}
    BY DEF BridgeInv, BridgeTypeOK
  <2> QED  BY <2>1, <2>2, <2>3, <2>4, <2>5 DEF BridgeInv, BridgeTypeOK
<1>5. Place(a)'
  BY <1>2, <1>3, RequestsAssumption DEF BridgeInv, BridgeTypeOK, Requests, Place,
         Unasked, CallPlace, ListPlace, ToolPlace, RunPlace, Forwarded, Settled
<1>6. \A j \in Requests \ {a} : Same(j)
  BY DEF BridgeInv, BridgeTypeOK, Same
<1>7. LoginInv'
  BY DEF BridgeInv, BridgeTypeOK, LoginInv
<1> QED  BY <1>1, <1>4, <1>5, <1>6, <1>7, StepKeeps

LEMMA EndKeepsBridge ==
  ASSUME BridgeInv, EndSession  PROVE BridgeInv'
<1> USE DEF EndSession
<1>1. post' \in [Requests -> Posts]
  BY DEF NoPost, Posts
<1>2. task' \in [Requests -> Tasks] /\ signin' \in [Requests -> SignIns]
  BY DEF NoTask, NoSignIn, Tasks, SignIns
<1>3. BridgeTypeOK'
  BY <1>1, <1>2 DEF BridgeInv, BridgeTypeOK
<1>4. LoginInv'
  BY DEF BridgeInv, BridgeTypeOK, LoginInv, NoSignIn
<1> QED  BY <1>3, <1>4 DEF BridgeInv, OverInv

LEMMA EndOfInputKeeps ==
  ASSUME BridgeInv, EndOfInput  PROVE BridgeInv'
<1> USE DEF EndOfInput
<1>1. BridgeTypeOK'
  BY DEF BridgeInv, BridgeTypeOK
<1>2. LoginInv' /\ OverInv'
  BY DEF BridgeInv, LoginInv, OverInv
<1>3. \A i \in Requests : Place(i)'
  BY SamePlace DEF BridgeInv, Same
<1> QED  BY <1>1, <1>2, <1>3 DEF BridgeInv

LEMMA TerminatedKeeps ==
  ASSUME BridgeInv, UNCHANGED bridgeVars  PROVE BridgeInv'
<1> USE DEF bridgeVars
<1>1. BridgeTypeOK'
  BY DEF BridgeInv, BridgeTypeOK
<1>2. LoginInv' /\ OverInv'
  BY DEF BridgeInv, LoginInv, OverInv
<1>3. session # "over" => \A i \in Requests : Place(i)'
  BY SamePlace DEF BridgeInv, Same
<1> QED  BY <1>1, <1>2, <1>3 DEF BridgeInv

LEMMA BridgeInitInv == BridgeInit => BridgeInv
<1> SUFFICES ASSUME BridgeInit  PROVE BridgeInv
  OBVIOUS
<1> USE DEF BridgeInit
<1>1. post \in [Requests -> Posts]
  BY DEF NoPost, Posts
<1>2. task \in [Requests -> Tasks] /\ signin \in [Requests -> SignIns]
  BY DEF NoTask, NoSignIn, Tasks, SignIns
<1>3. BridgeTypeOK
  <2>1. answers \in [Requests -> 0..1]
    OBVIOUS
  <2> QED  BY <1>1, <1>2, <2>1, Zenon DEF BridgeTypeOK
<1>4. LoginInv /\ OverInv
  BY DEF LoginInv, OverInv, NoSignIn
<1>5. ASSUME NEW i \in Requests  PROVE Place(i)
  BY DEF Place, Unasked, Settled, NoPost, NoTask, NoSignIn
<1> QED  BY <1>3, <1>4, <1>5 DEF BridgeInv

LEMMA BridgeNextInv == BridgeInv /\ [BridgeNext]_bridgeVars => BridgeInv'
<1> SUFFICES ASSUME BridgeInv, [BridgeNext]_bridgeVars  PROVE BridgeInv'
  OBVIOUS
<1>1. ASSUME NEW i \in Requests, Ask(i) \/ AskAuthenticate(i) \/ Cancel(i)  PROVE BridgeInv'
  BY <1>1, AskKeeps, AskAuthenticateKeeps, CancelKeeps
<1>2. ASSUME NEW i \in Requests, ServerStep(i)  PROVE BridgeInv'
  BY <1>2, ServerAnswersKeeps, ServerDropsKeeps, ServerUnauthorizedKeeps DEF ServerStep
<1>3. ASSUME NEW i \in Requests, SignIn(i)  PROVE BridgeInv'
  BY <1>3, SignInKeeps
<1>4. ASSUME NEW i \in Requests, BridgeStep(i)  PROVE BridgeInv'
  <2>1. CASE PostAgain(i) \/ SignInFails(i) \/ BrowserReturns(i)
    BY <2>1, PostAgainKeeps, EndKeepsBridge, BrowserReturnsKeeps DEF SignInFails
  <2>2. CASE TakeCall(i) \/ Retry(i)
    BY <2>2, TakeCallKeeps, RetryKeeps
  <2>3. CASE TakeList(i) \/ StartList(i) \/ ListChecked(i) \/ Wake(i)
    BY <2>3, TakeListKeeps, StartListKeeps, ListCheckedKeeps, WakeKeeps
  <2>4. CASE SignedIn(i) \/ Notify(i) \/ Refreshed(i)
    BY <2>4, SignedInKeeps, NotifyKeeps, RefreshedKeeps
  <2> QED  BY <1>4, <2>1, <2>2, <2>3, <2>4 DEF BridgeStep
<1>5. CASE EndOfInput
  BY <1>5, EndOfInputKeeps
<1>6. CASE Over \/ ServerFails
  BY <1>6, EndKeepsBridge DEF Over, ServerFails
<1>7. CASE Terminated \/ UNCHANGED bridgeVars
  BY <1>7, TerminatedKeeps DEF Terminated
<1> QED  BY <1>1, <1>2, <1>3, <1>4, <1>5, <1>6, <1>7 DEF BridgeNext

LEMMA BridgeInvariance == BridgeSpec => []BridgeInv
<1> QED  BY BridgeInitInv, BridgeNextInv, PTL DEF BridgeSpec

\* Every variable keeps its type; in particular no request is answered twice.
THEOREM BridgeTypeCorrect == BridgeSpec => []BridgeTypeOK
<1>1. BridgeInv => BridgeTypeOK  BY DEF BridgeInv
<1> QED  BY <1>1, BridgeInvariance, PTL

\* However many calls of a session are refused, in whatever order their threads get
\* to the lock of _ConnectionLogin, one browser at most opens by itself.
THEOREM OneLogin == BridgeSpec => []AutomaticLoginOnce
<1>1. BridgeInv => AutomaticLoginOnce  BY DEF BridgeInv, LoginInv, AutomaticLoginOnce
<1> QED  BY <1>1, BridgeInvariance, PTL

\* pending_requests and retried_requests agree at any time with what the pumps and
\* their tasks have in hand.
THEOREM BooksAgree == BridgeSpec => []BooksAreExact
<1>1. ASSUME BridgeInv  PROVE BooksAreExact
  <2>1. \A i \in asked \ local : session # "over" =>
          (i \in pending <=> answers[i] = 0 /\ (i \in Lists => task[i] = "none"))
    <3> SUFFICES ASSUME NEW i \in asked \ local, session # "over"
                 PROVE  i \in pending <=> answers[i] = 0 /\ (i \in Lists => task[i] = "none")
      OBVIOUS
    <3>1. Place(i)  BY <1>1 DEF BridgeInv, BridgeTypeOK
    <3>2. CASE i \in Lists
      BY <3>1, <3>2 DEF Place, ListPlace, Forwarded, Settled
    <3>3. CASE i \notin Lists
      BY <3>1, <3>3 DEF Place, CallPlace, Forwarded, Settled
    <3> QED  BY <3>2, <3>3
  <2>2. ASSUME NEW i \in retried, session # "over"  PROVE i \in pending
    <3>1. Place(i) /\ i \in asked  BY <1>1, <2>2 DEF BridgeInv, BridgeTypeOK
    <3> QED
      BY <3>1, <2>2 DEF Place, CallPlace, ListPlace, ToolPlace, Forwarded, Settled
  <2> QED  BY <1>1, <2>1, <2>2 DEF BooksAreExact, BridgeInv, OverInv
<1> QED  BY <1>1, BridgeInvariance, PTL

\* What the server has run is not sent to it again, whatever is refused meanwhile.
THEOREM NothingRunsTwice == BridgeSpec => []NoCallRunsTwice
<1>1. ASSUME BridgeInv  PROVE NoCallRunsTwice
  <2> SUFFICES ASSUME NEW i \in executed  PROVE post[i] \notin {"posted", "unauthorized"}
    BY DEF NoCallRunsTwice
  <2>1. i \in Requests  BY <1>1 DEF BridgeInv, BridgeTypeOK
  <2>2. CASE session = "over"
    BY <1>1, <2>1, <2>2 DEF BridgeInv, OverInv, NoPost
  <2>3. CASE session # "over"
    BY <1>1, <2>1, <2>3 DEF BridgeInv, Place, RunPlace
  <2> QED  BY <2>2, <2>3
<1> QED  BY <1>1, BridgeInvariance, PTL
=============================================================================
