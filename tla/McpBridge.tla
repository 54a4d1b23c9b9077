----------------------------- MODULE McpBridge -----------------------------
(***************************************************************************)
(* One session of the MCP bridge (src/src/ucode/mcp_proxy.py): the pump of *)
(* the client's messages, the pump of the server's, the tasks they start   *)
(* for sign-in and for tool lists, and the sign-in that all of them share  *)
(* with the HTTP client underneath.                                        *)
(*                                                                         *)
(* Everything runs on one event loop, so what happens between two awaits   *)
(* is one step; a blocking call runs in a thread, and its end and the      *)
(* resumption of the task that waits for it are steps of their own.        *)
(*                                                                         *)
(* The client, the server and the user at the browser are external.  The   *)
(* server answers every request it gets unless the client cancels it, and  *)
(* may ask for sign-in at any time, by HTTP 401 or in its answer.  The     *)
(* session is one with a connection, the only ones that sign in.  What a   *)
(* thread still does once the session is over has no effect on it.         *)
(***************************************************************************)
EXTENDS Naturals, FiniteSets

CONSTANTS
  Calls,            \* tools/call requests of the client, each asked once
  Lists,            \* its tools/list requests
  Authentications   \* its calls of the tool named authenticate

ASSUME RequestsAssumption ==
  Calls \cap Lists = {} /\ (Calls \cup Lists) \cap Authentications = {}

Requests == Calls \cup Lists \cup Authentications

\* The server's answers.  A call: a result, a request for sign-in, any other
\* error.  A list: the tools, with a tool named authenticate of its own, or a
\* page of them; a request for sign-in by its code, or by a link; an error.
CallVerdicts == {"ok", "refused", "error"}
ListVerdicts == {"tools", "own", "page", "refused", "linked", "error"}
Verdicts == CallVerdicts \cup ListVerdicts
Posts == {"none", "posted", "unauthorized", "dropped"} \cup Verdicts

\* Waiting for _ConnectionLogin's lock, at the browser, and what came of it.
Outcomes == {"ready", "unready", "failed"}
SignIns == {"no", "asked", "browser"} \cup Outcomes

ListTasks == {"start", "linked", "offer", "mark", "wake"}
AuthTasks == {"signing", "notify", "refresh"}
Tasks == {"none", "retry"} \cup ListTasks \cup AuthTasks

VARIABLES
  session,    \* "open", "eof" after the client's last message, "over"
  asked,      \* requests the client has sent
  local,      \* authenticate calls that the bridge handles itself
  cancelled,  \* calls the client has cancelled
  post,       \* each request at the server, then its answer on the way
  again,      \* requests that the HTTP client has sent again after a 401
  pending,    \* pending_requests
  retried,    \* retried_requests
  task,       \* the task that works on each request
  signin,     \* its _run_if_needed
  attempted,  \* _login_attempted
  completed,  \* _completed
  required,   \* authentication_required
  confirmed,  \* authentication_completed
  available,  \* authentication_tool_available
  own,        \* _upstream_authentication_tool
  waiters,    \* _tools_refresh_waiters
  woken,      \* authenticate calls whose event is set
  answers,    \* how often each request was answered
  autos,      \* history: automatic sign-ins that reached the browser
  executed    \* history: calls whose result the server has sent

flags == <<required, confirmed, available, own>>
login == <<attempted, completed, autos>>
refresh == <<waiters, woken>>
books == <<pending, retried>>
client == <<asked, local, cancelled>>
bridgeVars == <<session, client, post, again, books, task, signin, login, flags,
          refresh, answers, executed>>

NoPost == [i \in Requests |-> "none"]
NoTask == [i \in Requests |-> "none"]
NoSignIn == [i \in Requests |-> "no"]

BridgeInit ==
  /\ session = "open"
  /\ asked = {} /\ local = {} /\ cancelled = {}
  /\ post = NoPost /\ again = {}
  /\ pending = {} /\ retried = {}
  /\ task = NoTask
  /\ signin = NoSignIn
  /\ attempted = FALSE /\ completed = FALSE /\ autos = 0
  /\ required = FALSE /\ confirmed = FALSE /\ available = FALSE /\ own = FALSE
  /\ waiters = {} /\ woken = {}
  /\ answers = [i \in Requests |-> 0]
  /\ executed = {}

Running == session \in {"open", "eof"}

Answer(i) == answers' = [answers EXCEPT ![i] = @ + 1]
Becomes(i, label) == task' = [task EXCEPT ![i] = label]
Posted(i, what) == post' = [post EXCEPT ![i] = what]

\* The bridge goes, and with it all it kept in memory.
EndSession ==
  /\ session' = "over"
  /\ post' = NoPost /\ again' = {}
  /\ pending' = {} /\ retried' = {}
  /\ task' = NoTask /\ signin' = NoSignIn
  /\ attempted' = FALSE /\ completed' = FALSE
  /\ required' = FALSE /\ confirmed' = FALSE /\ available' = FALSE /\ own' = FALSE
  /\ waiters' = {} /\ woken' = {}
  /\ UNCHANGED <<client, autos, answers, executed>>

\* The request leaves the books.
Settle(i) == pending' = pending \ {i} /\ retried' = retried \ {i}

-----------------------------------------------------------------------------
(* pump_client. *)

\* A request that is not the bridge's own goes to the server.
Forward(i) ==
  /\ asked' = asked \cup {i}
  /\ pending' = pending \cup {i}
  /\ Posted(i, "posted")

Ask(i) ==
  /\ session = "open" /\ i \in (Calls \cup Lists) \ asked
  /\ Forward(i)
  /\ UNCHANGED <<session, local, cancelled, again, retried, task, signin, login,
                 flags, refresh, answers, executed>>

\* The bridge handles a call of its tool itself while it offers it.
AskAuthenticate(a) ==
  /\ session = "open" /\ a \in Authentications \ asked
  /\ IF (required \/ available) /\ ~own
     THEN /\ asked' = asked \cup {a} /\ local' = local \cup {a}
          /\ Becomes(a, "signing")
          /\ signin' = [signin EXCEPT ![a] = "asked"]
          /\ UNCHANGED <<post, pending>>
     ELSE Forward(a) /\ UNCHANGED <<local, task, signin>>
  /\ UNCHANGED <<session, cancelled, again, retried, login, flags,
                 refresh, answers, executed>>

\* A notification, which is passed on and not looked at; calls are what clients
\* cancel.
Cancel(i) ==
  /\ session = "open" /\ i \in (Calls \cap asked) \ cancelled /\ answers[i] = 0
  /\ cancelled' = cancelled \cup {i}
  /\ UNCHANGED <<session, asked, local, post, again, books, task, signin,
                 login, flags, refresh, answers, executed>>

\* The client is gone: the bridge ends once its authenticate calls have.
EndOfInput ==
  /\ session = "open" /\ session' = "eof"
  /\ UNCHANGED <<client, post, again, books, task, signin, login, flags, refresh,
                 answers, executed>>

Over ==
  /\ session = "eof" /\ \A a \in local : task[a] = "none"
  /\ EndSession

-----------------------------------------------------------------------------
(* The server. *)

ServerAnswers(i) ==
  /\ Running /\ post[i] = "posted"
  /\ \E v \in IF i \in Lists THEN ListVerdicts ELSE CallVerdicts : Posted(i, v)
  /\ executed' = IF i \notin Lists /\ post'[i] = "ok" THEN executed \cup {i} ELSE executed
  /\ UNCHANGED <<session, client, again, books, task, signin, login, flags, refresh,
                 answers>>

ServerDrops(i) ==
  /\ Running /\ post[i] = "posted" /\ i \in cancelled
  /\ Posted(i, "dropped")
  /\ UNCHANGED <<session, client, again, books, task, signin, login, flags, refresh,
                 answers, executed>>

\* The transport fails or closes: ProxyTransportError ends the session.
ServerFails ==
  /\ Running /\ EndSession

\* HTTP 401.  async_auth_flow asks for sign-in once for each POST of a call.
ServerUnauthorized(i) ==
  /\ Running /\ post[i] = "posted"
  /\ IF i \in Lists \/ i \in again
     THEN Posted(i, "error") /\ UNCHANGED signin
     ELSE /\ Posted(i, "unauthorized")
          /\ signin' = [signin EXCEPT ![i] = "asked"]
  /\ UNCHANGED <<session, client, again, books, task, login, flags, refresh,
                 answers, executed>>

PostAgain(i) ==
  /\ Running /\ post[i] = "unauthorized"
  /\ \/ signin[i] = "ready" /\ Posted(i, "posted") /\ again' = again \cup {i}
     \/ signin[i] = "unready" /\ Posted(i, "error") /\ UNCHANGED again
  /\ signin' = [signin EXCEPT ![i] = "no"]
  /\ UNCHANGED <<session, client, books, task, login, flags, refresh, answers, executed>>

\* ProxyAuthError inside the transport.
SignInFails(i) ==
  /\ Running /\ post[i] = "unauthorized" /\ signin[i] = "failed"
  /\ EndSession

-----------------------------------------------------------------------------
(* _run_if_needed, in a thread: automatic for a call, explicit for the tool. *)

Explicit(i) == i \in local
LockFree == \A i \in Requests : signin[i] # "browser"

\* Mistaken form: an attempt that did not succeed is not remembered.
SignInForgetful(i) ==
  /\ Running /\ signin[i] = "asked" /\ LockFree
  /\ \/ /\ completed /\ ~Explicit(i)
        /\ signin' = [signin EXCEPT ![i] = "ready"] /\ UNCHANGED login
     \/ /\ ~Explicit(i) /\ ~completed
        /\ signin' = [signin EXCEPT ![i] = "unready"] /\ UNCHANGED login
     \/ /\ Explicit(i) \/ ~completed
        /\ signin' = [signin EXCEPT ![i] = "browser"]
        /\ attempted' = TRUE /\ completed' = FALSE
        /\ autos' = IF Explicit(i) THEN autos ELSE autos + 1
  /\ UNCHANGED <<session, client, post, again, books, task, flags, refresh, answers,
                 executed>>

\* The lock is taken: the connection is ready; the service needs no sign-in, or
\* it was tried before; the browser opens.
SignIn(i) ==
  /\ Running /\ signin[i] = "asked" /\ LockFree
  /\ \/ /\ completed /\ ~Explicit(i)
        /\ signin' = [signin EXCEPT ![i] = "ready"] /\ UNCHANGED login
     \/ /\ ~Explicit(i) /\ ~completed
        /\ signin' = [signin EXCEPT ![i] = "unready"] /\ UNCHANGED login
     \/ /\ Explicit(i) \/ ~(completed \/ attempted)
        /\ signin' = [signin EXCEPT ![i] = "browser"]
        /\ attempted' = TRUE /\ completed' = FALSE
        /\ autos' = IF Explicit(i) THEN autos ELSE autos + 1
  /\ UNCHANGED <<session, client, post, again, books, task, flags, refresh, answers,
                 executed>>

\* The user signed in, or did not within _LOGIN_TIMEOUT_SECONDS.
BrowserReturns(i) ==
  /\ Running /\ signin[i] = "browser"
  /\ \/ signin' = [signin EXCEPT ![i] = "ready"] /\ completed' = TRUE
     \/ signin' = [signin EXCEPT ![i] = "failed"] /\ UNCHANGED completed
  /\ UNCHANGED <<session, client, post, again, books, task, attempted, autos, flags,
                 refresh, answers, executed>>

-----------------------------------------------------------------------------
(* pump_upstream. *)

\* Mistaken forms: a call is retried as often as it is refused; a link in any
\* result is taken for a request to sign in.
MayRetryAlways(i) == post[i] = "refused" /\ ~own
MayRetryOnLink(i) == post[i] # "error" /\ ~own /\ i \notin retried

\* The answer asks for sign-in, for the first time and not for the server's tool.
MayRetry(i) == post[i] = "refused" /\ ~own /\ i \notin retried

\* Mistaken form: the refusal is passed on as well.
KeepBackAndSend(i) ==
  /\ retried' = retried \cup {i}
  /\ Becomes(i, "retry")
  /\ signin' = [signin EXCEPT ![i] = "asked"]
  /\ Answer(i)
  /\ UNCHANGED pending

KeepBack(i) ==
  /\ retried' = retried \cup {i}
  /\ Becomes(i, "retry")
  /\ signin' = [signin EXCEPT ![i] = "asked"]
  /\ UNCHANGED <<pending, answers>>

\* The answer to a call: kept back for a sign-in and one retry, or passed on.
TakeCall(i) ==
  /\ Running /\ i \notin Lists /\ post[i] \in CallVerdicts
  /\ Posted(i, "none")
  /\ \/ MayRetry(i) /\ KeepBack(i)
     \/ ~MayRetry(i) /\ Settle(i) /\ Answer(i) /\ UNCHANGED <<task, signin>>
  /\ UNCHANGED <<session, client, again, login, flags, refresh, executed>>

\* Mistaken form: a call whose sign-in failed stays in the books.
RetryKeepsBooks(i) ==
  /\ Running /\ task[i] = "retry" /\ signin[i] \in Outcomes
  /\ Becomes(i, "none")
  /\ signin' = [signin EXCEPT ![i] = "no"]
  /\ again' = again \ {i}
  /\ IF signin[i] = "ready"
     THEN Posted(i, "posted") /\ UNCHANGED <<books, answers>>
     ELSE Answer(i) /\ UNCHANGED <<post, books>>
  /\ UNCHANGED <<session, client, login, flags, refresh, executed>>

\* _authenticate_and_retry, once it knows.
Retry(i) ==
  /\ Running /\ task[i] = "retry" /\ signin[i] \in Outcomes
  /\ Becomes(i, "none")
  /\ signin' = [signin EXCEPT ![i] = "no"]
  /\ again' = again \ {i}
  /\ IF signin[i] = "ready"
     THEN Posted(i, "posted") /\ UNCHANGED <<books, answers>>
     ELSE Settle(i) /\ Answer(i) /\ UNCHANGED post
  /\ UNCHANGED <<session, client, login, flags, refresh, executed>>

\* A tool list gets a task of its own.
TakeList(l) ==
  /\ Running /\ l \in Lists /\ post[l] \in ListVerdicts /\ task[l] = "none"
  /\ Settle(l)
  /\ Becomes(l, "start")
  /\ UNCHANGED <<session, client, post, again, signin, login, flags, refresh,
                 answers, executed>>

\* The list is sent, and the task goes on or ends.
Send(l, next) ==
  /\ Answer(l) /\ Becomes(l, next) /\ Posted(l, "none")

AskForSignIn ==
  required' = TRUE /\ confirmed' = FALSE /\ available' = TRUE

\* _send_tool_list_response up to its first await, and _with_authentication_tool.
StartList(l) ==
  /\ Running /\ task[l] = "start"
  /\ \/ /\ post[l] = "refused" /\ ~own
        /\ AskForSignIn /\ UNCHANGED own
        /\ Send(l, "wake")
     \/ /\ post[l] = "linked" /\ ~own
        /\ Becomes(l, "linked")
        /\ UNCHANGED <<flags, post, answers>>
     \/ /\ post[l] = "error" \/ (own /\ post[l] \in {"refused", "linked"})
        /\ Send(l, "none")
        /\ UNCHANGED flags
     \/ /\ post[l] \in {"tools", "own", "page"}
        /\ required' = FALSE /\ UNCHANGED confirmed
        /\ own' \in IF post[l] = "own" THEN {TRUE} ELSE {own, FALSE}
        /\ available' = (available /\ post[l] # "own")
        /\ IF own' \/ post[l] = "page" THEN Send(l, "mark")
           ELSE Becomes(l, "offer") /\ UNCHANGED <<post, answers>>
  /\ UNCHANGED <<session, client, again, books, signin, login, refresh, executed>>

\* supports_login has answered.
ListChecked(l) ==
  /\ Running
  /\ \/ /\ task[l] = "linked"
        /\ \/ AskForSignIn /\ Send(l, "wake")
           \/ Send(l, "none") /\ UNCHANGED <<required, confirmed, available>>
     \/ /\ task[l] = "offer"
        /\ available' \in {available, TRUE} /\ UNCHANGED <<required, confirmed>>
        /\ Send(l, "mark")
  /\ UNCHANGED <<session, client, again, books, own, signin, login, refresh, executed>>

\* _mark_tools_refreshed: after a list that asks for sign-in, and after any list
\* once a sign-in is confirmed.
Wake(l) ==
  /\ Running /\ task[l] \in {"mark", "wake"}
  /\ Becomes(l, "none")
  /\ IF task[l] = "wake" \/ confirmed
     THEN woken' = woken \cup waiters /\ waiters' = {}
     ELSE UNCHANGED refresh
  /\ UNCHANGED <<session, client, post, again, books, signin, login, flags, answers,
                 executed>>

-----------------------------------------------------------------------------
(* _handle_authentication_tool. *)

Report(a) == Answer(a) /\ Becomes(a, "none")

\* The sign-in failed, or is confirmed and a waiter for the tools registered.
SignedIn(a) ==
  /\ Running /\ task[a] = "signing" /\ signin[a] \in Outcomes
  /\ signin' = [signin EXCEPT ![a] = "no"]
  /\ IF signin[a] = "ready"
     THEN /\ required' = FALSE /\ confirmed' = TRUE
          /\ waiters' = waiters \cup {a}
          /\ Becomes(a, "notify")
          /\ UNCHANGED answers
     ELSE Report(a) /\ UNCHANGED <<required, confirmed, waiters>>
  /\ UNCHANGED <<session, client, post, again, books, available, own, login, woken,
                 executed>>

\* tools/list_changed is sent.
Notify(a) ==
  /\ Running /\ task[a] = "notify"
  /\ Becomes(a, "refresh")
  /\ UNCHANGED <<session, client, post, again, books, signin, login, flags, refresh,
                 answers, executed>>

\* Mistaken form: the tool waits for the tools without a limit.
RefreshedForever(a) ==
  /\ Running /\ task[a] = "refresh" /\ a \in woken
  /\ Report(a)
  /\ woken' = woken \ {a}
  /\ UNCHANGED <<session, client, post, again, books, signin, login, flags, waiters,
                 executed>>

\* The tools were refreshed, or TOOLS_REFRESH_TIMEOUT_SECONDS are over: then the
\* event stays with the waiters only if sign-in is required again.
Refreshed(a) ==
  /\ Running /\ task[a] = "refresh"
  /\ Report(a)
  /\ woken' = woken \ {a}
  /\ waiters' = IF required THEN waiters ELSE waiters \ {a}
  /\ UNCHANGED <<session, client, post, again, books, signin, login, flags, executed>>

-----------------------------------------------------------------------------
ServerStep(i) == ServerAnswers(i) \/ ServerDrops(i) \/ ServerUnauthorized(i)

BridgeStep(i) ==
  \/ PostAgain(i) \/ SignInFails(i) \/ BrowserReturns(i) \/ TakeCall(i) \/ Retry(i)
  \/ TakeList(i) \/ StartList(i) \/ ListChecked(i) \/ Wake(i)
  \/ SignedIn(i) \/ Notify(i) \/ Refreshed(i)

Terminated == session = "over" /\ UNCHANGED bridgeVars

BridgeNext ==
  \/ \E i \in Requests : \/ Ask(i) \/ AskAuthenticate(i) \/ Cancel(i)
                         \/ ServerStep(i) \/ SignIn(i) \/ BridgeStep(i)
  \/ EndOfInput \/ Over \/ ServerFails \/ Terminated

BridgeSpec == BridgeInit /\ [][BridgeNext]_bridgeVars

\* Threads and tasks that can run do, the server answers, and the sign-in at the
\* browser and the wait for a refresh have a limit.  The client may ask nothing,
\* and never end.
BridgeFairness ==
  /\ \A i \in Requests : WF_bridgeVars(ServerStep(i) \/ SignIn(i) \/ BridgeStep(i))
  /\ WF_bridgeVars(Over)

FairBridgeSpec == BridgeSpec /\ BridgeFairness

-----------------------------------------------------------------------------
(* Properties. *)

BridgeTypeOK ==
  /\ session \in {"open", "eof", "over"}
  /\ asked \subseteq Requests
  /\ local \subseteq Authentications \cap asked
  /\ cancelled \subseteq Calls \cap asked
  /\ post \in [Requests -> Posts]
  /\ again \subseteq asked /\ pending \subseteq asked /\ retried \subseteq asked
  /\ executed \subseteq asked
  /\ task \in [Requests -> Tasks]
  /\ signin \in [Requests -> SignIns]
  /\ attempted \in BOOLEAN /\ completed \in BOOLEAN
  /\ required \in BOOLEAN /\ confirmed \in BOOLEAN
  /\ available \in BOOLEAN /\ own \in BOOLEAN
  /\ autos \in Nat
  /\ waiters \subseteq local /\ woken \subseteq local
  /\ answers \in [Requests -> 0..1]

\* "Run automatic login once per proxy session": however many calls are refused
\* at a time, by whichever layer, and whatever came of the first sign-in, the
\* user sees at most one browser that no one asked for.
AutomaticLoginOnce == autos <= 1

\* The books hold exactly the forwarded requests without an answer: no task loses
\* a request between the pumps, and none leaves one behind.
BooksAreExact ==
  /\ retried \subseteq pending
  /\ session # "over" => \A i \in asked \ local :
       i \in pending <=> answers[i] = 0 /\ (i \in Lists => task[i] = "none")

\* A call that the server has run is never sent again, neither by the bridge nor
\* by the HTTP client.
NoCallRunsTwice == \A i \in executed : post[i] \notin {"posted", "unauthorized"}

\* Every request is answered, unless the client cancelled it or the session ends:
\* no refusal is retried for ever, and no task waits for a sign-in in vain.
RequestSettled ==
  \A i \in Requests : i \in asked ~>
    answers[i] = 1 \/ i \in cancelled \/ session = "over"

\* When the client is gone the session ends, also while the authenticate tool
\* waits for a refresh that no one will ask for.
SessionEnds == session = "eof" ~> session = "over"
============================================================================
