------------------------------- MODULE SignIn -------------------------------
(***************************************************************************)
(* Tokens and sign-in (src/src/ucode/databricks.py, desktop_auth.py).      *)
(*                                                                         *)
(* A process of ug keeps the token of a workspace in a memo, which its     *)
(* threads share.  A thread that finds none asks the Databricks CLI, one   *)
(* thread at a time; a login clears the memo, and an epoch keeps a token   *)
(* that was asked for before from being put back after.                    *)
(*                                                                         *)
(* The helpers of desktop applications are processes of their own.  Where  *)
(* the login is lost they open a browser, one at a time by a lock file,    *)
(* within a budget of time: the credential command with --browser-login    *)
(* (databricks.py), and Claude Desktop's helper, which may also need the   *)
(* Claude subscription's own login (desktop_auth.py).                      *)
(*                                                                         *)
(* The CLI, the user at the browser and what ends a login are external.    *)
(* Tokens are numbered as they are issued, so the CLI's is the newest.     *)
(***************************************************************************)
EXTENDS Naturals, FiniteSetsExt

CONSTANTS
  Callers,      \* threads or helper processes that ask for a token once
  Processes,
  NoCaller,     \* a lock that is free
  Scenarios,    \* what each caller asks for, in which process, and for whom, whether
                \* the CLI has `auth login --no-browser`, and the logins there are; Claude
                \* Desktop's helper is a command of its own
  MaxIssued,    \* how many tokens are issued at most
  MaxLosses     \* how often a login is lost

Asks == {"token",     \* get_databricks_token
         "forced",    \* the same with force_refresh
         "helper",    \* the same with browser_login
         "setup",     \* ensure_databricks_auth, then get_databricks_token
         "desktop",   \* get_claude_desktop_databricks_token
         "relay",     \* get_claude_desktop_relay_credential
         "nothing"}
Modes == {"token", "forced", "helper", "check", "desktop", "claude"}
Locks == {"auth-login", "claude-desktop-auth"}
Logins == {"databricks", "claude"}

States == {"live", "stale", "lost"}
Calls == [asks : Asks, home : Processes, interactive : BOOLEAN]

ASSUME CallersAssumption ==
  /\ NoCaller \notin Callers
  /\ Scenarios \subseteq [calls : [Callers -> Calls], noBrowser : BOOLEAN,
                         login : {f \in [Logins -> States] : f["databricks"] # "stale"}]
  /\ \A s \in Scenarios : \A c, d \in Callers :
       s.calls[c].asks \in {"desktop", "relay"} /\ c # d /\ s.calls[c].home = s.calls[d].home
         => s.calls[d].asks = "nothing"
  /\ MaxIssued \in Nat /\ MaxLosses \in Nat

Stages == {"idle", "look", "queued", "asking", "reauth", "waiting", "recheck", "status",
           "browsing", "confirm", "ending", "signing", "clearing", "done", "failed", "killed"}
Over == {"done", "failed", "killed"}
NoEntry == [kind |-> "none", token |-> 0]
Failure == [kind |-> "failure", token |-> 0]
Entry(t) == [kind |-> "token", token |-> t]
Memos(n) == {NoEntry, Failure} \cup {Entry(t) : t \in 1 .. n}

VARIABLES
  world,      \* one of Scenarios, from the start
  login,      \* each login: "live", "lost", or "stale" until its program renews it
  newest,     \* the last token that was issued
  lockfile,   \* the holder of each lock file
  memo,       \* _TOKEN_MEMO of each process, for the one workspace and profile
  epoch,      \* _TOKEN_CACHE_EPOCH
  inflight,   \* the holder of the key's lock in each process
  stage,      \* where a caller is
  mode,       \* and what for
  asked,      \* token_epoch: the epoch when it went to the CLI
  given,      \* what the CLI gave it, or 0
  why,        \* how the CLI failed it last: "ok", "auth", "transient"
  waited,     \* it had to wait for the lock file
  losses,     \* history: how often a login was lost
  seen,       \* history: per process, the newest token that a call has returned or that
              \* was there when the memo was cleared
  floor,      \* history: seen, when the call began
  renewed     \* history: the modes whose browser renewed a login since it was lost

cli == <<login, newest>>
memory == <<memo, epoch, inflight>>
mine == <<asked, given, why, waited>>
signInVars == <<world, cli, lockfile, memory, stage, mode, mine, losses, seen, floor,
                renewed>>

Asked(c) == world.calls[c].asks
Home(c) == world.calls[c].home
Interactive(c) == world.calls[c].interactive
LockOf(c) == IF mode[c] = "helper" THEN "auth-login" ELSE "claude-desktop-auth"
LoginOf(c) == IF mode[c] = "claude" THEN "claude" ELSE "databricks"
FirstMode(c) ==
  CASE Asked(c) = "nothing" -> "token"
    [] Asked(c) = "setup" -> "check"
    [] Asked(c) = "relay" -> "desktop"
    [] OTHER -> Asked(c)

SignInInit ==
  /\ world \in Scenarios
  /\ login = world.login
  /\ newest = 1
  /\ lockfile = [l \in Locks |-> NoCaller]
  /\ memo = [p \in Processes |-> NoEntry]
  /\ epoch = [p \in Processes |-> 0]
  /\ inflight = [p \in Processes |-> NoCaller]
  /\ stage = [c \in Callers |-> IF Asked(c) = "nothing" THEN "done" ELSE "idle"]
  /\ mode = [c \in Callers |-> FirstMode(c)]
  /\ asked = [c \in Callers |-> 0]
  /\ given = [c \in Callers |-> 0]
  /\ why = [c \in Callers |-> "ok"]
  /\ waited = [c \in Callers |-> FALSE]
  /\ losses = 0
  /\ seen = [p \in Processes |-> 0]
  /\ floor = [c \in Callers |-> 0]
  /\ renewed = {}

Goes(c, label) == stage' = [stage EXCEPT ![c] = label]
Fails(c) == Goes(c, "failed") /\ UNCHANGED <<mode, seen>>

\* The caller has its token; a relay then needs the other credential.
ReturnsToken(c, t) ==
  /\ seen' = [seen EXCEPT ![Home(c)] = Max({@, t})]
  /\ IF Asked(c) = "relay" /\ mode[c] = "desktop"
     THEN Goes(c, "asking") /\ mode' = [mode EXCEPT ![c] = "claude"]
     ELSE Goes(c, "done") /\ UNCHANGED mode

\* A check has found the login: setup goes on to ask for the token.
Proceeds(c) == Goes(c, "idle") /\ mode' = [mode EXCEPT ![c] = "token"] /\ UNCHANGED seen

Frees(c) == lockfile' = [lockfile EXCEPT ![LockOf(c)] = IF @ = c THEN NoCaller ELSE @]

\* The logins a call depends on.
Needs(c) == IF Asked(c) = "relay" THEN Logins ELSE {"databricks"}

-----------------------------------------------------------------------------
(* The CLI. *)

\* What login the user or the CLI renews, a token comes with.
Renews(c) ==
  /\ login' = [login EXCEPT ![LoginOf(c)] = "live"]
  /\ IF LoginOf(c) = "databricks"
     THEN newest < MaxIssued /\ newest' = newest + 1
     ELSE UNCHANGED newest

\* `databricks auth token`: the cached token or, close to its expiry or when forced, a
\* new one; no token without a login; or any other failure.  For Claude's credential,
\* which is only read, a failure that is none of the login's ends the call.
Answers(c) ==
  \/ /\ mode[c] # "claude" /\ login["databricks"] = "live"
     /\ \/ mode[c] # "forced" /\ UNCHANGED newest
        \/ newest < MaxIssued /\ newest' = newest + 1
     /\ given' = [given EXCEPT ![c] = newest']
     /\ why' = [why EXCEPT ![c] = "ok"]
  \/ /\ mode[c] = "claude" /\ login["claude"] = "live"
     /\ why' = [why EXCEPT ![c] = "ok"]
     /\ UNCHANGED <<given, newest>>
  \/ /\ login[LoginOf(c)] # "live"
     /\ why' = [why EXCEPT ![c] = "auth"]
     /\ given' = [given EXCEPT ![c] = 0] /\ UNCHANGED newest
  \/ /\ why' = [why EXCEPT ![c] = "transient"]
     /\ given' = [given EXCEPT ![c] = 0] /\ UNCHANGED newest

\* A login ends, in the CLI or in Claude.
Ends(l) ==
  /\ losses < MaxLosses
  /\ losses' = losses + 1
  /\ \E s \in IF l = "claude" THEN {"stale", "lost"} ELSE {"lost"} :
       login[l] # s /\ login' = [login EXCEPT ![l] = s]
  /\ renewed' = renewed \ (IF l = "claude" THEN {"claude"} ELSE {"helper", "desktop"})

Loses(l) ==
  /\ \E c \in Callers : stage[c] \notin Over /\ l \in Needs(c)
  /\ Ends(l)
  /\ UNCHANGED <<world, newest, lockfile, memory, stage, mode, mine, seen, floor>>

-----------------------------------------------------------------------------
(* The memo of a process. *)

\* What a call makes of the memo before it goes to the CLI.
Memoized(c, miss) ==
  LET m == memo[Home(c)] IN
  CASE m.kind = "token" /\ mode[c] = "check" -> Proceeds(c) /\ UNCHANGED <<given, inflight, asked>>
    [] m.kind = "token" /\ mode[c] \in {"token", "helper"} ->
         /\ ReturnsToken(c, m.token)
         /\ given' = [given EXCEPT ![c] = m.token]
         /\ UNCHANGED <<inflight, asked>>
    [] m.kind = "failure" /\ mode[c] = "token" -> Fails(c) /\ UNCHANGED <<given, inflight, asked>>
    [] OTHER -> miss /\ UNCHANGED <<given, mode, seen>>

\* A call begins; a setup that is told to sign in does not look first.
BeginCall(c) ==
  /\ stage[c] = "idle"
  /\ floor' = [floor EXCEPT ![c] = seen[Home(c)]]
  /\ \/ Goes(c, IF mode[c] = "desktop" THEN "asking" ELSE "look")
     \/ mode[c] = "check" /\ Goes(c, "signing")
  /\ UNCHANGED <<world, cli, lockfile, memory, mode, mine, losses, seen, renewed>>

Look(c) ==
  /\ stage[c] = "look"
  /\ Memoized(c, Goes(c, "queued") /\ UNCHANGED <<inflight, asked>>)
  /\ UNCHANGED <<world, cli, lockfile, memo, epoch, why, waited, losses, floor, renewed>>

\* Mistaken form: the lock of the key is a new one for every call.
DequeueOwnLock(c) ==
  /\ stage[c] = "queued"
  /\ Memoized(c, /\ Goes(c, "asking")
                 /\ inflight' = [inflight EXCEPT ![Home(c)] = c]
                 /\ asked' = [asked EXCEPT ![c] = epoch[Home(c)]])
  /\ UNCHANGED <<world, cli, lockfile, memo, epoch, why, waited, losses, floor, renewed>>

\* Under the key's lock the memo is looked at again, and the epoch read.
Dequeue(c) ==
  /\ stage[c] = "queued" /\ inflight[Home(c)] = NoCaller
  /\ Memoized(c, /\ Goes(c, "asking")
                 /\ inflight' = [inflight EXCEPT ![Home(c)] = c]
                 /\ asked' = [asked EXCEPT ![c] = epoch[Home(c)]])
  /\ UNCHANGED <<world, cli, lockfile, memo, epoch, why, waited, losses, floor, renewed>>

\* A token that is too close to its expiry still drives the older one out.
Memorize(c) ==
  CASE why[c] = "ok" -> \E m \in {Entry(given[c]), NoEntry} : memo' = [memo EXCEPT ![Home(c)] = m]
    [] why[c] = "auth" /\ mode[c] \in {"token", "helper"} ->
         memo' = [memo EXCEPT ![Home(c)] = Failure]
    [] OTHER -> UNCHANGED memo

\* Mistaken form: whatever was asked for is remembered.
RememberLate(c) == Memorize(c)

\* _remember_token and _remember_token_failure: only what the epoch has asked for.
Remember(c) == IF asked[c] = epoch[Home(c)] THEN Memorize(c) ELSE UNCHANGED memo

\* Mistaken form: a call that raises leaves the key's lock taken.
EndLocked(c) ==
  /\ stage[c] = "ending"
  /\ Remember(c)
  /\ inflight' = [inflight EXCEPT ![Home(c)] = IF why[c] = "ok" THEN NoCaller ELSE @]
  /\ CASE mode[c] = "check" /\ why[c] = "ok" -> Proceeds(c)
       [] mode[c] = "check" /\ why[c] # "ok" -> Goes(c, "signing") /\ UNCHANGED <<mode, seen>>
       [] mode[c] # "check" /\ why[c] = "ok" -> ReturnsToken(c, given[c])
       [] OTHER -> Fails(c)
  /\ UNCHANGED <<world, cli, lockfile, epoch, mine, losses, floor, renewed>>

\* The call is back from the CLI: what came of it is remembered, and its lock freed.
End(c) ==
  /\ stage[c] = "ending"
  /\ Remember(c)
  /\ inflight' = [inflight EXCEPT ![Home(c)] = NoCaller]
  /\ CASE mode[c] = "check" /\ why[c] = "ok" -> Proceeds(c)
       [] mode[c] = "check" /\ why[c] # "ok" -> Goes(c, "signing") /\ UNCHANGED <<mode, seen>>
       [] mode[c] # "check" /\ why[c] = "ok" -> ReturnsToken(c, given[c])
       [] OTHER -> Fails(c)
  /\ UNCHANGED <<world, cli, lockfile, epoch, mine, losses, floor, renewed>>

\* An entry's time is over.
Expires(p) ==
  /\ memo[p] # NoEntry /\ \E c \in Callers : Home(c) = p /\ stage[c] \notin Over
  /\ memo' = [memo EXCEPT ![p] = NoEntry]
  /\ UNCHANGED <<world, cli, lockfile, epoch, inflight, stage, mode, mine, losses, seen,
                 floor, renewed>>

-----------------------------------------------------------------------------
(* The call to the CLI, and what follows when it has no token. *)

\* The first request.  The credential of Claude is read here, and its failure always
\* leads to the lock; the desktop helper wants a user in front of it first.
Ask(c) ==
  /\ stage[c] = "asking"
  /\ Answers(c)
  /\ CASE mode[c] \in {"desktop", "claude"} /\ why'[c] = "ok" -> ReturnsToken(c, given'[c])
       [] mode[c] = "desktop" /\ why'[c] # "ok" ->
            IF why'[c] = "auth" /\ Interactive(c)
            THEN Goes(c, "waiting") /\ UNCHANGED <<mode, seen>> ELSE Fails(c)
       [] mode[c] = "claude" /\ why'[c] # "ok" ->
            IF why'[c] = "auth" THEN Goes(c, "waiting") /\ UNCHANGED <<mode, seen>> ELSE Fails(c)
       [] mode[c] = "helper" /\ why'[c] = "auth" -> Goes(c, "waiting") /\ UNCHANGED <<mode, seen>>
       [] OTHER ->
            /\ Goes(c, IF why'[c] # "ok" /\ mode[c] # "check" /\ world.noBrowser
                       THEN "reauth" ELSE "ending")
            /\ UNCHANGED <<mode, seen>>
  /\ UNCHANGED <<world, login, lockfile, memory, asked, waited, losses, floor, renewed>>

\* `auth login --no-browser` renews the login and the CLI is asked again; or it fails,
\* or takes too long, which says nothing of the login.
Reauth(c) ==
  /\ stage[c] = "reauth"
  /\ \/ Renews(c) /\ Goes(c, "confirm") /\ UNCHANGED why
     \/ /\ \E w \in {why[c], "transient"} : why' = [why EXCEPT ![c] = w]
        /\ Goes(c, "ending") /\ UNCHANGED cli
  /\ UNCHANGED <<world, lockfile, memory, mode, asked, given, waited, losses, seen, floor, renewed>>

\* The lock of the browser; the credential command waits for it without a limit.
Take(c) ==
  /\ stage[c] = "waiting" /\ lockfile[LockOf(c)] = NoCaller
  /\ lockfile' = [lockfile EXCEPT ![LockOf(c)] = c]
  /\ Goes(c, "recheck")
  /\ UNCHANGED <<world, cli, memory, mode, mine, losses, seen, floor, renewed>>

\* Somebody else holds it, and time passes.
Wait(c) ==
  /\ stage[c] = "waiting" /\ lockfile[LockOf(c)] # NoCaller
  /\ \/ mode[c] = "helper" /\ ~waited[c] /\ waited' = [waited EXCEPT ![c] = TRUE]
        /\ UNCHANGED <<stage, mode, seen>>
     \/ mode[c] # "helper" /\ Fails(c) /\ UNCHANGED waited
  /\ UNCHANGED <<world, cli, lockfile, memory, asked, given, why, losses, floor, renewed>>

\* Mistaken form: the browser is opened without another look.
RecheckNever(c) ==
  /\ stage[c] = "recheck"
  /\ Goes(c, "browsing")
  /\ UNCHANGED <<world, cli, lockfile, memory, mode, mine, losses, seen, floor, renewed>>

\* Another helper may have signed in.  The credential command opens its browser after
\* any failure, unless its wait has used up its time; the others only for a lost login.
Recheck(c) ==
  /\ stage[c] = "recheck"
  /\ Answers(c)
  /\ CASE why'[c] = "ok" ->
            /\ Frees(c)
            /\ IF mode[c] = "helper" THEN Goes(c, "ending") /\ UNCHANGED <<mode, seen>>
               ELSE ReturnsToken(c, given'[c])
       [] why'[c] # "ok" /\ mode[c] = "helper" ->
            /\ UNCHANGED <<mode, seen>>
            /\ \/ Goes(c, "browsing") /\ UNCHANGED lockfile
               \/ waited[c] /\ Goes(c, "ending") /\ Frees(c)
       [] why'[c] = "auth" /\ mode[c] # "helper" ->
            /\ Goes(c, IF mode[c] = "claude" THEN "status" ELSE "browsing")
            /\ UNCHANGED <<lockfile, mode, seen>>
       [] OTHER -> Frees(c) /\ Fails(c)
  /\ UNCHANGED <<world, login, memory, asked, waited, losses, floor, renewed>>

\* `claude auth status` renews a stale login, or fails; then the credential is read
\* again, and a browser opens only for a user.
Status(c) ==
  /\ stage[c] = "status"
  /\ \/ /\ login["claude"] \in {"live", "stale"}
        /\ login' = [login EXCEPT !["claude"] = "live"]
        /\ Frees(c) /\ ReturnsToken(c, 0)
     \/ /\ login["claude"] # "live" /\ Interactive(c)
        /\ Goes(c, "browsing") /\ UNCHANGED <<login, lockfile, mode, seen>>
     \/ Frees(c) /\ Fails(c) /\ UNCHANGED login
  /\ UNCHANGED <<world, newest, memory, mine, losses, floor, renewed>>

\* The user signs in, or does not in time: that ends all but the credential command,
\* which asks the CLI again whatever came of it.
Browse(c) ==
  /\ stage[c] = "browsing"
  /\ \/ /\ Renews(c)
        /\ Goes(c, "confirm")
        /\ renewed' = renewed \cup {mode[c]}
        /\ UNCHANGED <<lockfile, mode, seen>>
     \/ /\ UNCHANGED <<cli, renewed>>
        /\ IF mode[c] = "helper"
           THEN Goes(c, "confirm") /\ UNCHANGED <<lockfile, mode, seen>>
           ELSE Frees(c) /\ Fails(c)
  /\ UNCHANGED <<world, memory, mine, losses, floor>>

\* The last request of the call.
Confirm(c) ==
  /\ stage[c] = "confirm"
  /\ Answers(c)
  /\ Frees(c)
  /\ CASE mode[c] \in {"desktop", "claude"} /\ why'[c] = "ok" -> ReturnsToken(c, given'[c])
       [] mode[c] \in {"desktop", "claude"} /\ why'[c] # "ok" -> Fails(c)
       [] OTHER -> Goes(c, "ending") /\ UNCHANGED <<mode, seen>>
  /\ UNCHANGED <<world, login, memory, asked, waited, losses, floor, renewed>>

\* run_databricks_login: a login that fails may still have cost the one there was.
Sign(c) ==
  /\ stage[c] = "signing"
  /\ \/ Renews(c) /\ why' = [why EXCEPT ![c] = "ok"] /\ UNCHANGED <<losses, renewed>>
     \/ /\ \/ UNCHANGED <<cli, losses, renewed>>
           \/ Ends("databricks") /\ UNCHANGED newest
        /\ why' = [why EXCEPT ![c] = "auth"]
  /\ Goes(c, "clearing")
  /\ UNCHANGED <<world, lockfile, memory, mode, asked, given, waited, seen, floor>>

\* Its finally: clear_databricks_token_cache.
Clear(c) ==
  /\ stage[c] = "clearing"
  /\ epoch' = [epoch EXCEPT ![Home(c)] = @ + 1]
  /\ memo' = [memo EXCEPT ![Home(c)] = NoEntry]
  /\ seen' = [seen EXCEPT ![Home(c)] = newest]
  /\ IF why[c] = "ok"
     THEN Goes(c, "idle") /\ mode' = [mode EXCEPT ![c] = "token"]
     ELSE Goes(c, "failed") /\ UNCHANGED mode
  /\ UNCHANGED <<world, cli, lockfile, inflight, mine, losses, floor, renewed>>

\* A process is killed: its memo is gone, and the kernel frees its lock files.
Kill(p) ==
  LET here == {c \in Callers : Home(c) = p} IN
  /\ \E c \in here : stage[c] \notin Over
  /\ stage' = [c \in Callers |-> IF c \in here /\ stage[c] \notin Over THEN "killed" ELSE stage[c]]
  /\ lockfile' = [l \in Locks |-> IF lockfile[l] \in here THEN NoCaller ELSE lockfile[l]]
  /\ inflight' = [inflight EXCEPT ![p] = NoCaller]
  /\ memo' = [memo EXCEPT ![p] = NoEntry]
  /\ UNCHANGED <<world, cli, epoch, mode, mine, losses, seen, floor, renewed>>

-----------------------------------------------------------------------------
Step(c) ==
  \/ BeginCall(c) \/ Look(c) \/ Dequeue(c) \/ End(c)
  \/ Ask(c) \/ Reauth(c) \/ Take(c) \/ Wait(c) \/ Recheck(c) \/ Status(c)
  \/ Browse(c) \/ Confirm(c) \/ Sign(c) \/ Clear(c)

SignInNext ==
  \/ \E c \in Callers : Step(c)
  \/ \E p \in Processes : Expires(p) \/ Kill(p)
  \/ \E l \in Logins : Loses(l)

\* The CLI is given 15 seconds for a token, 30 for --no-browser and at most 150 or 300
\* for a browser, and locks are handed on.
SignInFairness == \A c \in Callers : WF_signInVars(Step(c))

SignInSpec == SignInInit /\ [][SignInNext]_signInVars /\ SignInFairness

-----------------------------------------------------------------------------
(* Properties. *)

\* Every variable has its type.
SignInTypeOK ==
  /\ world \in Scenarios
  /\ login \in [Logins -> States]
  /\ newest \in 1 .. MaxIssued + 1 /\ losses \in 0 .. MaxLosses
  /\ lockfile \in [Locks -> Callers \cup {NoCaller}]
  /\ memo \in [Processes -> Memos(newest)]
  /\ epoch \in [Processes -> Nat]
  /\ inflight \in [Processes -> Callers \cup {NoCaller}]
  /\ stage \in [Callers -> Stages] /\ mode \in [Callers -> Modes]
  /\ asked \in [Callers -> Nat] /\ given \in [Callers -> 0 .. newest]
  /\ why \in [Callers -> {"ok", "auth", "transient"}]
  /\ waited \in [Callers -> BOOLEAN]
  /\ seen \in [Processes -> 0 .. newest] /\ floor \in [Callers -> 0 .. newest]
  /\ renewed \subseteq {"helper", "desktop", "claude"}

\* A call never gets a token older than one that a call of its process had got, or than
\* the login, when it began: the memo is never behind what its process has seen.  What
\* endangers it are a token asked for before a login and remembered after it, and a
\* forced refresh whose token is not worth remembering (_remember_token).
TokenIsFresh ==
  \A c \in Callers :
    stage[c] = "done" /\ mode[c] \in {"token", "forced", "helper"} => given[c] >= floor[c]

\* A helper opens no browser for a login that another helper of its kind has renewed,
\* however long it waited for the lock (_browser_login, get_claude_desktop_databricks_token,
\* _get_claude_auth_token): excepted is one whose second look the CLI could not answer.
NoSecondBrowser ==
  \A c \in Callers :
    stage[c] = "browsing" /\ why[c] # "transient" => mode[c] \notin renewed

\* Every call ends with a token or an error, whoever holds the locks and whether or not
\* a user is there, or its process is killed.
CallAnswered == \A c \in Callers : stage[c] # "idle" ~> stage[c] \in Over
=============================================================================
