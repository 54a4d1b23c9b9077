----------------------------- MODULE TokenCache -----------------------------
(***************************************************************************)
(* The token cache that the request threads of one gateway proxy share     *)
(* (src/src/ucode/gateway_proxy.py, TokenCache), with the one caller that  *)
(* refreshes it by force: a request the gateway refused (_handle).         *)
(*                                                                         *)
(* Tokens are numbered in the order in which they were issued, to this     *)
(* proxy or to any other process that shares the Databricks login.         *)
(* token_provider is external: without force it may return a token that    *)
(* this process or the CLI has cached, with force it always obtains a new  *)
(* one, and it may fail.  The expiry the cache stores is that of its       *)
(* token, due once that is no more than _REFRESH_BUFFER_S away.            *)
(*                                                                         *)
(* _state_lock only makes its blocks atomic; _refresh_lock is a variable.  *)
(***************************************************************************)
EXTENDS Naturals

CONSTANTS
  Handlers,   \* request threads
  Refresher,  \* the background thread
  Nobody,
  MaxTokens   \* bound on the tokens ever issued; then the login is dead

ASSUME ConstantsAssumption ==
  /\ Refresher \notin Handlers
  /\ Nobody \notin Handlers \cup {Refresher}
  /\ MaxTokens \in Nat \ {0}

Threads == Handlers \cup {Refresher}
Tokens == 1..MaxTokens
NoToken == 0
MaybeToken == Tokens \cup {NoToken}

\* lookup and record are _ensure_fresh's _refresh call, mint and replace are
\* refresh's: while the provider runs, and once it has returned.
Locked == {"lookup", "record", "mint", "replace"}
Labels == {"idle", "check", "wait", "read", "send", "refused", "stopped"}
          \cup Locked

VARIABLES
  force,       \* _force_refresh_near_expiry, set once
  answers,     \* TRUE: the handler answers a failed forced refresh itself
  token,       \* _token
  generation,  \* _generation
  lock,        \* holder of _refresh_lock
  pc,          \* where each thread stands
  retry,       \* TRUE: the thread's request was refused and is sent again
  tok,         \* the token it sends
  gen,         \* the generation it read with that token
  got,         \* what the provider returned to it
  latest,      \* the token issued last
  due,         \* the tokens that are near their expiry, or past it
  bad,         \* history: the token of the attempt that was refused
  failed,      \* history: the thread's own forced refresh failed
  spurned      \* history: the token of this generation was refused

cache == <<token, generation>>
config == <<force, answers>>
provider == <<latest, due>>
history == <<bad, failed, spurned>>
vars == <<config, cache, provider, history, lock, pc, retry, tok, gen, got>>

-----------------------------------------------------------------------------
\* __init__ has run: one token was obtained, and no thread runs yet.
Init ==
  /\ force \in BOOLEAN /\ answers \in BOOLEAN
  /\ answers => force
  /\ token = 1 /\ generation = 1
  /\ latest = 1
  /\ due \in {{}, {1}} /\ (force => due = {})
  /\ lock = Nobody
  /\ pc = [th \in Threads |-> "idle"]
  /\ retry = [th \in Threads |-> FALSE]
  /\ tok = [th \in Threads |-> NoToken]
  /\ gen = [th \in Threads |-> 0]
  /\ got = [th \in Threads |-> NoToken]
  /\ bad = [th \in Threads |-> NoToken]
  /\ failed = [th \in Threads |-> FALSE]
  /\ spurned = FALSE

FreshEnough == token \notin due

Goto(th, label) == pc' = [pc EXCEPT ![th] = label]

\* The thread answered its request, or the refresher sleeps again.
Rest(th) ==
  /\ Goto(th, "idle")
  /\ retry' = [retry EXCEPT ![th] = FALSE]
  /\ tok' = [tok EXCEPT ![th] = NoToken]
  /\ gen' = [gen EXCEPT ![th] = 0]
  /\ bad' = [bad EXCEPT ![th] = NoToken]
  /\ failed' = [failed EXCEPT ![th] = FALSE]

\* _ensure_fresh returned: a handler reads the token, the refresher sleeps.
Ensured(th) ==
  /\ Goto(th, IF th = Refresher THEN "idle" ELSE "read")
  /\ UNCHANGED <<retry, tok, gen, bad, failed>>

-----------------------------------------------------------------------------
(* _ensure_fresh, for a request or a turn of run_refresher. *)

\* A request arrives, or the refresher's poll interval is over.
Begin(th) ==
  /\ pc[th] = "idle"
  /\ Goto(th, "check")
  /\ UNCHANGED <<config, cache, provider, history, lock, retry, tok, gen, got>>

Stop ==
  /\ pc[Refresher] = "idle"
  /\ Goto(Refresher, "stopped")
  /\ UNCHANGED <<config, cache, provider, history, lock, retry, tok, gen, got>>

Check(th) ==
  /\ pc[th] = "check"
  /\ \/ FreshEnough /\ Ensured(th)
     \/ ~FreshEnough /\ Goto(th, "wait") /\ UNCHANGED <<retry, tok, gen, bad, failed>>
  /\ UNCHANGED <<config, cache, provider, spurned, lock, got>>

\* Mistaken form: no second look once the lock is held.
EnterUnchecked(th) ==
  /\ pc[th] = "wait" /\ lock = Nobody
  /\ lock' = th
  /\ Goto(th, "lookup")
  /\ UNCHANGED <<config, cache, provider, history, retry, tok, gen, got>>

\* The refresh lock is taken and the expiry looked at again.
Enter(th) ==
  /\ pc[th] = "wait" /\ lock = Nobody
  /\ \/ FreshEnough /\ Ensured(th) /\ UNCHANGED lock
     \/ /\ ~FreshEnough
        /\ lock' = th
        /\ Goto(th, "lookup")
        /\ UNCHANGED <<retry, tok, gen, bad, failed>>
  /\ UNCHANGED <<config, cache, provider, spurned, got>>

-----------------------------------------------------------------------------
(* refresh, after a refusal. *)

\* Under the refresh lock: nothing to do if the generation has changed since.
Refresh(th) ==
  /\ pc[th] = "refused" /\ lock = Nobody
  /\ \/ gen[th] # generation /\ Goto(th, "check") /\ UNCHANGED lock
     \/ gen[th] = generation /\ Goto(th, "mint") /\ lock' = th
  /\ UNCHANGED <<config, cache, provider, history, retry, tok, gen, got>>

-----------------------------------------------------------------------------
(* The provider, and what _refresh does with its answer. *)

Forced(th) == force \/ pc[th] \in {"mint", "replace"}

\* The CLI issues a token that no one had.
Issue == latest < MaxTokens /\ latest' = latest + 1

\* Without force: the token that this process or the CLI has cached, or a new
\* one if that is too old for the CLI.
Returns(th, t) ==
  \/ ~Forced(th) /\ t \in {token, latest} /\ UNCHANGED latest
  \/ (Forced(th) \/ latest \in due) /\ Issue /\ t = latest'

Fetch(th) ==
  /\ pc[th] \in {"lookup", "mint"}
  /\ \E t \in Tokens : Returns(th, t) /\ got' = [got EXCEPT ![th] = t]
  /\ Goto(th, IF pc[th] = "lookup" THEN "record" ELSE "replace")
  /\ UNCHANGED <<config, cache, due, history, lock, retry, tok, gen>>

\* RuntimeError.  _ensure_fresh keeps the token; a failed forced refresh is
\* answered by the handler, or the request sent again with the token there is.
FetchFails(th) ==
  /\ lock' = Nobody
  /\ \/ pc[th] = "lookup" /\ Ensured(th)
     \/ pc[th] = "mint" /\ answers /\ Rest(th)
     \/ /\ pc[th] = "mint" /\ ~answers
        /\ Goto(th, "check")
        /\ failed' = [failed EXCEPT ![th] = TRUE]
        /\ UNCHANGED <<retry, tok, gen, bad>>
  /\ UNCHANGED <<config, cache, provider, spurned, got>>

\* Mistaken form: every refresh counts as a new generation.
StoreNewGeneration(th) ==
  /\ pc[th] \in {"record", "replace"}
  /\ token' = got[th]
  /\ generation' = generation + 1
  /\ spurned' = (spurned /\ generation' = generation)
  /\ got' = [got EXCEPT ![th] = NoToken]
  /\ lock' = Nobody
  /\ IF pc[th] = "record" THEN Ensured(th)
     ELSE Goto(th, "check") /\ UNCHANGED <<retry, tok, gen, bad, failed>>
  /\ UNCHANGED <<config, provider>>

\* The token and its generation change together, and the lock is released.
Store(th) ==
  /\ pc[th] \in {"record", "replace"}
  /\ token' = got[th]
  /\ generation' = IF Forced(th) \/ got[th] # token THEN generation + 1
                   ELSE generation
  /\ spurned' = (spurned /\ generation' = generation)
  /\ got' = [got EXCEPT ![th] = NoToken]
  /\ lock' = Nobody
  /\ IF pc[th] = "record" THEN Ensured(th)
     ELSE Goto(th, "check") /\ UNCHANGED <<retry, tok, gen, bad, failed>>
  /\ UNCHANGED <<config, provider>>

-----------------------------------------------------------------------------
(* _handle. *)

\* token_snapshot reads both under the state lock.
Read(th) ==
  /\ pc[th] = "read"
  /\ tok' = [tok EXCEPT ![th] = token]
  /\ gen' = [gen EXCEPT ![th] = generation]
  /\ Goto(th, "send")
  /\ UNCHANGED <<config, cache, provider, history, lock, retry, got>>

\* Mistaken form: a second refusal is retried like the first.
RefusedForever(th) ==
  /\ pc[th] = "send"
  /\ Goto(th, "refused")
  /\ retry' = [retry EXCEPT ![th] = TRUE]
  /\ bad' = [bad EXCEPT ![th] = tok[th]]
  /\ spurned' = (spurned \/ gen[th] = generation)
  /\ UNCHANGED <<config, cache, provider, lock, failed, tok, gen, got>>

\* 401 or 403: for the token, or for a credential that the proxy passes on.
Refused(th) ==
  /\ pc[th] = "send" /\ ~retry[th]
  /\ Goto(th, "refused")
  /\ retry' = [retry EXCEPT ![th] = TRUE]
  /\ bad' = [bad EXCEPT ![th] = tok[th]]
  /\ spurned' = (spurned \/ gen[th] = generation)
  /\ UNCHANGED <<config, cache, provider, lock, failed, tok, gen, got>>

\* Any other answer, any answer to the second attempt, an upstream failure
\* (502), or a client that is gone.
Answered(th) ==
  /\ pc[th] = "send"
  /\ Rest(th)
  /\ UNCHANGED <<config, cache, provider, spurned, lock, got>>

-----------------------------------------------------------------------------
(* The environment. *)

\* Another process that shares the login refreshes it.
OtherIssue ==
  /\ Issue
  /\ UNCHANGED <<config, cache, due, history, lock, pc, retry, tok, gen, got>>

TimePasses ==
  \E t \in (token..latest) \ due :
    /\ due' = due \cup {t}
    /\ UNCHANGED <<config, cache, latest, history, lock, pc, retry, tok, gen, got>>

-----------------------------------------------------------------------------
Waits(th) == Enter(th) \/ Refresh(th)

Runs(th) ==
  \/ Check(th) \/ Fetch(th) \/ FetchFails(th) \/ Store(th) \/ Read(th)
  \/ Refused(th) \/ Answered(th)

Next ==
  \/ \E th \in Threads : Begin(th) \/ Waits(th) \/ Runs(th)
  \/ Stop \/ OtherIssue \/ TimePasses

Spec == Init /\ [][Next]_vars

\* Threads run; the provider and the gateway answer within their timeouts; the
\* refresh lock is free again and again, and a thread that waits then gets it.
Fairness == \A th \in Threads : WF_vars(Runs(th)) /\ SF_vars(Waits(th))

FairSpec == Spec /\ Fairness

-----------------------------------------------------------------------------
(* Properties. *)

TypeOK ==
  /\ {force, answers} \subseteq BOOLEAN
  /\ token \in Tokens /\ latest \in Tokens
  /\ generation \in 1..MaxTokens
  /\ lock \in Threads \cup {Nobody}
  /\ pc \in [Threads -> Labels]
  /\ retry \in [Threads -> BOOLEAN]
  /\ failed \in [Threads -> BOOLEAN]
  /\ tok \in [Threads -> MaybeToken]
  /\ got \in [Threads -> MaybeToken]
  /\ bad \in [Threads -> MaybeToken]
  /\ gen \in [Threads -> 0..MaxTokens]
  /\ due \subseteq Tokens
  /\ spurned \in BOOLEAN

\* A generation stands for one token: two requests that read the same one, at
\* any time, sent the same token, so that a refusal speaks for both.
GenerationNamesToken ==
  \A h \in Handlers : gen[h] # 0 =>
    /\ gen[h] = generation => tok[h] = token
    /\ \A i \in Handlers : gen[i] = gen[h] => tok[i] = tok[h]

\* A request that was refused is never sent again with the refused token, unless
\* its own refresh failed: whoever refreshed in the meantime, and however.
RetryUsesAnotherToken ==
  \A h \in Handlers :
    pc[h] = "send" /\ retry[h] /\ ~failed[h] => tok[h] # bad[h]

\* No burst of requests replaces a token that is fresh and that the gateway never
\* refused: the refreshes of the threads that waited for another's are saved.
NoNeedlessRefresh ==
  [][generation' # generation => ~FreshEnough \/ spurned]_vars

\* Every request is answered.
RequestAnswered == \A h \in Handlers : pc[h] = "check" ~> pc[h] = "idle"
=============================================================================
