----------------------------- MODULE WebSearch -----------------------------
(***************************************************************************)
(* The threads of the web search server (mcp_web_search.py, serve): one    *)
(* reader of request lines, the executor's workers that run the searches,  *)
(* and finish_request, which each search's future calls back when it is    *)
(* done, in the thread that made it so.                                    *)
(*                                                                         *)
(* Every block under response_lock is one step.  Workers take queued       *)
(* searches in any order, the executor's among them.  An interrupt is      *)
(* modelled where the reader blocks: on its input and in the drain.        *)
(***************************************************************************)
EXTENDS Naturals, FiniteSets

CONSTANTS
  Searches,  \* the tools/call requests of a client, each sent at most once
  Ids,       \* the request ids they use
  Workers,   \* _MAX_CONCURRENT_SEARCHES
  None

ASSUME ConstantsAssumption ==
  /\ None \notin Searches \cup Ids
  /\ Workers \in Nat \ {0}

Places == {"input", "garbage", "other", "cancel", "cancelling", "search",
           "submitted", "drain", "raise", "abort", "ended", "raised"}
\* Before submit, and the states of a concurrent.futures.Future.
Futures == {"NONE", "PENDING", "RUNNING", "FINISHED", "CANCELLED"}
\* finish_request is not registered, registered, called by a worker or by the
\* reader, and over.
Callbacks == {"none", "set", "worker", "reader", "over"}

VARIABLES
  reader,     \* where the reader stands in serve
  current,    \* the search of its line
  pending,    \* pending
  id,         \* the id each search was sent with
  future,     \* the state of each search's future
  callback,   \* its done callback
  failure,    \* output_failure is set
  canceller,  \* the search whose finish_request set it
  toCancel,   \* its to_cancel, what is left of it
  answers     \* how often each search was answered

executor == <<future, callback>>
lost == <<failure, canceller, toCancel>>
vars == <<reader, current, pending, id, executor, lost, answers>>

Init ==
  /\ reader = "input" /\ current = None
  /\ pending = [i \in Ids |-> None]
  /\ id = [s \in Searches |-> None]
  /\ future = [s \in Searches |-> "NONE"]
  /\ callback = [s \in Searches |-> "none"]
  /\ failure = FALSE /\ canceller = None /\ toCancel = {}
  /\ answers = [s \in Searches |-> 0]

Nothing == [i \in Ids |-> None]
Done(s) == future[s] \in {"FINISHED", "CANCELLED"}
Stands(s) == \E i \in Ids : pending[i] = s

\* The reader is not inside a callback that it runs itself.
ReaderFree == \A s \in Searches : callback[s] # "reader"

\* The workers that run a search or its callback.
Busy == {s \in Searches : \/ future[s] = "RUNNING"
                          \/ future[s] = "FINISHED" /\ callback[s] = "worker"}

\* What shutdown(wait=True) waits for.
Quiet == \A s \in Searches :
           future[s] \notin {"PENDING", "RUNNING"} /\ callback[s] # "worker"

\* Future.cancel by the given kind of thread: only a future that no worker has
\* taken, whose callback then runs at once.
CancelFuture(s, thread) ==
  IF future[s] = "PENDING"
  THEN /\ future' = [future EXCEPT ![s] = "CANCELLED"]
       /\ callback' = [callback EXCEPT ![s] = IF @ = "set" THEN thread ELSE @]
  ELSE UNCHANGED executor

-----------------------------------------------------------------------------
(* finish_request. *)

\* Mistaken forms: the answer is written whatever stands under the id; the
\* futures are cancelled, and their callbacks waited for, under the lock.
FinishUnchecked(s) ==
  /\ callback[s] \in {"worker", "reader"} /\ s # canceller
  /\ callback' = [callback EXCEPT ![s] = "over"]
  /\ pending' = [pending EXCEPT ![id[s]] = None]
  /\ answers' = [answers EXCEPT ![s] = @ + 1]
  /\ UNCHANGED <<reader, current, id, future, lost>>

\* The first failed write: nothing stands any more, and the others are left to
\* be cancelled.
Lose(s) ==
  LET others == {t \in Searches \ {s} : ~failure /\ Stands(t)}
  IN  /\ failure' = TRUE
      /\ pending' = Nothing
      /\ toCancel' = others
      /\ canceller' = IF others = {} THEN None ELSE s
      /\ callback' = IF others = {} THEN [callback EXCEPT ![s] = "over"] ELSE callback

\* The block under response_lock: the future of another search, or none, stands
\* under the id; the write succeeds; it fails.
Respond(s) ==
  \/ /\ pending[id[s]] # s
     /\ callback' = [callback EXCEPT ![s] = "over"]
     /\ UNCHANGED <<pending, lost, answers>>
  \/ /\ pending[id[s]] = s
     /\ pending' = [pending EXCEPT ![id[s]] = None]
     /\ callback' = [callback EXCEPT ![s] = "over"]
     /\ answers' = [answers EXCEPT ![s] = @ + 1]
     /\ UNCHANGED lost
  \/ /\ pending[id[s]] = s
     /\ Lose(s)
     /\ UNCHANGED answers

FinishLocked(s) ==
  /\ callback[s] \in {"worker", "reader"} /\ canceller = None
  /\ Respond(s)
  /\ UNCHANGED <<reader, current, id, future>>

Finish(s) ==
  /\ callback[s] \in {"worker", "reader"} /\ s # canceller
  /\ Respond(s)
  /\ UNCHANGED <<reader, current, id, future>>

\* The loop over to_cancel: one cancel, with its callback, after the other.
CancelRest(s) ==
  /\ s = canceller
  /\ \A t \in Searches : future[t] = "CANCELLED" => callback[t] # callback[s]
  /\ \/ \E t \in toCancel :
          /\ toCancel' = toCancel \ {t}
          /\ CancelFuture(t, callback[s])
          /\ UNCHANGED canceller
     \/ /\ toCancel = {}
        /\ callback' = [callback EXCEPT ![s] = "over"]
        /\ canceller' = None
        /\ UNCHANGED <<toCancel, future>>
  /\ UNCHANGED <<reader, current, pending, id, failure, answers>>

-----------------------------------------------------------------------------
(* The executor. *)

Take(s) ==
  /\ future[s] = "PENDING" /\ Cardinality(Busy) < Workers
  /\ future' = [future EXCEPT ![s] = "RUNNING"]
  /\ UNCHANGED <<reader, current, pending, id, callback, lost, answers>>

\* _handle_request returned or raised: a response either way.
SearchReturns(s) ==
  /\ future[s] = "RUNNING"
  /\ future' = [future EXCEPT ![s] = "FINISHED"]
  /\ callback' = [callback EXCEPT ![s] = IF @ = "set" THEN "worker" ELSE @]
  /\ UNCHANGED <<reader, current, pending, id, lost, answers>>

-----------------------------------------------------------------------------
(* The reader. *)

\* The next line that asks for anything: malformed or invalid, a request that
\* the reader answers itself, a cancellation, or a search.
NextLine ==
  /\ reader = "input" /\ ReaderFree
  /\ reader' \in IF failure THEN {"raise"} ELSE
                 {"garbage", "other", "cancel"}
                 \cup {p \in {"search"} : \E s \in Searches : future[s] = "NONE"}
  /\ UNCHANGED <<current, pending, id, executor, lost, answers>>

\* A response the reader writes itself; only the write to a malformed line is
\* tried without a look at output_failure.
Reply ==
  /\ \/ reader = "garbage" /\ reader' \in {"input", "raise"}
     \/ reader = "other" /\ reader' \in IF failure THEN {"raise"} ELSE {"input", "raise"}
  /\ UNCHANGED <<current, pending, id, executor, lost, answers>>

CancelLine ==
  /\ reader = "cancel"
  /\ \E i \in Ids :
       IF pending[i] = None
       THEN reader' = "input" /\ UNCHANGED <<current, pending>>
       ELSE /\ pending' = [pending EXCEPT ![i] = None]
            /\ current' = pending[i]
            /\ reader' = "cancelling"
  /\ UNCHANGED <<id, executor, lost, answers>>

CancelCall ==
  /\ reader = "cancelling"
  /\ CancelFuture(current, "reader")
  /\ reader' = "input" /\ current' = None
  /\ UNCHANGED <<pending, id, lost, answers>>

Submit ==
  /\ reader = "search"
  /\ \/ failure /\ reader' = "raise" /\ UNCHANGED <<current, pending, id, future>>
     \/ /\ ~failure /\ reader' = "submitted"
        /\ \E s \in Searches, i \in Ids :
             /\ future[s] = "NONE"
             /\ future' = [future EXCEPT ![s] = "PENDING"]
             /\ id' = [id EXCEPT ![s] = i]
             /\ pending' = [pending EXCEPT ![i] = s]
             /\ current' = s
  /\ UNCHANGED <<callback, lost, answers>>

\* Mistaken form: a search that is already done is not noticed.
RegisterLate ==
  /\ reader = "submitted"
  /\ callback' = [callback EXCEPT ![current] = "set"]
  /\ reader' = "input" /\ current' = None
  /\ UNCHANGED <<pending, id, future, lost, answers>>

\* add_done_callback: the reader runs it itself for a search already done.
Register ==
  /\ reader = "submitted"
  /\ callback' = [callback EXCEPT ![current] = IF Done(current) THEN "reader" ELSE "set"]
  /\ reader' = "input" /\ current' = None
  /\ UNCHANGED <<pending, id, future, lost, answers>>

EndOfInput ==
  /\ reader = "input" /\ ReaderFree
  /\ reader' = "drain"
  /\ UNCHANGED <<current, pending, id, executor, lost, answers>>

\* The input fails, or the process is interrupted.
Interrupted ==
  /\ reader \in {"input", "drain"} /\ ReaderFree
  /\ reader' = "raise"
  /\ UNCHANGED <<current, pending, id, executor, lost, answers>>

Drained ==
  /\ reader = "drain" /\ Quiet
  /\ reader' = IF failure THEN "raise" ELSE "ended"
  /\ UNCHANGED <<current, pending, id, executor, lost, answers>>

Raise ==
  /\ reader = "raise"
  /\ pending' = Nothing
  /\ reader' = "abort"
  /\ UNCHANGED <<current, id, executor, lost, answers>>

\* shutdown(cancel_futures=True), then the wait for the searches that run.
Abort ==
  /\ reader = "abort" /\ ReaderFree
  /\ \/ /\ \E s \in Searches : future[s] = "PENDING" /\ CancelFuture(s, "reader")
        /\ UNCHANGED reader
     \/ Quiet /\ reader' = "raised" /\ UNCHANGED executor
  /\ UNCHANGED <<current, pending, id, lost, answers>>

-----------------------------------------------------------------------------
SearchStep(s) == Finish(s) \/ CancelRest(s) \/ Take(s) \/ SearchReturns(s)

ReaderStep ==
  Reply \/ CancelLine \/ CancelCall \/ Submit \/ Register \/ Drained \/ Raise \/ Abort

Terminated == reader \in {"ended", "raised"} /\ UNCHANGED vars

Next ==
  \/ \E s \in Searches : SearchStep(s)
  \/ ReaderStep \/ NextLine \/ EndOfInput \/ Interrupted \/ Terminated

Spec == Init /\ [][Next]_vars

\* Threads run, searches return (the HTTP call has a timeout) and the client
\* reads what is written; what the client sends is up to it.
Fairness == WF_vars(ReaderStep) /\ \A s \in Searches : WF_vars(SearchStep(s))

FairSpec == Spec /\ Fairness

-----------------------------------------------------------------------------
(* Properties. *)

TypeOK ==
  /\ reader \in Places
  /\ current \in Searches \cup {None}
  /\ current \in Searches <=> reader \in {"cancelling", "submitted"}
  /\ pending \in [Ids -> Searches \cup {None}]
  /\ id \in [Searches -> Ids \cup {None}]
  /\ future \in [Searches -> Futures]
  /\ callback \in [Searches -> Callbacks]
  /\ failure \in BOOLEAN
  /\ canceller \in Searches \cup {None}
  /\ toCancel \subseteq Searches
  /\ answers \in [Searches -> 0..1]

Asked == {s \in Searches : future[s] # "NONE"}

GivenUp == failure \/ reader = "abort"

Ended == CASE reader = "ended" -> "well"
           [] reader = "raised" -> "failed"
           [] reader \notin {"ended", "raised"} -> IF GivenUp THEN "lost" ELSE "no"

Answers == INSTANCE SearchAnswers WITH
  asked <- Asked, standing <- pending, ended <- Ended

\* The threads keep what SearchAnswers promises: only a search that stands is
\* answered, once, and the server ends well only when none is left.
Implements == Answers!Spec

\* Every accepted search is answered, cancelled, replaced or given up: also one
\* that is done before its callback is registered.
SearchSettled == \A s \in Searches : Stands(s) ~> ~Stands(s)

\* After the end of its input, or an error, the server ends: no callback waits
\* for the lock of the thread that waits for it.
ServeEnds == reader \in {"drain", "raise"} ~> reader \in {"ended", "raised"}
============================================================================
