--------------------------- MODULE SessionProofs ---------------------------
(***************************************************************************)
(* What runs beside a session of Claude: the web search server, and the    *)
(* wrapper that routes the first prompt.                                   *)
(*                                                                         *)
(* WebSearch keeps its types and implements SearchAnswers, for any         *)
(* searches, ids and number of workers.                                    *)
(*                                                                         *)
(* ModelSwitch keeps its types, the user's default model, and the first    *)
(* prompt's single run, for any wrappers, models and prompts.  The first   *)
(* rests on who holds a snapshot: at most one wrapper, under the lock or   *)
(* on the way to its second attempt (GuardInv, OwnInv).  The other rests   *)
(* on the place where a prompt is: before a claim in the box, with the     *)
(* hook or at the router, and run in none of them (FreshInv), after it     *)
(* where the phase of the loop says (ReplayInv).                           *)
(***************************************************************************)
EXTENDS WebSearch, ModelSwitch, TLAPS

-----------------------------------------------------------------------------
(* The web search server. *)


\* A search that was not sent has no trace, one that was has an id.
UnsentIsNew ==
  \A s \in Searches : IF future[s] # "NONE" THEN id[s] \in Ids ELSE
    /\ id[s] = None /\ callback[s] = "none" /\ answers[s] = 0
    /\ ~Stands(s) /\ s \notin toCancel /\ s # canceller

\* What stands under an id was sent with it and has not been answered, nor is its
\* callback over or its future cancelled.
StandingIsOpen ==
  \A i \in Ids, s \in Searches : pending[i] = s =>
    /\ id[s] = i /\ answers[s] = 0
    /\ future[s] # "CANCELLED" /\ callback[s] # "over"
    /\ s # canceller

\* Nothing stands once the output is given up, which to_cancel is a sign of; nor
\* does the search that the reader is about to cancel.
GivenUpIsEmpty ==
  /\ toCancel # {} => canceller \in Searches
  /\ canceller \in Searches => failure
  /\ reader = "cancelling" => ~Stands(current)
  /\ failure \/ reader \in {"abort", "ended", "raised"} =>
       \A i \in Ids : pending[i] = None
  /\ reader = "ended" => ~failure

\* A done search has been called back, or its callback is about to be registered.
DoneIsCalled ==
  \A s \in Searches :
    /\ Done(s) => callback[s] # "set"
    /\ callback[s] = "none" /\ future[s] # "NONE" => reader = "submitted" /\ current = s
    /\ callback[s] # "none" => future[s] # "NONE"

\* The reader runs callbacks only where it waits for their end, and the one that
\* cancels the others is in its callback.
CallbacksNest ==
  /\ ReaderFree \/ reader \in {"input", "abort"}
  /\ canceller \in Searches => callback[canceller] \in {"worker", "reader"}
  /\ reader = "submitted" => callback[current] = "none" /\ future[current] # "NONE"

IInv ==
  /\ TypeOK /\ UnsentIsNew /\ StandingIsOpen /\ GivenUpIsEmpty
  /\ DoneIsCalled /\ CallbacksNest

LEMMA FinishKeeps ==
  ASSUME IInv, NEW s \in Searches, Finish(s)
  PROVE  IInv'
<1>0. pending[id[s]] = s => answers[s] = 0
  BY DEF IInv, TypeOK, UnsentIsNew, StandingIsOpen, DoneIsCalled, Finish
<1>1. TypeOK'
  <2>1. CASE answers' = answers
    BY <2>1 DEF IInv, TypeOK, Callbacks, lost, Finish, Respond, Lose, Nothing
  <2>2. CASE pending[id[s]] = s /\ answers' = [answers EXCEPT ![s] = @ + 1]
    <3>1. answers' \in [Searches -> 0..1]
      BY <1>0, <2>2, SMT DEF IInv, TypeOK
    <3>2. callback' \in [Searches -> Callbacks] /\ pending' \in [Ids -> Searches
       \cup {None}]
      BY DEF IInv, TypeOK, Callbacks, Finish, Respond, Lose, Nothing
    <3>3. canceller' \in Searches \cup {None} /\ toCancel' \subseteq Searches /\
       failure' \in BOOLEAN
      BY DEF IInv, TypeOK, lost, Finish, Respond, Lose
    <3> QED BY <3>1, <3>2, <3>3 DEF IInv, TypeOK, Finish
  <2> QED BY <2>1, <2>2 DEF Finish, Respond
<1>2. UnsentIsNew'
  BY ConstantsAssumption DEF IInv, TypeOK, UnsentIsNew, Stands, lost, Finish,
     Respond, Lose, Nothing
<1>3. StandingIsOpen'
  BY ConstantsAssumption DEF IInv, TypeOK, StandingIsOpen, lost, Finish, Respond,
     Lose, Nothing
<1>4. GivenUpIsEmpty'
  BY ConstantsAssumption DEF IInv, TypeOK, UnsentIsNew, GivenUpIsEmpty, Stands,
     lost, Finish, Respond, Lose, Nothing
<1>5. DoneIsCalled'
  BY ConstantsAssumption DEF IInv, TypeOK, DoneIsCalled, Done, Finish, Respond, Lose
<1>6. CallbacksNest'
  BY ConstantsAssumption DEF IInv, TypeOK, CallbacksNest, ReaderFree, lost, Finish,
     Respond, Lose
<1> QED BY <1>1, <1>2, <1>3, <1>4, <1>5, <1>6 DEF IInv

LEMMA CancelRestKeeps ==
  ASSUME IInv, NEW s \in Searches, CancelRest(s)
  PROVE  IInv'
<1>1. TypeOK'
  BY ConstantsAssumption DEF IInv, TypeOK, Futures, Callbacks, executor,
     CancelRest, CancelFuture
<1>2. UnsentIsNew'
  BY ConstantsAssumption DEF IInv, TypeOK, UnsentIsNew, Stands, executor,
     CancelRest, CancelFuture
<1>3. StandingIsOpen'
  BY ConstantsAssumption DEF IInv, StandingIsOpen, GivenUpIsEmpty, CancelRest
<1>4. GivenUpIsEmpty'
  BY ConstantsAssumption DEF IInv, GivenUpIsEmpty, Stands, CancelRest
<1>5. DoneIsCalled'
  BY ConstantsAssumption DEF IInv, TypeOK, DoneIsCalled, CallbacksNest, Done,
     executor, CancelRest, CancelFuture
<1>6. CallbacksNest'
  BY ConstantsAssumption DEF IInv, TypeOK, CallbacksNest, ReaderFree, executor,
     CancelRest, CancelFuture
<1> QED BY <1>1, <1>2, <1>3, <1>4, <1>5, <1>6 DEF IInv

LEMMA TakeKeeps ==
  ASSUME IInv, NEW s \in Searches, Take(s)
  PROVE  IInv'
<1>1. TypeOK'
  BY ConstantsAssumption DEF IInv, TypeOK, Futures, lost, Take
<1>2. UnsentIsNew'
  BY ConstantsAssumption DEF IInv, UnsentIsNew, Stands, lost, Take
<1>3. StandingIsOpen'
  BY ConstantsAssumption DEF IInv, StandingIsOpen, lost, Take
<1>4. GivenUpIsEmpty'
  BY ConstantsAssumption DEF IInv, GivenUpIsEmpty, Stands, lost, Take
<1>5. DoneIsCalled'
  BY ConstantsAssumption DEF IInv, DoneIsCalled, Done, Take
<1>6. CallbacksNest'
  BY ConstantsAssumption DEF IInv, CallbacksNest, ReaderFree, lost, Take
<1> QED BY <1>1, <1>2, <1>3, <1>4, <1>5, <1>6 DEF IInv

LEMMA SearchReturnsKeeps ==
  ASSUME IInv, NEW s \in Searches, SearchReturns(s)
  PROVE  IInv'
<1>1. TypeOK'
  BY ConstantsAssumption DEF IInv, TypeOK, Futures, Callbacks, lost, SearchReturns
<1>2. UnsentIsNew'
  BY ConstantsAssumption DEF IInv, UnsentIsNew, Stands, lost, SearchReturns
<1>3. StandingIsOpen'
  BY ConstantsAssumption DEF IInv, StandingIsOpen, lost, SearchReturns
<1>4. GivenUpIsEmpty'
  BY ConstantsAssumption DEF IInv, GivenUpIsEmpty, Stands, lost, SearchReturns
<1>5. DoneIsCalled'
  BY ConstantsAssumption DEF IInv, TypeOK, DoneIsCalled, Done, SearchReturns
<1>6. CallbacksNest'
  BY ConstantsAssumption DEF IInv, CallbacksNest, ReaderFree, lost, SearchReturns
<1> QED BY <1>1, <1>2, <1>3, <1>4, <1>5, <1>6 DEF IInv

LEMMA NextLineKeeps ==
  ASSUME IInv, NextLine
  PROVE  IInv'
<1>1. TypeOK'
  BY ConstantsAssumption DEF IInv, TypeOK, Places, executor, lost, NextLine
<1>2. UnsentIsNew'
  BY ConstantsAssumption DEF IInv, UnsentIsNew, Stands, executor, lost, NextLine
<1>3. StandingIsOpen'
  BY ConstantsAssumption DEF IInv, StandingIsOpen, executor, lost, NextLine
<1>4. GivenUpIsEmpty'
  BY ConstantsAssumption DEF IInv, GivenUpIsEmpty, lost, NextLine
<1>5. DoneIsCalled'
  BY ConstantsAssumption DEF IInv, DoneIsCalled, Done, executor, NextLine
<1>6. CallbacksNest'
  BY ConstantsAssumption DEF IInv, CallbacksNest, ReaderFree, executor, lost, NextLine
<1> QED BY <1>1, <1>2, <1>3, <1>4, <1>5, <1>6 DEF IInv

LEMMA ReplyKeeps ==
  ASSUME IInv, Reply
  PROVE  IInv'
<1>1. TypeOK'
  BY ConstantsAssumption DEF IInv, TypeOK, Places, executor, lost, Reply
<1>2. UnsentIsNew'
  BY ConstantsAssumption DEF IInv, UnsentIsNew, Stands, executor, lost, Reply
<1>3. StandingIsOpen'
  BY ConstantsAssumption DEF IInv, StandingIsOpen, executor, lost, Reply
<1>4. GivenUpIsEmpty'
  BY ConstantsAssumption DEF IInv, GivenUpIsEmpty, lost, Reply
<1>5. DoneIsCalled'
  BY ConstantsAssumption DEF IInv, DoneIsCalled, Done, executor, Reply
<1>6. CallbacksNest'
  BY ConstantsAssumption DEF IInv, CallbacksNest, ReaderFree, executor, lost, Reply
<1> QED BY <1>1, <1>2, <1>3, <1>4, <1>5, <1>6 DEF IInv

LEMMA CancelLineKeeps ==
  ASSUME IInv, CancelLine
  PROVE  IInv'
<1>1. TypeOK'
  BY ConstantsAssumption DEF IInv, TypeOK, Places, executor, lost, CancelLine
<1>2. UnsentIsNew'
  BY ConstantsAssumption DEF IInv, TypeOK, UnsentIsNew, Stands, executor, lost,
     CancelLine
<1>3. StandingIsOpen'
  BY ConstantsAssumption DEF IInv, TypeOK, StandingIsOpen, executor, lost, CancelLine
<1>4. GivenUpIsEmpty'
  BY ConstantsAssumption DEF IInv, TypeOK, StandingIsOpen, GivenUpIsEmpty, Stands,
     lost, CancelLine
<1>5. DoneIsCalled'
  BY ConstantsAssumption DEF IInv, DoneIsCalled, Done, executor, CancelLine
<1>6. CallbacksNest'
  BY ConstantsAssumption DEF IInv, CallbacksNest, ReaderFree, executor, lost, CancelLine
<1> QED BY <1>1, <1>2, <1>3, <1>4, <1>5, <1>6 DEF IInv

LEMMA CancelCallKeeps ==
  ASSUME IInv, CancelCall
  PROVE  IInv'
<1>1. TypeOK'
  BY ConstantsAssumption DEF IInv, TypeOK, Places, Futures, Callbacks, executor,
     lost, CancelCall, CancelFuture
<1>2. UnsentIsNew'
  BY ConstantsAssumption DEF IInv, TypeOK, UnsentIsNew, Stands, executor, lost,
     CancelCall, CancelFuture
<1>3. StandingIsOpen'
  BY ConstantsAssumption DEF IInv, TypeOK, StandingIsOpen, GivenUpIsEmpty, Stands,
     executor, lost, CancelCall, CancelFuture
<1>4. GivenUpIsEmpty'
  BY ConstantsAssumption DEF IInv, GivenUpIsEmpty, lost, CancelCall
<1>5. DoneIsCalled'
  BY ConstantsAssumption DEF IInv, TypeOK, DoneIsCalled, Done, executor,
     CancelCall, CancelFuture
<1>6. CallbacksNest'
  BY ConstantsAssumption DEF IInv, TypeOK, CallbacksNest, executor, lost,
     CancelCall, CancelFuture
<1> QED BY <1>1, <1>2, <1>3, <1>4, <1>5, <1>6 DEF IInv

LEMMA SubmitKeeps ==
  ASSUME IInv, Submit
  PROVE  IInv'
<1>1. TypeOK'
  BY ConstantsAssumption DEF IInv, TypeOK, Places, Futures, lost, Submit
<1>2. UnsentIsNew'
  BY ConstantsAssumption DEF IInv, TypeOK, UnsentIsNew, Stands, lost, Submit
<1>3. StandingIsOpen'
  BY ConstantsAssumption DEF IInv, TypeOK, UnsentIsNew, StandingIsOpen, lost, Submit
<1>4. GivenUpIsEmpty'
  BY ConstantsAssumption DEF IInv, GivenUpIsEmpty, lost, Submit
<1>5. DoneIsCalled'
  BY ConstantsAssumption DEF IInv, TypeOK, DoneIsCalled, Done, Submit
<1>6. CallbacksNest'
  BY ConstantsAssumption DEF IInv, TypeOK, DoneIsCalled, CallbacksNest, ReaderFree,
     lost, Submit
<1> QED BY <1>1, <1>2, <1>3, <1>4, <1>5, <1>6 DEF IInv

LEMMA RegisterKeeps ==
  ASSUME IInv, Register
  PROVE  IInv'
<1>1. TypeOK'
  BY ConstantsAssumption DEF IInv, TypeOK, Places, Callbacks, lost, Register
<1>2. UnsentIsNew'
  BY ConstantsAssumption DEF IInv, UnsentIsNew, CallbacksNest, Stands, lost, Register
<1>3. StandingIsOpen'
  BY ConstantsAssumption DEF IInv, StandingIsOpen, lost, Register
<1>4. GivenUpIsEmpty'
  BY ConstantsAssumption DEF IInv, GivenUpIsEmpty, lost, Register
<1>5. DoneIsCalled'
  BY ConstantsAssumption DEF IInv, TypeOK, DoneIsCalled, CallbacksNest, Done, Register
<1>6. CallbacksNest'
  BY ConstantsAssumption DEF IInv, CallbacksNest, lost, Register
<1> QED BY <1>1, <1>2, <1>3, <1>4, <1>5, <1>6 DEF IInv

LEMMA EndOfInputKeeps ==
  ASSUME IInv, EndOfInput
  PROVE  IInv'
<1>1. TypeOK'
  BY ConstantsAssumption DEF IInv, TypeOK, Places, executor, lost, EndOfInput
<1>2. UnsentIsNew'
  BY ConstantsAssumption DEF IInv, UnsentIsNew, Stands, executor, lost, EndOfInput
<1>3. StandingIsOpen'
  BY ConstantsAssumption DEF IInv, StandingIsOpen, executor, lost, EndOfInput
<1>4. GivenUpIsEmpty'
  BY ConstantsAssumption DEF IInv, GivenUpIsEmpty, lost, EndOfInput
<1>5. DoneIsCalled'
  BY ConstantsAssumption DEF IInv, DoneIsCalled, Done, executor, EndOfInput
<1>6. CallbacksNest'
  BY ConstantsAssumption DEF IInv, CallbacksNest, ReaderFree, executor, lost, EndOfInput
<1> QED BY <1>1, <1>2, <1>3, <1>4, <1>5, <1>6 DEF IInv

LEMMA InterruptedKeeps ==
  ASSUME IInv, Interrupted
  PROVE  IInv'
<1>1. TypeOK'
  BY ConstantsAssumption DEF IInv, TypeOK, Places, executor, lost, Interrupted
<1>2. UnsentIsNew'
  BY ConstantsAssumption DEF IInv, UnsentIsNew, Stands, executor, lost, Interrupted
<1>3. StandingIsOpen'
  BY ConstantsAssumption DEF IInv, StandingIsOpen, executor, lost, Interrupted
<1>4. GivenUpIsEmpty'
  BY ConstantsAssumption DEF IInv, GivenUpIsEmpty, lost, Interrupted
<1>5. DoneIsCalled'
  BY ConstantsAssumption DEF IInv, DoneIsCalled, Done, executor, Interrupted
<1>6. CallbacksNest'
  BY ConstantsAssumption DEF IInv, CallbacksNest, ReaderFree, executor, lost,
     Interrupted
<1> QED BY <1>1, <1>2, <1>3, <1>4, <1>5, <1>6 DEF IInv

LEMMA DrainedKeeps ==
  ASSUME IInv, Drained
  PROVE  IInv'
<1>1. TypeOK'
  BY ConstantsAssumption DEF IInv, TypeOK, Places, executor, lost, Drained
<1>2. UnsentIsNew'
  BY ConstantsAssumption DEF IInv, UnsentIsNew, Stands, executor, lost, Drained
<1>3. StandingIsOpen'
  BY ConstantsAssumption DEF IInv, StandingIsOpen, executor, lost, Drained
<1>4. GivenUpIsEmpty'
  BY ConstantsAssumption DEF IInv, TypeOK, UnsentIsNew, StandingIsOpen,
     GivenUpIsEmpty, DoneIsCalled, CallbacksNest, Futures, Callbacks, Done,
     ReaderFree, lost, Drained, Quiet
<1>5. DoneIsCalled'
  BY ConstantsAssumption DEF IInv, DoneIsCalled, Done, executor, Drained
<1>6. CallbacksNest'
  BY ConstantsAssumption DEF IInv, CallbacksNest, ReaderFree, executor, lost, Drained
<1> QED BY <1>1, <1>2, <1>3, <1>4, <1>5, <1>6 DEF IInv

LEMMA RaiseKeeps ==
  ASSUME IInv, Raise
  PROVE  IInv'
<1>1. TypeOK'
  BY ConstantsAssumption DEF IInv, TypeOK, Places, executor, lost, Raise, Nothing
<1>2. UnsentIsNew'
  BY ConstantsAssumption DEF IInv, UnsentIsNew, Stands, executor, lost, Raise, Nothing
<1>3. StandingIsOpen'
  BY ConstantsAssumption DEF StandingIsOpen, Raise, Nothing
<1>4. GivenUpIsEmpty'
  BY ConstantsAssumption DEF IInv, GivenUpIsEmpty, lost, Raise, Nothing
<1>5. DoneIsCalled'
  BY ConstantsAssumption DEF IInv, DoneIsCalled, Done, executor, Raise
<1>6. CallbacksNest'
  BY ConstantsAssumption DEF IInv, CallbacksNest, executor, lost, Raise
<1> QED BY <1>1, <1>2, <1>3, <1>4, <1>5, <1>6 DEF IInv

LEMMA AbortKeeps ==
  ASSUME IInv, Abort
  PROVE  IInv'
<1>1. TypeOK'
  BY ConstantsAssumption DEF IInv, TypeOK, Places, Futures, Callbacks, executor,
     lost, Abort, CancelFuture
<1>2. UnsentIsNew'
  BY ConstantsAssumption DEF IInv, TypeOK, UnsentIsNew, Stands, executor, lost,
     Abort, CancelFuture
<1>3. StandingIsOpen'
  BY ConstantsAssumption DEF IInv, StandingIsOpen, GivenUpIsEmpty, Abort
<1>4. GivenUpIsEmpty'
  BY ConstantsAssumption DEF IInv, GivenUpIsEmpty, lost, Abort
<1>5. DoneIsCalled'
  BY ConstantsAssumption DEF IInv, TypeOK, DoneIsCalled, Done, executor, Abort,
     CancelFuture
<1>6. CallbacksNest'
  BY ConstantsAssumption DEF IInv, TypeOK, CallbacksNest, ReaderFree, executor,
     lost, Abort, CancelFuture
<1> QED BY <1>1, <1>2, <1>3, <1>4, <1>5, <1>6 DEF IInv

LEMMA InitHolds == Init => IInv
<1>1. ASSUME Init
      PROVE  TypeOK
  <2>1. answers \in [Searches -> 0..1]
    BY <1>1 DEF Init
  <2> QED BY <1>1, <2>1, ConstantsAssumption DEF Init, TypeOK, Places, Futures,
     Callbacks
<1>2. Init => UnsentIsNew /\ StandingIsOpen /\ GivenUpIsEmpty
  BY ConstantsAssumption DEF Init, Nothing, UnsentIsNew, StandingIsOpen,
     GivenUpIsEmpty, Stands
<1>3. Init => DoneIsCalled /\ CallbacksNest
  BY ConstantsAssumption DEF Init, DoneIsCalled, CallbacksNest, Done, ReaderFree
<1> QED BY <1>1, <1>2, <1>3 DEF IInv

LEMMA NextKeeps ==
  ASSUME IInv, [Next]_vars
  PROVE  IInv'
<1>1. CASE \E s \in Searches : Finish(s)
  BY <1>1, FinishKeeps
<1>2. CASE \E s \in Searches : CancelRest(s)
  BY <1>2, CancelRestKeeps
<1>3. CASE \E s \in Searches : Take(s)
  BY <1>3, TakeKeeps
<1>4. CASE \E s \in Searches : SearchReturns(s)
  BY <1>4, SearchReturnsKeeps
<1>5. CASE NextLine
  BY <1>5, NextLineKeeps
<1>6. CASE Reply
  BY <1>6, ReplyKeeps
<1>7. CASE CancelLine
  BY <1>7, CancelLineKeeps
<1>8. CASE CancelCall
  BY <1>8, CancelCallKeeps
<1>9. CASE Submit
  BY <1>9, SubmitKeeps
<1>10. CASE Register
  BY <1>10, RegisterKeeps
<1>11. CASE EndOfInput
  BY <1>11, EndOfInputKeeps
<1>12. CASE Interrupted
  BY <1>12, InterruptedKeeps
<1>13. CASE Drained
  BY <1>13, DrainedKeeps
<1>14. CASE Raise
  BY <1>14, RaiseKeeps
<1>15. CASE Abort
  BY <1>15, AbortKeeps
<1>16. CASE UNCHANGED vars
  BY <1>16 DEF vars, IInv, TypeOK, UnsentIsNew, StandingIsOpen, GivenUpIsEmpty,
     DoneIsCalled, CallbacksNest, Done, Stands, ReaderFree, executor, lost
<1> QED BY <1>1, <1>2, <1>3, <1>4, <1>5, <1>6, <1>7, <1>8, <1>9, <1>10, <1>11, <1>12,
   <1>13, <1>14, <1>15, <1>16 DEF Next, SearchStep, ReaderStep, Terminated

THEOREM Invariance == Spec => []IInv
BY InitHolds, NextKeeps, PTL DEF Spec

\* Every variable keeps its type; in particular no search is answered twice.
THEOREM TypeCorrect == Spec => []TypeOK
<1>1. IInv => TypeOK
  BY DEF IInv
<1> QED BY <1>1, Invariance, PTL

-----------------------------------------------------------------------------
(* Each step of the threads is a step of SearchAnswers, or none. *)

LEMMA FinishRefines ==
  ASSUME IInv, NEW s \in Searches, Finish(s)
  PROVE  [Answers!Next]_(Answers!vars)
<1>1. CASE pending[id[s]] # s
  BY <1>1 DEF Finish, Respond, Answers!vars, Asked, Ended
<1>2. CASE pending[id[s]] = s
  <2>1. id[s] \in Ids /\ Ended = "no" /\ pending[id[s]] # None
    BY <1>2, ConstantsAssumption DEF IInv, UnsentIsNew, GivenUpIsEmpty, Ended,
       GivenUp, Finish
  <2>2. CASE /\ pending' = [pending EXCEPT ![id[s]] = None]
             /\ answers' = [answers EXCEPT ![s] = @ + 1]
             /\ UNCHANGED lost
    <3>1. Answers!Answer(id[s])
      BY <1>2, <2>1, <2>2 DEF Finish, Answers!Answer, Asked, Ended
    <3> QED BY <2>1, <3>1 DEF Answers!Next
  <2>3. CASE Lose(s) /\ UNCHANGED answers
    <3>1. Answers!GiveUp
      BY <2>1, <2>3 DEF Lose, Nothing, Answers!GiveUp, Asked, Ended, GivenUp, Finish
    <3> QED BY <3>1 DEF Answers!Next
  <2> QED BY <1>2, <2>2, <2>3 DEF Finish, Respond
<1> QED BY <1>1, <1>2

LEMMA CancelLineRefines ==
  ASSUME IInv, CancelLine
  PROVE  [Answers!Next]_(Answers!vars)
<1>1. PICK i \in Ids : IF pending[i] = None
                        THEN reader' = "input" /\ UNCHANGED <<current, pending>>
                        ELSE /\ pending' = [pending EXCEPT ![i] = None]
                             /\ current' = pending[i]
                             /\ reader' = "cancelling"
  BY DEF CancelLine
<1>2. CASE pending[i] = None
  BY <1>1, <1>2 DEF CancelLine, lost, executor, Answers!vars, Asked, Ended, GivenUp
<1>3. CASE pending[i] # None
  <2>1. Answers!Cancel(i)
    BY <1>1, <1>3 DEF CancelLine, lost, executor, Answers!Cancel, Asked, Ended,
       GivenUp, IInv, GivenUpIsEmpty
  <2> QED BY <2>1 DEF Answers!Next
<1> QED BY <1>2, <1>3

LEMMA SubmitRefines ==
  ASSUME IInv, Submit
  PROVE  [Answers!Next]_(Answers!vars)
<1>1. CASE failure
  BY <1>1 DEF Submit, lost, Answers!vars, Asked, Ended, GivenUp
<1>2. CASE ~failure
  <2>1. PICK s \in Searches, i \in Ids :
          /\ future[s] = "NONE"
          /\ future' = [future EXCEPT ![s] = "PENDING"]
          /\ pending' = [pending EXCEPT ![i] = s]
    BY <1>2 DEF Submit
  <2>2. Asked' = Asked \cup {s}
    BY <2>1 DEF Asked, IInv, TypeOK
  <2>3. Answers!Ask(s, i)
    BY <2>1, <2>2 DEF Submit, lost, Answers!Ask, Asked, Ended, GivenUp
  <2> QED BY <2>3 DEF Answers!Next
<1> QED BY <1>1, <1>2

LEMMA RaiseRefines ==
  ASSUME IInv, Raise
  PROVE  [Answers!Next]_(Answers!vars)
<1>1. Asked' = Asked /\ answers' = answers /\ Ended' = "lost" /\ pending' = Nothing
  BY DEF Raise, executor, lost, Asked, Ended, GivenUp
<1>2. CASE failure
  <2>1. Ended = "lost" /\ pending = Nothing
    BY <1>2 DEF Raise, Ended, GivenUp, IInv, TypeOK, GivenUpIsEmpty, Nothing
  <2> QED BY <1>1, <2>1 DEF Answers!vars
<1>3. CASE ~failure
  <2>1. Answers!GiveUp
    BY <1>1, <1>3 DEF Raise, Answers!GiveUp, Ended, GivenUp, Nothing
  <2> QED BY <2>1 DEF Answers!Next
<1> QED BY <1>2, <1>3

\* What makes the drain safe: a search that stands is not over.
LEMMA DrainedRefines ==
  ASSUME IInv, Drained
  PROVE  [Answers!Next]_(Answers!vars)
<1>1. CASE failure
  BY <1>1 DEF Drained, executor, lost, Answers!vars, Asked, Ended, GivenUp
<1>2. CASE ~failure
  <2>1. ASSUME NEW i \in Ids, pending[i] # None
        PROVE  FALSE
    <3>1. PICK s \in Searches : pending[i] = s
      BY <2>1 DEF IInv, TypeOK
    <3>2. future[s] = "FINISHED"
      BY <3>1 DEF Drained, Quiet, IInv, TypeOK, Futures, UnsentIsNew,
         StandingIsOpen, Stands
    <3>3. callback[s] = "reader"
      BY <3>1, <3>2 DEF Drained, Quiet, IInv, TypeOK, Callbacks, StandingIsOpen,
         DoneIsCalled, Done
    <3> QED BY <3>3 DEF Drained, IInv, CallbacksNest, ReaderFree
  <2>2. pending = [i \in Ids |-> None]
    BY <2>1 DEF IInv, TypeOK
  <2>3. Answers!End
    BY <1>2, <2>2 DEF Drained, executor, Answers!End, Asked, Ended, GivenUp
  <2> QED BY <2>3 DEF Answers!Next
<1> QED BY <1>1, <1>2

LEMMA AbortRefines ==
  ASSUME IInv, Abort
  PROVE  [Answers!Next]_(Answers!vars)
<1>1. CASE UNCHANGED reader
  <2>1. Asked' = Asked
    BY <1>1 DEF Abort, CancelFuture, executor, Asked, IInv, TypeOK
  <2> QED BY <1>1, <2>1 DEF Abort, lost, Answers!vars, Ended, GivenUp
<1>2. CASE Quiet /\ reader' = "raised" /\ UNCHANGED executor
  <2>1. pending = [i \in Ids |-> None]
    BY DEF Abort, IInv, TypeOK, GivenUpIsEmpty
  <2>2. Answers!End
    BY <1>2, <2>1 DEF Abort, executor, Answers!End, Asked, Ended, GivenUp
  <2> QED BY <2>2 DEF Answers!Next
<1> QED BY <1>1, <1>2 DEF Abort

LEMMA OthersStutter ==
  ASSUME IInv,
         \/ \E s \in Searches : CancelRest(s) \/ Take(s) \/ SearchReturns(s)
         \/ Reply \/ CancelCall \/ Register \/ NextLine \/ EndOfInput \/ Interrupted
         \/ UNCHANGED vars
  PROVE  UNCHANGED Answers!vars
<1>1. UNCHANGED <<pending, answers>> /\ failure' = failure
  BY DEF vars, lost, CancelRest, Take, SearchReturns, Reply, CancelCall, Register,
     NextLine,
         EndOfInput, Interrupted
<1>2. Asked' = Asked
  BY DEF vars, executor, Asked, CancelFuture, IInv, TypeOK, CancelRest, Take,
     SearchReturns, Reply,
         CancelCall, Register, NextLine, EndOfInput, Interrupted
<1>3. Ended' = Ended
  BY <1>1 DEF vars, Ended, GivenUp, CancelRest, Take, SearchReturns, Reply,
     CancelCall, Register,
         NextLine, EndOfInput, Interrupted
<1> QED BY <1>1, <1>2, <1>3 DEF Answers!vars

\* The threads implement the abstract server: only the latest uncancelled search
\* under an id is answered, once, and a server that ends well answered them all.
THEOREM Implementation == Spec => Implements
<1>1. Init => Answers!Init
  BY DEF Init, Nothing, Answers!Init, Asked, Ended, GivenUp
<1>2. ASSUME IInv, [Next]_vars
      PROVE  [Answers!Next]_(Answers!vars)
  <2>1. CASE \E s \in Searches : Finish(s)
    BY <1>2, <2>1, FinishRefines
  <2>2. CASE CancelLine
    BY <1>2, <2>2, CancelLineRefines
  <2>3. CASE Submit
    BY <1>2, <2>3, SubmitRefines
  <2>4. CASE Raise
    BY <1>2, <2>4, RaiseRefines
  <2>5. CASE Drained
    BY <1>2, <2>5, DrainedRefines
  <2>6. CASE Abort
    BY <1>2, <2>6, AbortRefines
  <2> QED
    BY <1>2, <2>1, <2>2, <2>3, <2>4, <2>5, <2>6, OthersStutter
       DEF Next, SearchStep, ReaderStep, Terminated
<1> QED BY <1>1, <1>2, Invariance, PTL DEF Spec, Implements, Answers!Spec

-----------------------------------------------------------------------------
(* First-prompt routing. *)

\* The lock is held by a wrapper that has its snapshot; a snapshot without the lock is that
\* of a wrapper whose write failed, on its way to the second attempt.
GuardInv ==
  /\ guard # Nobody =>
       before[guard] # Unset /\ phase[guard] \in {"switching", "waiting_persist", "leaving"}
  /\ \A w \in Wrappers : before[w] # Unset => guard = w \/ phase[w] = "unwinding"

\* At most one wrapper has switched the model, from the user's own.
OwnInv ==
  ~stray =>
    /\ \A v, w \in Wrappers : before[v] # Unset /\ before[w] # Unset => v = w
    /\ \A w \in Wrappers : before[w] # Unset => before[w] = own
    /\ (\A w \in Wrappers : before[w] = Unset) => settings = own

\* The socket's thread works on a prompt whose hook is there, leaving or gone, before any
\* was claimed; Claude waits for one hook at a time.
ServerInv(w) ==
  /\ server[w] = "routing" <=> caller[w] # "none"
  /\ server[w] = "routing" <=> held[w] # 0
  /\ caller[w] \in {"there", "leaving"} => asked[w] = 0
  /\ server[w] = "routing" => ~claimed[w] /\ Running(w)
  /\ asked[w] # 0 => Running(w)

\* From the claim on the loop has the prompt and its model; nothing is reported before it.
ClaimInv(w) ==
  /\ captured[w] # 0 => claimed[w] /\ server[w] = "up" /\ routed[w] # Unset /\ Running(w)
  /\ phase[w] \in Phases \ {"waiting_prompt"} => captured[w] # 0
  /\ ~claimed[w] => ~submitted[w]
  /\ w \in confirmed => phase[w] = "done"
  /\ command[w] # "none" => routed[w] # Unset

\* Before the claim a prompt is in the box, with the hook, being routed, or has been run:
\* what is in one of the first places has not been run.
FreshInv(w) == ~claimed[w] =>
  /\ box[w] <= typed[w]
  /\ asked[w] <= typed[w]
  /\ held[w] <= typed[w]
  /\ (asked[w] # 0 \/ caller[w] \in {"there", "leaving"}) => box[w] = 0
  /\ \A i \in PromptIds(w) \ {0} :
       /\ i > typed[w] => runs[w][i] = 0
       /\ i \in {box[w], asked[w]} => runs[w][i] = 0
       /\ caller[w] \in {"there", "leaving"} /\ held[w] = i => runs[w][i] = 0

\* After it the blocked prompt has not been run until the wrapper presses Enter on it; then it
\* is in the box, with the hook, or it has been run once.
ReplayInv(w) == captured[w] # 0 /\ w \notin meddled \cup crossed =>
  /\ phase[w] \notin {"verifying", "done"} =>
       runs[w][captured[w]] = 0 /\ asked[w] = 0 /\ ~submitted[w]
  /\ phase[w] = "pasting" => box[w] = captured[w]
  /\ phase[w] \in {"verifying", "done"} =>
       \/ box[w] = captured[w] /\ asked[w] = 0 /\ runs[w][captured[w]] = 0 /\ ~submitted[w]
       \/ box[w] = 0 /\ asked[w] = captured[w] /\ runs[w][captured[w]] = 0 /\ ~submitted[w]
       \/ box[w] = 0 /\ asked[w] = 0 /\ runs[w][captured[w]] = 1
  /\ w \in confirmed => runs[w][captured[w]] = 1

SessionInv(w) == ServerInv(w) /\ ClaimInv(w) /\ FreshInv(w) /\ ReplayInv(w)
\* The inductive invariant.
SwitchInv == SwitchTypeOK /\ GuardInv /\ OwnInv /\ \A w \in Wrappers : SessionInv(w)

-----------------------------------------------------------------------------
(* Frames. *)

\* What a step of another wrapper leaves as it is.
Same(v) ==
  /\ phase'[v] = phase[v] /\ server'[v] = server[v] /\ caller'[v] = caller[v]
  /\ held'[v] = held[v] /\ asked'[v] = asked[v] /\ claimed'[v] = claimed[v]
  /\ captured'[v] = captured[v] /\ routed'[v] = routed[v]
  /\ submitted'[v] = submitted[v] /\ box'[v] = box[v] /\ typed'[v] = typed[v]
  /\ command'[v] = command[v] /\ runs'[v] = runs[v]
  /\ v \in meddled' <=> v \in meddled
  /\ v \in crossed' <=> v \in crossed
  /\ v \in confirmed' <=> v \in confirmed

LEMMA SameSession ==
  ASSUME NEW v \in Wrappers, SessionInv(v), Same(v), UNCHANGED user
  PROVE  SessionInv(v)'
<1>1. ServerInv(v)'
  BY DEF SessionInv, ServerInv, Running, Same
<1>2. ClaimInv(v)'
  BY DEF SessionInv, ClaimInv, Running, Same
<1>3. FreshInv(v)'
  BY DEF SessionInv, FreshInv, PromptIds, Same
<1>4. ReplayInv(v)'
  BY DEF SessionInv, ReplayInv, Same
<1> QED
  BY <1>1, <1>2, <1>3, <1>4 DEF SessionInv

\* What does not touch the settings, the lock or the loop leaves the guard right.
LEMMA SameGuard ==
  ASSUME GuardInv, OwnInv, UNCHANGED <<file, phase, own, stray>>
  PROVE  GuardInv' /\ OwnInv'
  BY DEF GuardInv, OwnInv, file

LEMMA TakesOne ==
  ASSUME SwitchTypeOK, NEW w \in Wrappers, NEW i \in PromptIds(w), Takes(w, i), UNCHANGED user
  PROVE  /\ runs' = [v \in Wrappers |-> runs'[v]]
         /\ \A v \in Wrappers : runs'[v] \in [PromptIds(v)' -> Nat]
         /\ \A v \in Wrappers \ {w} : runs'[v] = runs[v]
         /\ runs'[w][i] = runs[w][i] + 1
         /\ \A j \in PromptIds(w) \ {i} : runs'[w][j] = runs[w][j]
<1>1. /\ runs = [v \in Wrappers |-> runs[v]]
      /\ runs[w] \in [PromptIds(w) -> Nat]
      /\ \A v \in Wrappers : runs[v] \in [PromptIds(v) -> Nat]
      /\ runs' = [runs EXCEPT ![w] = [runs[w] EXCEPT ![i] = runs[w][i] + 1]]
  BY DEF SwitchTypeOK, Takes
<1>2. runs' = [v \in Wrappers |->
                 IF v = w THEN [runs[w] EXCEPT ![i] = runs[w][i] + 1] ELSE runs[v]]
  BY <1>1
<1>3. \A v \in Wrappers : PromptIds(v)' = PromptIds(v)
  BY DEF PromptIds
<1> DEFINE more == [runs[w] EXCEPT ![i] = runs[w][i] + 1]
<1>4. /\ more \in [PromptIds(w) -> Nat] /\ more[i] = runs[w][i] + 1
      /\ \A j \in PromptIds(w) \ {i} : more[j] = runs[w][j]
  BY <1>1
<1> HIDE DEF more
<1>5. /\ runs'[w] = more
      /\ \A v \in Wrappers \ {w} : runs'[v] = runs[v]
      /\ runs' = [v \in Wrappers |-> runs'[v]]
  BY <1>2 DEF more
<1> QED
  BY <1>1, <1>3, <1>4, <1>5

LEMMA PromptNumbers ==
  ASSUME SwitchTypeOK, NEW w \in Wrappers
  PROVE  0 \in PromptIds(w) /\ PromptIds(w) \subseteq Nat
  BY WrappersAssumption DEF SwitchTypeOK, PromptIds

\* A prompt goes on without its hook: it is taken, or it is in the box again.
LEMMA LetsThrough ==
  ASSUME SwitchTypeOK, NEW w \in Wrappers, LetThrough(w), UNCHANGED user
  PROVE  /\ runs' = [v \in Wrappers |-> runs'[v]]
         /\ \A v \in Wrappers : runs'[v] \in [PromptIds(v)' -> Nat]
         /\ \A v \in Wrappers \ {w} : runs'[v] = runs[v] /\ box'[v] = box[v]
         /\ box' \in [Wrappers -> Nat]
         /\ \A v \in Wrappers : box'[v] \in PromptIds(v)'
         /\ \/ box'[w] = box[w]
               /\ \A j \in PromptIds(w) \ {held[w]} : runs'[w][j] = runs[w][j]
            \/ runs'[w] = runs[w] /\ box'[w] = held[w]
<1>1. held[w] \in PromptIds(w) /\ held[w] \in Nat
  BY DEF SwitchTypeOK
<1>2. CASE Takes(w, held[w]) /\ UNCHANGED box
  BY <1>1, <1>2, TakesOne DEF SwitchTypeOK, PromptIds
<1>3. CASE box' = [box EXCEPT ![w] = held[w]] /\ UNCHANGED runs
  BY <1>1, <1>3 DEF SwitchTypeOK, PromptIds
<1> QED
  BY <1>2, <1>3 DEF LetThrough

\* An Enter, of the user's or the wrapper's.
LEMMA SubmitsOne ==
  ASSUME SwitchTypeOK, NEW w \in Wrappers, NEW i \in PromptIds(w), SubmitPrompt(w, i),
         UNCHANGED user
  PROVE  /\ runs' = [v \in Wrappers |-> runs'[v]]
         /\ \A v \in Wrappers : runs'[v] \in [PromptIds(v)' -> Nat]
         /\ \A v \in Wrappers \ {w} : runs'[v] = runs[v] /\ asked'[v] = asked[v]
         /\ asked' \in [Wrappers -> Nat] /\ asked'[w] \in {asked[w], i}
         /\ server[w] = "down" => asked'[w] = asked[w]
         /\ server[w] # "down" => asked'[w] = i /\ runs'[w] = runs[w]
         /\ \A j \in PromptIds(w) \ {i} : runs'[w][j] = runs[w][j]
<1>1. \A v \in Wrappers : PromptIds(v)' = PromptIds(v) /\ PromptIds(v) \subseteq Nat
  BY DEF PromptIds
<1>2. CASE server[w] = "down"
  <2>1. Takes(w, i) /\ asked' = asked
    BY <1>2 DEF SubmitPrompt
  <2> QED
    BY <1>2, <2>1, TakesOne DEF SwitchTypeOK
<1>3. CASE server[w] # "down"
  <2>1. runs' = runs /\ asked' = [asked EXCEPT ![w] = i]
    BY <1>3 DEF SubmitPrompt
  <2>2. asked \in [Wrappers -> Nat] /\ i \in Nat
    BY <1>1 DEF SwitchTypeOK
  <2> QED
    BY <1>1, <1>3, <2>1, <2>2 DEF SwitchTypeOK
<1> QED
  BY <1>2, <1>3

-----------------------------------------------------------------------------
(* The steps of the loop. *)

LEMMA CaptureKeeps ==
  ASSUME SwitchInv, NEW w \in Wrappers, Capture(w), UNCHANGED user
  PROVE  SwitchInv'
<1>1. SwitchTypeOK'
  BY DEF SwitchInv, SwitchTypeOK, PromptIds, Capture, Goes, file, hook, loop, agent, history,
     Phases, Ends
<1>2. GuardInv' /\ OwnInv'
  BY DEF SwitchInv, SwitchTypeOK, GuardInv, OwnInv, Capture, Goes, file, hook, loop, agent,
     history
<1>3. ASSUME NEW v \in Wrappers \ {w}
      PROVE  SessionInv(v)'
  BY <1>3, SameSession DEF SwitchInv, SwitchTypeOK, Same, Capture, Goes, file, hook, loop,
     agent, history
<1>4. SessionInv(w)'
  BY DEF SwitchInv, SwitchTypeOK, SessionInv, ServerInv, ClaimInv, FreshInv, ReplayInv,
     Running, Phases, PromptIds, Capture, Goes, file, hook, loop, agent, history
<1> QED
  BY <1>1, <1>2, <1>3, <1>4 DEF SwitchInv

LEMMA IdleKeeps ==
  ASSUME SwitchInv, NEW w \in Wrappers, Idle(w), UNCHANGED user
  PROVE  SwitchInv'
<1>1. SwitchTypeOK'
  BY DEF SwitchInv, SwitchTypeOK, PromptIds, Idle, Goes, file, hook, loop, agent, history,
     Phases, Ends
<1>2. GuardInv' /\ OwnInv'
  BY DEF SwitchInv, SwitchTypeOK, GuardInv, OwnInv, Idle, Goes, file, hook, loop, agent, history
<1>3. ASSUME NEW v \in Wrappers \ {w}
      PROVE  SessionInv(v)'
  BY <1>3, SameSession DEF SwitchInv, SwitchTypeOK, Same, Idle, Goes, file, hook, loop, agent,
     history
<1>4. SessionInv(w)'
  BY DEF SwitchInv, SwitchTypeOK, SessionInv, ServerInv, ClaimInv, FreshInv, ReplayInv,
     Running, Phases, PromptIds, Idle, Goes, file, hook, loop, agent, history
<1> QED
  BY <1>1, <1>2, <1>3, <1>4 DEF SwitchInv

LEMMA SeesMarkerKeeps ==
  ASSUME SwitchInv, NEW w \in Wrappers, SeesMarker(w), UNCHANGED user
  PROVE  SwitchInv'
<1>1. SwitchTypeOK'
  BY DEF SwitchInv, SwitchTypeOK, PromptIds, SeesMarker, Goes, file, hook, loop, agent, history,
     Phases, Ends
<1>2. GuardInv' /\ OwnInv'
  BY DEF SwitchInv, SwitchTypeOK, GuardInv, OwnInv, SeesMarker, Goes, file, hook, loop, agent,
     history
<1>3. ASSUME NEW v \in Wrappers \ {w}
      PROVE  SessionInv(v)'
  BY <1>3, SameSession DEF SwitchInv, SwitchTypeOK, Same, SeesMarker, Goes, file, hook, loop,
     agent, history
<1>4. SessionInv(w)'
  BY DEF SwitchInv, SwitchTypeOK, SessionInv, ServerInv, ClaimInv, FreshInv, ReplayInv,
     Running, Phases, PromptIds, SeesMarker, Goes, file, hook, loop, agent, history
<1> QED
  BY <1>1, <1>2, <1>3, <1>4 DEF SwitchInv

LEMMA VerifiedKeeps ==
  ASSUME SwitchInv, NEW w \in Wrappers, Verified(w), UNCHANGED user
  PROVE  SwitchInv'
<1>1. SwitchTypeOK'
  BY DEF SwitchInv, SwitchTypeOK, PromptIds, Verified, Goes, file, hook, loop, agent, history,
     Phases, Ends
<1>2. GuardInv' /\ OwnInv'
  BY DEF SwitchInv, SwitchTypeOK, GuardInv, OwnInv, Verified, Goes, file, hook, loop, agent,
     history
<1>3. ASSUME NEW v \in Wrappers \ {w}
      PROVE  SessionInv(v)'
  BY <1>3, SameSession DEF SwitchInv, SwitchTypeOK, Same, Verified, Goes, file, hook, loop,
     agent, history
<1>4. SessionInv(w)'
  BY DEF SwitchInv, SwitchTypeOK, SessionInv, ServerInv, ClaimInv, FreshInv, ReplayInv,
     Running, Phases, PromptIds, Verified, Goes, file, hook, loop, agent, history
<1> QED
  BY <1>1, <1>2, <1>3, <1>4 DEF SwitchInv

-----------------------------------------------------------------------------
(* The hook, Claude and the user. *)

LEMMA GiveUpKeeps ==
  ASSUME SwitchInv, NEW w \in Wrappers, GiveUp(w), UNCHANGED user
  PROVE  SwitchInv'
<1>1. SwitchTypeOK'
  BY DEF SwitchInv, SwitchTypeOK, PromptIds, GiveUp, Goes, file, hook, loop, agent, history,
     Commands
<1>2. GuardInv' /\ OwnInv'
  BY SameGuard DEF SwitchInv, GiveUp, Goes, file, hook, loop, agent, history
<1>3. ASSUME NEW v \in Wrappers \ {w}
      PROVE  SessionInv(v)'
  BY <1>3, SameSession DEF SwitchInv, SwitchTypeOK, Same, GiveUp, Goes, file, hook, loop, agent,
     history
<1>4. SessionInv(w)'
  BY DEF SwitchInv, SwitchTypeOK, SessionInv, ServerInv, ClaimInv, FreshInv, ReplayInv,
     Running, Phases, PromptIds, GiveUp, Goes, file, hook, loop, agent, history
<1> QED
  BY <1>1, <1>2, <1>3, <1>4 DEF SwitchInv

LEMMA ClaudeEndsKeeps ==
  ASSUME SwitchInv, NEW w \in Wrappers, ClaudeEnds(w), UNCHANGED user
  PROVE  SwitchInv'
<1>1. SwitchTypeOK'
  BY DEF SwitchInv, SwitchTypeOK, PromptIds, ClaudeEnds, Goes, file, hook, loop, agent, history,
     Commands
<1>2. GuardInv' /\ OwnInv'
  BY SameGuard DEF SwitchInv, ClaudeEnds, Goes, file, hook, loop, agent, history
<1>3. ASSUME NEW v \in Wrappers \ {w}
      PROVE  SessionInv(v)'
  BY <1>3, SameSession DEF SwitchInv, SwitchTypeOK, Same, ClaudeEnds, Goes, file, hook, loop,
     agent, history
<1>4. SessionInv(w)'
  BY DEF SwitchInv, SwitchTypeOK, SessionInv, ServerInv, ClaimInv, FreshInv, ReplayInv,
     Running, Phases, PromptIds, ClaudeEnds, Goes, file, hook, loop, agent, history
<1> QED
  BY <1>1, <1>2, <1>3, <1>4 DEF SwitchInv

LEMMA AsksKeeps ==
  ASSUME SwitchInv, NEW w \in Wrappers, Asks(w), UNCHANGED user
  PROVE  SwitchInv'
<1>1. SwitchTypeOK'
  BY DEF SwitchInv, SwitchTypeOK, PromptIds, Asks, Goes, file, hook, loop, agent, history,
     Commands
<1>2. GuardInv' /\ OwnInv'
  BY SameGuard DEF SwitchInv, Asks, Goes, file, hook, loop, agent, history
<1>3. ASSUME NEW v \in Wrappers \ {w}
      PROVE  SessionInv(v)'
  BY <1>3, SameSession DEF SwitchInv, SwitchTypeOK, Same, Asks, Goes, file, hook, loop, agent,
     history
<1>4. SessionInv(w)'
  BY DEF SwitchInv, SwitchTypeOK, SessionInv, ServerInv, ClaimInv, FreshInv, ReplayInv,
     Running, Phases, PromptIds, Asks, Goes, file, hook, loop, agent, history
<1> QED
  BY <1>1, <1>2, <1>3, <1>4 DEF SwitchInv

LEMMA RunsKeeps ==
  ASSUME SwitchInv, NEW w \in Wrappers, Runs(w), UNCHANGED user
  PROVE  SwitchInv'
<1>1. SwitchTypeOK'
  BY DEF SwitchInv, SwitchTypeOK, PromptIds, Runs, Goes, file, hook, loop, agent, history,
     Commands
<1>2. GuardInv' /\ OwnInv'
  BY SameGuard DEF SwitchInv, Runs, Goes, file, hook, loop, agent, history
<1>3. ASSUME NEW v \in Wrappers \ {w}
      PROVE  SessionInv(v)'
  BY <1>3, SameSession DEF SwitchInv, SwitchTypeOK, Same, Runs, Goes, file, hook, loop, agent,
     history
<1>4. SessionInv(w)'
  BY DEF SwitchInv, SwitchTypeOK, SessionInv, ServerInv, ClaimInv, FreshInv, ReplayInv,
     Running, Phases, PromptIds, Runs, Goes, file, hook, loop, agent, history
<1> QED
  BY <1>1, <1>2, <1>3, <1>4 DEF SwitchInv

LEMMA ShowsKeeps ==
  ASSUME SwitchInv, NEW w \in Wrappers, Shows(w), UNCHANGED user
  PROVE  SwitchInv'
<1>1. SwitchTypeOK'
  BY DEF SwitchInv, SwitchTypeOK, PromptIds, Shows, Goes, file, hook, loop, agent, history,
     Commands
<1>2. GuardInv' /\ OwnInv'
  BY SameGuard DEF SwitchInv, Shows, Goes, file, hook, loop, agent, history
<1>3. ASSUME NEW v \in Wrappers \ {w}
      PROVE  SessionInv(v)'
  BY <1>3, SameSession DEF SwitchInv, SwitchTypeOK, Same, Shows, Goes, file, hook, loop, agent,
     history
<1>4. SessionInv(w)'
  BY DEF SwitchInv, SwitchTypeOK, SessionInv, ServerInv, ClaimInv, FreshInv, ReplayInv,
     Running, Phases, PromptIds, Shows, Goes, file, hook, loop, agent, history
<1> QED
  BY <1>1, <1>2, <1>3, <1>4 DEF SwitchInv

LEMMA StoresKeeps ==
  ASSUME SwitchInv, NEW w \in Wrappers, Stores(w), UNCHANGED user
  PROVE  SwitchInv'
<1>1. SwitchTypeOK'
  BY DEF SwitchInv, SwitchTypeOK, PromptIds, Stores, Goes, file, hook, loop, agent, history,
     Commands, Models, SessionInv, ClaimInv
<1>2. GuardInv' /\ OwnInv'
  <2>1. GuardInv'
    BY DEF SwitchInv, GuardInv, Stores, hook, loop
  <2>2. ASSUME ~stray'
        PROVE  ~stray /\ before[w] # Unset
    BY <2>1, <2>2, WrappersAssumption DEF SwitchInv, SwitchTypeOK, GuardInv, Stores
  <2>3. OwnInv'
    BY <2>2 DEF SwitchInv, OwnInv, Stores
  <2> QED
    BY <2>1, <2>3
<1>3. ASSUME NEW v \in Wrappers \ {w}
      PROVE  SessionInv(v)'
  BY <1>3, SameSession DEF SwitchInv, SwitchTypeOK, Same, Stores, Goes, file, hook, loop, agent,
     history
<1>4. SessionInv(w)'
  BY DEF SwitchInv, SwitchTypeOK, SessionInv, ServerInv, ClaimInv, FreshInv, ReplayInv,
     Running, Phases, PromptIds, Stores, Goes, file, hook, loop, agent, history
<1> QED
  BY <1>1, <1>2, <1>3, <1>4 DEF SwitchInv

LEMMA UserTypesKeeps ==
  ASSUME SwitchInv, NEW w \in Wrappers, UserTypes(w), UNCHANGED user
  PROVE  SwitchInv'
<1> DEFINE i == typed[w] + 1
<1>0. /\ i \in PromptIds(w) /\ i # 0 /\ SubmitPrompt(w, i)
      /\ claimed[w] \in BOOLEAN /\ typed' = [typed EXCEPT ![w] = i]
      /\ box' = [box EXCEPT ![w] = 0]
      /\ user[w].prompts \in Nat /\ i \in Nat /\ i > typed[w] /\ i <= user[w].prompts
  <2>1. typed[w] \in Nat /\ user[w].prompts \in Nat /\ typed[w] < user[w].prompts
    BY WrappersAssumption DEF SwitchInv, SwitchTypeOK, UserTypes
  <2>2. i \in Nat /\ i > typed[w] /\ i <= user[w].prompts /\ i # 0 /\ claimed[w] \in BOOLEAN
    BY <2>1 DEF SwitchInv, SwitchTypeOK
  <2>3. SubmitPrompt(w, i) /\ typed' = [typed EXCEPT ![w] = i] /\ box' = [box EXCEPT ![w] = 0]
    BY <2>1 DEF SwitchInv, SwitchTypeOK, UserTypes
  <2> HIDE DEF i
  <2> QED
    BY <2>1, <2>2, <2>3 DEF PromptIds
<1> HIDE DEF i
<1>r. /\ runs' = [v \in Wrappers |-> runs'[v]]
      /\ \A v \in Wrappers : runs'[v] \in [PromptIds(v)' -> Nat]
      /\ \A v \in Wrappers \ {w} : runs'[v] = runs[v] /\ asked'[v] = asked[v]
      /\ asked' \in [Wrappers -> Nat] /\ asked'[w] \in {asked[w], i}
      /\ server[w] = "down" => asked'[w] = asked[w]
      /\ server[w] # "down" => asked'[w] = i /\ runs'[w] = runs[w]
      /\ \A j \in PromptIds(w) \ {i} : runs'[w][j] = runs[w][j]
  BY <1>0, SubmitsOne DEF SwitchInv
<1>1. SwitchTypeOK'
  <2>1. /\ box' \in [Wrappers -> Nat] /\ typed' \in [Wrappers -> Nat]
        /\ meddled' \subseteq Wrappers
    BY <1>0 DEF SwitchInv, SwitchTypeOK, UserTypes
  <2>2. \A v \in Wrappers :
          /\ held'[v] \in PromptIds(v)' /\ asked'[v] \in PromptIds(v)'
          /\ captured'[v] \in PromptIds(v)'
          /\ box'[v] \in PromptIds(v)' /\ typed'[v] \in PromptIds(v)'
    <3> SUFFICES ASSUME NEW v \in Wrappers
                 PROVE  /\ held'[v] \in PromptIds(v) /\ asked'[v] \in PromptIds(v)
                        /\ captured'[v] \in PromptIds(v)
                        /\ box'[v] \in PromptIds(v) /\ typed'[v] \in PromptIds(v)
      BY DEF PromptIds
    <3>1. 0 \in PromptIds(v)
      BY WrappersAssumption DEF SwitchInv, SwitchTypeOK, PromptIds
    <3>2. asked'[v] \in PromptIds(v)
      BY <1>0, <1>r DEF SwitchInv, SwitchTypeOK
    <3>3. box'[v] \in PromptIds(v) /\ typed'[v] \in PromptIds(v)
      BY <1>0, <3>1 DEF SwitchInv, SwitchTypeOK, UserTypes
    <3> QED
      BY <3>2, <3>3 DEF SwitchInv, SwitchTypeOK, UserTypes, loop
  <2> QED
    BY <1>r, <2>1, <2>2 DEF SwitchInv, SwitchTypeOK, UserTypes, file, loop
<1>2. GuardInv' /\ OwnInv'
  BY SameGuard DEF SwitchInv, UserTypes, file, loop
<1>3. ASSUME NEW v \in Wrappers \ {w}
      PROVE  SessionInv(v)'
  BY <1>r, <1>3, SameSession DEF SwitchInv, SwitchTypeOK, Same, UserTypes, file, loop
<1>4. SessionInv(w)'
  <2>1. ServerInv(w)'
    BY <1>0, <1>r DEF SwitchInv, SwitchTypeOK, SessionInv, ServerInv, ClaimInv, Running, HookIdle,
       UserTypes, loop
  <2>2. ClaimInv(w)'
    BY DEF SwitchInv, SessionInv, ClaimInv, Running, UserTypes, loop
  <2>3. FreshInv(w)'
    <3> SUFFICES ASSUME ~claimed[w]
                 PROVE  FreshInv(w)'
      BY DEF FreshInv, UserTypes
    <3>1. /\ box'[w] = 0 /\ held'[w] = held[w] /\ caller'[w] = caller[w] /\ asked[w] = 0
          /\ caller[w] \notin {"there", "leaving"} /\ asked'[w] \in {0, i}
          /\ PromptIds(w)' = PromptIds(w) /\ PromptIds(w) \subseteq Nat
          /\ typed'[w] = i
          /\ held[w] \in Nat /\ typed[w] \in Nat
      BY <1>0, <1>r DEF SwitchInv, SwitchTypeOK, HookIdle, PromptIds, UserTypes
    <3>2. /\ i > typed[w] /\ runs[w][i] = 0
          /\ held[w] <= typed[w]
      BY <1>0 DEF SwitchInv, SessionInv, FreshInv
    <3>3. \A j \in PromptIds(w) \ {0} : j > typed[w] => runs[w][j] = 0
      BY DEF SwitchInv, SessionInv, FreshInv
    <3>4. asked'[w] = i => runs'[w] = runs[w]
      BY <1>0, <1>r, <3>1
    <3> QED
      BY <1>0, <1>r, <3>1, <3>2, <3>3, <3>4 DEF FreshInv
  <2>4. ReplayInv(w)'
    BY DEF SwitchInv, SwitchTypeOK, SessionInv, ClaimInv, ReplayInv, UserTypes, loop
  <2> QED
    BY <2>1, <2>2, <2>3, <2>4 DEF SessionInv
<1> QED
  BY <1>1, <1>2, <1>3, <1>4 DEF SwitchInv

LEMMA UserEntersKeeps ==
  ASSUME SwitchInv, NEW w \in Wrappers, UserEnters(w), UNCHANGED user
  PROVE  SwitchInv'
<1> DEFINE i == box[w]
<1>0. /\ i \in PromptIds(w) /\ i # 0 /\ SubmitPrompt(w, i)
      /\ claimed[w] \in BOOLEAN /\ box' = [box EXCEPT ![w] = 0]
      /\ i \in Nat /\ box[w] = i
  BY DEF SwitchInv, SwitchTypeOK, PromptIds, UserEnters
<1> HIDE DEF i
<1>r. /\ runs' = [v \in Wrappers |-> runs'[v]]
      /\ \A v \in Wrappers : runs'[v] \in [PromptIds(v)' -> Nat]
      /\ \A v \in Wrappers \ {w} : runs'[v] = runs[v] /\ asked'[v] = asked[v]
      /\ asked' \in [Wrappers -> Nat] /\ asked'[w] \in {asked[w], i}
      /\ server[w] = "down" => asked'[w] = asked[w]
      /\ server[w] # "down" => asked'[w] = i /\ runs'[w] = runs[w]
      /\ \A j \in PromptIds(w) \ {i} : runs'[w][j] = runs[w][j]
  BY <1>0, SubmitsOne DEF SwitchInv
<1>1. SwitchTypeOK'
  <2>1. /\ box' \in [Wrappers -> Nat] /\ typed' \in [Wrappers -> Nat]
        /\ meddled' \subseteq Wrappers
    BY <1>0 DEF SwitchInv, SwitchTypeOK, UserEnters
  <2>2. \A v \in Wrappers :
          /\ held'[v] \in PromptIds(v)' /\ asked'[v] \in PromptIds(v)'
          /\ captured'[v] \in PromptIds(v)'
          /\ box'[v] \in PromptIds(v)' /\ typed'[v] \in PromptIds(v)'
    <3> SUFFICES ASSUME NEW v \in Wrappers
                 PROVE  /\ held'[v] \in PromptIds(v) /\ asked'[v] \in PromptIds(v)
                        /\ captured'[v] \in PromptIds(v)
                        /\ box'[v] \in PromptIds(v) /\ typed'[v] \in PromptIds(v)
      BY DEF PromptIds
    <3>1. 0 \in PromptIds(v)
      BY WrappersAssumption DEF SwitchInv, SwitchTypeOK, PromptIds
    <3>2. asked'[v] \in PromptIds(v)
      BY <1>0, <1>r DEF SwitchInv, SwitchTypeOK
    <3>3. box'[v] \in PromptIds(v) /\ typed'[v] \in PromptIds(v)
      BY <1>0, <3>1 DEF SwitchInv, SwitchTypeOK, UserEnters
    <3> QED
      BY <3>2, <3>3 DEF SwitchInv, SwitchTypeOK, UserEnters, loop
  <2> QED
    BY <1>r, <2>1, <2>2 DEF SwitchInv, SwitchTypeOK, UserEnters, file, loop
<1>2. GuardInv' /\ OwnInv'
  BY SameGuard DEF SwitchInv, UserEnters, file, loop
<1>3. ASSUME NEW v \in Wrappers \ {w}
      PROVE  SessionInv(v)'
  BY <1>r, <1>3, SameSession DEF SwitchInv, SwitchTypeOK, Same, UserEnters, file, loop
<1>4. SessionInv(w)'
  <2>1. ServerInv(w)'
    BY <1>0, <1>r DEF SwitchInv, SwitchTypeOK, SessionInv, ServerInv, ClaimInv, Running, HookIdle,
       UserEnters, loop
  <2>2. ClaimInv(w)'
    BY DEF SwitchInv, SessionInv, ClaimInv, Running, UserEnters, loop
  <2>3. FreshInv(w)'
    <3> SUFFICES ASSUME ~claimed[w]
                 PROVE  FreshInv(w)'
      BY DEF FreshInv, UserEnters
    <3>1. /\ box'[w] = 0 /\ held'[w] = held[w] /\ caller'[w] = caller[w] /\ asked[w] = 0
          /\ caller[w] \notin {"there", "leaving"} /\ asked'[w] \in {0, i}
          /\ PromptIds(w)' = PromptIds(w) /\ PromptIds(w) \subseteq Nat
          /\ typed'[w] = typed[w]
          /\ held[w] \in Nat /\ typed[w] \in Nat
      BY <1>0, <1>r DEF SwitchInv, SwitchTypeOK, HookIdle, PromptIds, UserEnters
    <3>2. /\ i <= typed[w] /\ runs[w][i] = 0
          /\ held[w] <= typed[w]
      BY <1>0 DEF SwitchInv, SessionInv, FreshInv
    <3>3. \A j \in PromptIds(w) \ {0} : j > typed[w] => runs[w][j] = 0
      BY DEF SwitchInv, SessionInv, FreshInv
    <3>4. asked'[w] = i => runs'[w] = runs[w]
      BY <1>0, <1>r, <3>1
    <3> QED
      BY <1>0, <1>r, <3>1, <3>2, <3>3, <3>4 DEF FreshInv
  <2>4. ReplayInv(w)'
    BY DEF SwitchInv, SwitchTypeOK, SessionInv, ClaimInv, ReplayInv, UserEnters, loop
  <2> QED
    BY <2>1, <2>2, <2>3, <2>4 DEF SessionInv
<1> QED
  BY <1>1, <1>2, <1>3, <1>4 DEF SwitchInv

LEMMA ServeKeeps ==
  ASSUME SwitchInv, NEW w \in Wrappers, Serve(w), UNCHANGED user
  PROVE  SwitchInv'
<1>0. /\ asked[w] \in PromptIds(w) /\ asked[w] # 0
      /\ asked' = [asked EXCEPT ![w] = 0]
      /\ claimed[w] => Takes(w, asked[w])
      /\ ~claimed[w] => runs' = runs
      /\ server[w] = "up" /\ caller[w] = "none" /\ held[w] = 0 /\ Running(w)
  BY DEF SwitchInv, SwitchTypeOK, SessionInv, ServerInv, Serve
<1>r. /\ runs' = [v \in Wrappers |-> runs'[v]]
      /\ \A v \in Wrappers : runs'[v] \in [PromptIds(v)' -> Nat]
      /\ \A v \in Wrappers \ {w} : runs'[v] = runs[v]
      /\ claimed[w] => runs'[w][asked[w]] = runs[w][asked[w]] + 1
      /\ claimed[w] => \A j \in PromptIds(w) \ {asked[w]} : runs'[w][j] = runs[w][j]
  <2>1. CASE claimed[w]
    BY <1>0, <2>1, TakesOne DEF SwitchInv
  <2>2. CASE ~claimed[w]
    BY <1>0, <2>2 DEF SwitchInv, SwitchTypeOK, PromptIds
  <2> QED
    BY <2>1, <2>2
<1>1. SwitchTypeOK'
  <2>1. /\ asked' \in [Wrappers -> Nat] /\ held' \in [Wrappers -> Nat]
        /\ \A v \in Wrappers : asked'[v] \in PromptIds(v) /\ held'[v] \in PromptIds(v)
    BY <1>0, PromptNumbers DEF SwitchInv, SwitchTypeOK, Serve
  <2>2. /\ server' \in [Wrappers -> {"up", "routing", "down"}]
        /\ caller' \in [Wrappers -> {"none", "there", "leaving", "gone"}]
        /\ submitted' \in [Wrappers -> BOOLEAN]
    BY DEF SwitchInv, SwitchTypeOK, Serve
  <2> QED
    BY <1>r, <2>1, <2>2 DEF SwitchInv, SwitchTypeOK, PromptIds, Serve, file, agent
<1>2. GuardInv' /\ OwnInv'
  BY SameGuard DEF SwitchInv, Serve
<1>3. ASSUME NEW v \in Wrappers \ {w}
      PROVE  SessionInv(v)'
  BY <1>0, <1>r, <1>3, SameSession DEF SwitchInv, SwitchTypeOK, Same, Serve, agent
<1>4. SessionInv(w)'
  <2>1. ServerInv(w)'
    BY <1>0 DEF SwitchInv, SwitchTypeOK, SessionInv, ServerInv, Running, Serve
  <2>2. ClaimInv(w)'
    BY <1>0 DEF SwitchInv, SwitchTypeOK, SessionInv, ClaimInv, Running, Serve, agent
  <2>3. FreshInv(w)'
    BY <1>0 DEF SwitchInv, SwitchTypeOK, SessionInv, FreshInv, PromptIds, Serve, agent
  <2>4. ReplayInv(w)'
    BY <1>0, <1>r DEF SwitchInv, SwitchTypeOK, SessionInv, ClaimInv, ReplayInv, Serve, agent
  <2> QED
    BY <2>1, <2>2, <2>3, <2>4 DEF SessionInv
<1> QED
  BY <1>1, <1>2, <1>3, <1>4 DEF SwitchInv

LEMMA HangUpKeeps ==
  ASSUME SwitchInv, NEW w \in Wrappers, HangUp(w), UNCHANGED user
  PROVE  SwitchInv'
<1>0. /\ held[w] \in PromptIds(w) /\ held[w] # 0 /\ ~claimed[w] /\ server[w] = "routing"
      /\ asked[w] = 0 /\ box[w] = 0 /\ held[w] <= typed[w]
      /\ runs[w][held[w]] = 0 /\ captured[w] = 0
  BY DEF SwitchInv, SwitchTypeOK, SessionInv, ServerInv, ClaimInv, FreshInv, PromptIds, HangUp
<1>r. LetThrough(w)
  BY DEF HangUp
<1>1. SwitchTypeOK'
  BY <1>r, LetsThrough DEF SwitchInv, SwitchTypeOK, PromptIds, HangUp, file, loop
<1>2. GuardInv' /\ OwnInv'
  BY SameGuard DEF SwitchInv, HangUp, loop
<1>3. ASSUME NEW v \in Wrappers \ {w}
      PROVE  SessionInv(v)'
  BY <1>r, <1>3, LetsThrough, SameSession DEF SwitchInv, SwitchTypeOK, Same, HangUp, loop
<1>4. SessionInv(w)'
  <2>1. ServerInv(w)'
    BY <1>0 DEF SwitchInv, SwitchTypeOK, SessionInv, ServerInv, Running, HangUp, loop
  <2>2. ClaimInv(w)'
    BY DEF SwitchInv, SwitchTypeOK, SessionInv, ClaimInv, Running, HangUp, loop
  <2>3. FreshInv(w)'
    <3>1. /\ PromptIds(w)' = PromptIds(w) /\ PromptIds(w) \subseteq Nat
          /\ typed'[w] = typed[w] /\ held'[w] = held[w] /\ asked'[w] = 0
          /\ caller'[w] = "gone" /\ typed[w] \in Nat /\ held[w] \in Nat
      BY <1>0, PromptNumbers DEF SwitchInv, SwitchTypeOK, PromptIds, HangUp
    <3>2. \A j \in PromptIds(w) \ {0} : j > typed[w] => runs[w][j] = 0
      BY <1>0 DEF SwitchInv, SessionInv, FreshInv
    <3>3. \/ box'[w] = 0 /\ \A j \in PromptIds(w) \ {held[w]} : runs'[w][j] = runs[w][j]
          \/ runs'[w] = runs[w] /\ box'[w] = held[w]
      BY <1>0, <1>r, LetsThrough DEF SwitchInv
    <3> QED
      BY <1>0, <3>1, <3>2, <3>3 DEF FreshInv
  <2>4. ReplayInv(w)'
    BY <1>0 DEF ReplayInv, HangUp, loop
  <2> QED
    BY <2>1, <2>2, <2>3, <2>4 DEF SessionInv
<1> QED
  BY <1>1, <1>2, <1>3, <1>4 DEF SwitchInv

LEMMA RouteFailsKeeps ==
  ASSUME SwitchInv, NEW w \in Wrappers, RouteFails(w), UNCHANGED user
  PROVE  SwitchInv'
<1>0. /\ held[w] \in PromptIds(w) /\ held[w] # 0 /\ ~claimed[w] /\ Running(w)
      /\ captured[w] = 0 /\ phase[w] = "waiting_prompt" /\ ~submitted[w] /\ w \notin confirmed
      /\ caller[w] \in {"there", "leaving", "gone"} /\ held[w] <= typed[w]
      /\ caller[w] # "gone" => asked[w] = 0 /\ box[w] = 0 /\ runs[w][held[w]] = 0
  BY DEF SwitchInv, SwitchTypeOK, SessionInv, ServerInv, ClaimInv, FreshInv, PromptIds,
     Running, Phases, RouteFails
<1>r. IF caller[w] = "gone" THEN UNCHANGED <<runs, box>> ELSE LetThrough(w)
  BY <1>0 DEF RouteFails, LetThrough
<1>b. /\ runs' = [v \in Wrappers |-> runs'[v]]
      /\ \A v \in Wrappers : runs'[v] \in [PromptIds(v)' -> Nat]
      /\ \A v \in Wrappers \ {w} : runs'[v] = runs[v] /\ box'[v] = box[v]
      /\ box' \in [Wrappers -> Nat]
      /\ \A v \in Wrappers : box'[v] \in PromptIds(v)'
  BY <1>r, LetsThrough DEF SwitchInv, SwitchTypeOK, PromptIds
<1>1. SwitchTypeOK'
  <2>1. /\ server' \in [Wrappers -> {"up", "routing", "down"}]
        /\ caller' \in [Wrappers -> {"none", "there", "leaving", "gone"}]
        /\ held' \in [Wrappers -> Nat] /\ \A v \in Wrappers : held'[v] \in PromptIds(v)
    BY PromptNumbers DEF SwitchInv, SwitchTypeOK, RouteFails, Answered
  <2> QED
    BY <1>b, <2>1 DEF SwitchInv, SwitchTypeOK, PromptIds, RouteFails, Answered, file
<1>2. GuardInv' /\ OwnInv'
  BY SameGuard DEF SwitchInv, RouteFails, Answered
<1>3. ASSUME NEW v \in Wrappers \ {w}
      PROVE  SessionInv(v)'
  BY <1>b, <1>3, SameSession DEF SwitchInv, SwitchTypeOK, Same, RouteFails, Answered
<1>4. SessionInv(w)'
  <2>1. ServerInv(w)'
    BY <1>0 DEF SwitchInv, SwitchTypeOK, SessionInv, ServerInv, Running, RouteFails, Answered
  <2>2. ClaimInv(w)'
    BY <1>0 DEF SwitchInv, SwitchTypeOK, SessionInv, ClaimInv, Running, RouteFails, Answered
  <2>3. FreshInv(w)'
    <3>1. /\ PromptIds(w)' = PromptIds(w) /\ PromptIds(w) \subseteq Nat
          /\ typed'[w] = typed[w] /\ held'[w] = 0 /\ asked'[w] = asked[w]
          /\ caller'[w] = "none" /\ typed[w] \in Nat /\ held[w] \in Nat
      BY PromptNumbers DEF SwitchInv, SwitchTypeOK, PromptIds, RouteFails, Answered
    <3>2. /\ \A j \in PromptIds(w) \ {0} :
               /\ j > typed[w] => runs[w][j] = 0
               /\ j \in {box[w], asked[w]} => runs[w][j] = 0
          /\ box[w] <= typed[w] /\ asked[w] <= typed[w] /\ (asked[w] # 0 => box[w] = 0)
      BY <1>0 DEF SwitchInv, SessionInv, FreshInv
    <3>3. CASE caller[w] = "gone"
      <4>1. box'[w] = box[w] /\ runs'[w] = runs[w]
        BY <1>r, <3>3
      <4> QED
        BY <3>1, <3>2, <4>1 DEF FreshInv
    <3>4. CASE caller[w] # "gone"
      <4>1. \/ box'[w] = 0 /\ \A j \in PromptIds(w) \ {held[w]} : runs'[w][j] = runs[w][j]
            \/ runs'[w] = runs[w] /\ box'[w] = held[w]
        BY <1>0, <1>r, <3>4, LetsThrough DEF SwitchInv
      <4> QED
        BY <1>0, <3>1, <3>2, <3>4, <4>1 DEF FreshInv
    <3> QED
      BY <3>3, <3>4
  <2>4. ReplayInv(w)'
    BY <1>0 DEF ReplayInv, RouteFails, Answered
  <2> QED
    BY <2>1, <2>2, <2>3, <2>4 DEF SessionInv
<1> QED
  BY <1>1, <1>2, <1>3, <1>4 DEF SwitchInv

LEMMA BlockKeeps ==
  ASSUME SwitchInv, NEW w \in Wrappers, Block(w), UNCHANGED user
  PROVE  SwitchInv'
<1>0. /\ held[w] \in PromptIds(w) /\ held[w] # 0 /\ ~claimed[w] /\ Running(w)
      /\ captured[w] = 0 /\ phase[w] = "waiting_prompt" /\ ~submitted[w] /\ w \notin confirmed
      /\ caller[w] \in {"there", "leaving", "gone"} /\ held[w] <= typed[w]
      /\ caller[w] # "gone" => asked[w] = 0 /\ box[w] = 0 /\ runs[w][held[w]] = 0
  BY DEF SwitchInv, SwitchTypeOK, SessionInv, ServerInv, ClaimInv, FreshInv, PromptIds,
     Running, Phases, Block
<1>r. IF caller[w] = "gone" THEN UNCHANGED <<runs, box>> ELSE LetThrough(w)
  BY <1>0 DEF Block, LetThrough
<1>b. /\ runs' = [v \in Wrappers |-> runs'[v]]
      /\ \A v \in Wrappers : runs'[v] \in [PromptIds(v)' -> Nat]
      /\ \A v \in Wrappers \ {w} : runs'[v] = runs[v] /\ box'[v] = box[v]
      /\ box' \in [Wrappers -> Nat]
      /\ \A v \in Wrappers : box'[v] \in PromptIds(v)'
  BY <1>r, LetsThrough DEF SwitchInv, SwitchTypeOK, PromptIds
<1>1. SwitchTypeOK'
  <2>1. /\ server' \in [Wrappers -> {"up", "routing", "down"}]
        /\ caller' \in [Wrappers -> {"none", "there", "leaving", "gone"}]
        /\ held' \in [Wrappers -> Nat] /\ \A v \in Wrappers : held'[v] \in PromptIds(v)
    BY PromptNumbers DEF SwitchInv, SwitchTypeOK, Block, Answered
  <2>2. /\ claimed' \in [Wrappers -> BOOLEAN]
        /\ routed' \in [Wrappers -> RoutedModels \cup {Unset}]
        /\ captured' \in [Wrappers -> Nat] /\ \A v \in Wrappers : captured'[v] \in PromptIds(v)
        /\ crossed' \subseteq Wrappers
    BY PromptNumbers DEF SwitchInv, SwitchTypeOK, Block
  <2> QED
    BY <1>b, <2>1, <2>2 DEF SwitchInv, SwitchTypeOK, PromptIds, Block, Answered, file
<1>2. GuardInv' /\ OwnInv'
  BY SameGuard DEF SwitchInv, Block, Answered
<1>3. ASSUME NEW v \in Wrappers \ {w}
      PROVE  SessionInv(v)'
  BY <1>b, <1>3, SameSession DEF SwitchInv, SwitchTypeOK, Same, Block, Answered
<1>4. SessionInv(w)'
  <2>1. ServerInv(w)'
    BY <1>0 DEF SwitchInv, SwitchTypeOK, SessionInv, ServerInv, Running, Block, Answered
  <2>2. ClaimInv(w)'
    BY <1>0, WrappersAssumption DEF SwitchInv, SwitchTypeOK, SessionInv, ClaimInv, Running,
       Block, Answered
  <2>3. FreshInv(w)'
    BY DEF SwitchInv, SwitchTypeOK, FreshInv, Block
  <2>4. ReplayInv(w)'
    <3>1. CASE caller[w] = "there"
      <4>1. UNCHANGED runs
        BY <3>1 DEF Block
      <4> QED
        BY <1>0, <3>1, <4>1 DEF SwitchInv, SwitchTypeOK, ReplayInv, Block, Answered
    <3>2. CASE caller[w] = "leaving"
      BY <3>2 DEF ReplayInv, Block
    <3>3. CASE caller[w] = "gone"
      BY <3>3 DEF SwitchInv, SwitchTypeOK, ReplayInv, Block
    <3> QED
      BY <1>0, <3>1, <3>2, <3>3
  <2> QED
    BY <2>1, <2>2, <2>3, <2>4 DEF SessionInv
<1> QED
  BY <1>1, <1>2, <1>3, <1>4 DEF SwitchInv

-----------------------------------------------------------------------------
(* The guard, the switch and the replay. *)

\* A wrapper that takes its snapshot takes the user's own model, unless a model was
\* left behind.
LEMMA SnapshotsOwn ==
  ASSUME SwitchInv, NEW w \in Wrappers, Snapshot(w), UNCHANGED <<settings, own>>,
         stray' = (stray \/ \E v \in Wrappers : phase[v] = "unwinding"),
         NEW label \in {"switching", "leaving"}, Goes(w, label), phase[w] = "acquiring"
  PROVE  GuardInv' /\ OwnInv'
<1>1. \A v \in Wrappers : before[v] # Unset => phase[v] = "unwinding"
  BY WrappersAssumption DEF SwitchInv, GuardInv, Snapshot
<1>2. /\ guard' = w /\ before'[w] = settings /\ settings # Unset /\ phase'[w] = label
      /\ \A v \in Wrappers \ {w} : before'[v] = before[v] /\ phase'[v] = phase[v]
  BY WrappersAssumption DEF SwitchInv, SwitchTypeOK, Snapshot, Goes, Models
<1>3. GuardInv'
  BY <1>1, <1>2 DEF GuardInv
<1>4. ASSUME ~stray'
      PROVE  \A v \in Wrappers : before[v] = Unset
  BY <1>1, <1>4
<1>5. OwnInv'
  BY <1>2, <1>4 DEF SwitchInv, OwnInv
<1> QED
  BY <1>3, <1>5

\* A wrapper that gives the model back leaves the settings the user's.
LEMMA RestoresOwn ==
  ASSUME SwitchInv, NEW w \in Wrappers, Restore(w), UNCHANGED <<own, stray>>,
         NEW label, Goes(w, label),
         phase[w] \in {"switching", "waiting_persist", "leaving", "unwinding"}
  PROVE  /\ GuardInv' /\ OwnInv'
         /\ settings' \in Models /\ guard' \in Wrappers \cup {Nobody}
         /\ before' \in [Wrappers -> Models \cup {Unset}]
<1>1. /\ before \in [Wrappers -> Models \cup {Unset}] /\ settings \in Models
      /\ phase \in [Wrappers -> Phases \cup Ends] /\ guard \in Wrappers \cup {Nobody}
  BY DEF SwitchInv, SwitchTypeOK
<1>2. \A v \in Wrappers \ {w} : phase'[v] = phase[v]
  BY <1>1 DEF Goes
<1>3. CASE before[w] = Unset
  <2>1. UNCHANGED file /\ guard # w
    BY <1>3, WrappersAssumption DEF SwitchInv, GuardInv, Restore
  <2> QED
    BY <1>1, <1>2, <1>3, <2>1 DEF SwitchInv, GuardInv, OwnInv, file
<1>4. CASE before[w] # Unset
  <2>1. /\ settings' = before[w] /\ before'[w] = Unset
        /\ \A v \in Wrappers \ {w} : before'[v] = before[v]
        /\ before' \in [Wrappers -> Models \cup {Unset}]
        /\ guard' = IF guard = w THEN Nobody ELSE guard
    BY <1>1, <1>4 DEF Restore
  <2>2. GuardInv'
    BY <1>1, <1>2, <2>1, WrappersAssumption DEF SwitchInv, GuardInv
  <2>3. OwnInv'
    BY <1>4, <2>1 DEF SwitchInv, OwnInv
  <2> QED
    BY <1>1, <1>4, <2>1, <2>2, <2>3
<1> QED
  BY <1>3, <1>4

LEMMA BeginKeeps ==
  ASSUME SwitchInv, NEW w \in Wrappers, Begin(w), UNCHANGED user
  PROVE  SwitchInv'
<1>1. SwitchTypeOK'
  <2>1. /\ guard' \in Wrappers \cup {Nobody} /\ before' \in [Wrappers -> Models \cup {Unset}]
        /\ phase' \in [Wrappers -> Phases \cup Ends] /\ command' \in [Wrappers -> Commands]
        /\ stray' \in BOOLEAN
    BY DEF SwitchInv, SwitchTypeOK, Begin, Snapshot, Goes, Phases, Commands
  <2>2. box' \in [Wrappers -> Nat] /\ \A v \in Wrappers : box'[v] \in PromptIds(v)
    BY PromptNumbers DEF SwitchInv, SwitchTypeOK, Begin
  <2> QED
    BY <2>1, <2>2 DEF SwitchInv, SwitchTypeOK, PromptIds, Begin, hook
<1>2. GuardInv' /\ OwnInv'
  BY SnapshotsOwn DEF Begin
<1>3. ASSUME NEW v \in Wrappers \ {w}
      PROVE  SessionInv(v)'
  BY <1>3, SameSession DEF SwitchInv, SwitchTypeOK, Same, Begin, Goes, hook
<1>4. SessionInv(w)'
  <2>1. ServerInv(w)'
    BY DEF SwitchInv, SwitchTypeOK, SessionInv, ServerInv, Running, Phases, Begin, Goes, hook
  <2>2. ClaimInv(w)'
    BY DEF SwitchInv, SwitchTypeOK, SessionInv, ClaimInv, Running, Phases, Begin, Goes, hook
  <2>3. FreshInv(w)'
    BY DEF SwitchInv, SwitchTypeOK, SessionInv, ClaimInv, FreshInv, PromptIds, Phases, Begin,
       Goes, hook
  <2>4. ReplayInv(w)'
    BY DEF SwitchInv, SwitchTypeOK, SessionInv, ClaimInv, ReplayInv, Phases, Begin, Goes, hook
  <2> QED
    BY <2>1, <2>2, <2>3, <2>4 DEF SessionInv
<1> QED
  BY <1>1, <1>2, <1>3, <1>4 DEF SwitchInv

LEMMA SkipSwitchKeeps ==
  ASSUME SwitchInv, NEW w \in Wrappers, SkipSwitch(w), UNCHANGED user
  PROVE  SwitchInv'
<1>1. SwitchTypeOK'
  <2>1. phase' \in [Wrappers -> Phases \cup Ends] /\ box' \in [Wrappers -> Nat]
    BY DEF SwitchInv, SwitchTypeOK, SkipSwitch, Paste, Goes, Phases
  <2>2. \A v \in Wrappers : box'[v] \in PromptIds(v)
    BY DEF SwitchInv, SwitchTypeOK, SkipSwitch, Paste
  <2> QED
    BY <2>1, <2>2 DEF SwitchInv, SwitchTypeOK, PromptIds, SkipSwitch, Paste, Goes, file, hook,
       history
<1>2. GuardInv' /\ OwnInv'
  BY DEF SwitchInv, SwitchTypeOK, GuardInv, OwnInv, SkipSwitch, Paste, Goes, file, hook, history
<1>3. ASSUME NEW v \in Wrappers \ {w}
      PROVE  SessionInv(v)'
  BY <1>3, SameSession DEF SwitchInv, SwitchTypeOK, Same, SkipSwitch, Paste, Goes, file, hook,
     history
<1>4. SessionInv(w)'
  <2>1. ServerInv(w)'
    BY DEF SwitchInv, SwitchTypeOK, SessionInv, ServerInv, Running, Phases, SkipSwitch, Paste,
       Goes, file, hook, history
  <2>2. ClaimInv(w)'
    BY DEF SwitchInv, SwitchTypeOK, SessionInv, ClaimInv, Running, Phases, SkipSwitch, Paste,
       Goes, file, hook, history
  <2>3. FreshInv(w)'
    BY DEF SwitchInv, SwitchTypeOK, SessionInv, ClaimInv, FreshInv, PromptIds, Phases,
       SkipSwitch, Paste, Goes, file, hook, history
  <2>4. ReplayInv(w)'
    BY DEF SwitchInv, SwitchTypeOK, SessionInv, ClaimInv, ReplayInv, Phases, SkipSwitch, Paste,
       Goes, file, hook, history
  <2> QED
    BY <2>1, <2>2, <2>3, <2>4 DEF SessionInv
<1> QED
  BY <1>1, <1>2, <1>3, <1>4 DEF SwitchInv

LEMMA AfterEscapeKeeps ==
  ASSUME SwitchInv, NEW w \in Wrappers, AfterEscape(w), UNCHANGED user
  PROVE  SwitchInv'
<1>1. SwitchTypeOK'
  <2>1. phase' \in [Wrappers -> Phases \cup Ends] /\ box' \in [Wrappers -> Nat]
    BY DEF SwitchInv, SwitchTypeOK, AfterEscape, Paste, Goes, Phases
  <2>2. \A v \in Wrappers : box'[v] \in PromptIds(v)
    BY DEF SwitchInv, SwitchTypeOK, AfterEscape, Paste
  <2> QED
    BY <2>1, <2>2 DEF SwitchInv, SwitchTypeOK, PromptIds, AfterEscape, Paste, Goes, file, hook,
       history
<1>2. GuardInv' /\ OwnInv'
  BY DEF SwitchInv, SwitchTypeOK, GuardInv, OwnInv, AfterEscape, Paste, Goes, file, hook, history
<1>3. ASSUME NEW v \in Wrappers \ {w}
      PROVE  SessionInv(v)'
  BY <1>3, SameSession DEF SwitchInv, SwitchTypeOK, Same, AfterEscape, Paste, Goes, file, hook,
     history
<1>4. SessionInv(w)'
  <2>1. ServerInv(w)'
    BY DEF SwitchInv, SwitchTypeOK, SessionInv, ServerInv, Running, Phases, AfterEscape, Paste,
       Goes, file, hook, history
  <2>2. ClaimInv(w)'
    BY DEF SwitchInv, SwitchTypeOK, SessionInv, ClaimInv, Running, Phases, AfterEscape, Paste,
       Goes, file, hook, history
  <2>3. FreshInv(w)'
    BY DEF SwitchInv, SwitchTypeOK, SessionInv, ClaimInv, FreshInv, PromptIds, Phases,
       AfterEscape, Paste, Goes, file, hook, history
  <2>4. ReplayInv(w)'
    BY DEF SwitchInv, SwitchTypeOK, SessionInv, ClaimInv, ReplayInv, Phases, AfterEscape, Paste,
       Goes, file, hook, history
  <2> QED
    BY <2>1, <2>2, <2>3, <2>4 DEF SessionInv
<1> QED
  BY <1>1, <1>2, <1>3, <1>4 DEF SwitchInv

LEMMA PersistedKeeps ==
  ASSUME SwitchInv, NEW w \in Wrappers, Persisted(w), UNCHANGED user
  PROVE  SwitchInv'
<1>g. /\ GuardInv' /\ OwnInv'
      /\ settings' \in Models /\ guard' \in Wrappers \cup {Nobody}
      /\ before' \in [Wrappers -> Models \cup {Unset}]
  BY RestoresOwn DEF Persisted, Paste, history
<1>1. SwitchTypeOK'
  <2>1. phase' \in [Wrappers -> Phases \cup Ends] /\ box' \in [Wrappers -> Nat]
    BY DEF SwitchInv, SwitchTypeOK, Persisted, Paste, Goes, Phases
  <2>2. \A v \in Wrappers : box'[v] \in PromptIds(v)
    BY DEF SwitchInv, SwitchTypeOK, Persisted, Paste
  <2> QED
    BY <1>g, <2>1, <2>2 DEF SwitchInv, SwitchTypeOK, PromptIds, Persisted, Paste, Goes, hook,
       history
<1>2. GuardInv' /\ OwnInv'
  BY <1>g
<1>3. ASSUME NEW v \in Wrappers \ {w}
      PROVE  SessionInv(v)'
  BY <1>3, SameSession DEF SwitchInv, SwitchTypeOK, Same, Persisted, Paste, Goes, hook, history
<1>4. SessionInv(w)'
  <2>1. ServerInv(w)'
    BY DEF SwitchInv, SwitchTypeOK, SessionInv, ServerInv, Running, Phases, Persisted, Paste,
       Goes, hook, history
  <2>2. ClaimInv(w)'
    BY DEF SwitchInv, SwitchTypeOK, SessionInv, ClaimInv, Running, Phases, Persisted, Paste,
       Goes, hook, history
  <2>3. FreshInv(w)'
    BY DEF SwitchInv, SwitchTypeOK, SessionInv, ClaimInv, FreshInv, PromptIds, Phases,
       Persisted, Paste, Goes, hook, history
  <2>4. ReplayInv(w)'
    BY DEF SwitchInv, SwitchTypeOK, SessionInv, ClaimInv, ReplayInv, Phases, Persisted, Paste,
       Goes, hook, history
  <2> QED
    BY <2>1, <2>2, <2>3, <2>4 DEF SessionInv
<1> QED
  BY <1>1, <1>2, <1>3, <1>4 DEF SwitchInv

LEMMA SwitchTimesOutKeeps ==
  ASSUME SwitchInv, NEW w \in Wrappers, SwitchTimesOut(w), UNCHANGED user
  PROVE  SwitchInv'
<1>g. /\ GuardInv' /\ OwnInv'
      /\ settings' \in Models /\ guard' \in Wrappers \cup {Nobody}
      /\ before' \in [Wrappers -> Models \cup {Unset}]
  BY RestoresOwn DEF SwitchTimesOut, history
<1>1. SwitchTypeOK'
  <2>1. phase' \in [Wrappers -> Phases \cup Ends] /\ command' \in [Wrappers -> Commands]
    BY DEF SwitchInv, SwitchTypeOK, SwitchTimesOut, Escape, Goes, Phases, Commands
  <2> QED
    BY <1>g, <2>1 DEF SwitchInv, SwitchTypeOK, PromptIds, SwitchTimesOut, Escape, Goes, hook,
       history
<1>2. GuardInv' /\ OwnInv'
  BY <1>g
<1>3. ASSUME NEW v \in Wrappers \ {w}
      PROVE  SessionInv(v)'
  BY <1>3, SameSession DEF SwitchInv, SwitchTypeOK, Same, SwitchTimesOut, Escape, Goes, hook,
     history
<1>4. SessionInv(w)'
  <2>1. ServerInv(w)'
    BY DEF SwitchInv, SwitchTypeOK, SessionInv, ServerInv, Running, Phases, SwitchTimesOut,
       Escape, Goes, hook, history
  <2>2. ClaimInv(w)'
    BY DEF SwitchInv, SwitchTypeOK, SessionInv, ClaimInv, Running, Phases, SwitchTimesOut,
       Escape, Goes, hook, history
  <2>3. FreshInv(w)'
    BY DEF SwitchInv, SwitchTypeOK, SessionInv, ClaimInv, FreshInv, PromptIds, Phases,
       SwitchTimesOut, Escape, Goes, hook, history
  <2>4. ReplayInv(w)'
    BY DEF SwitchInv, SwitchTypeOK, SessionInv, ClaimInv, ReplayInv, Phases, SwitchTimesOut,
       Escape, Goes, hook, history
  <2> QED
    BY <2>1, <2>2, <2>3, <2>4 DEF SessionInv
<1> QED
  BY <1>1, <1>2, <1>3, <1>4 DEF SwitchInv

LEMMA PressEnterKeeps ==
  ASSUME SwitchInv, NEW w \in Wrappers, PressEnter(w), UNCHANGED user
  PROVE  SwitchInv'
<1>0. /\ captured[w] # 0 /\ claimed[w] /\ server[w] = "up" /\ box[w] \in PromptIds(w)
      /\ Running(w) /\ phase[w] \in {"pasting", "verifying"} /\ box[w] \in Nat
      /\ phase'[w] = "verifying" /\ \A v \in Wrappers \ {w} : phase'[v] = phase[v]
      /\ phase' \in [Wrappers -> Phases \cup Ends]
  BY DEF SwitchInv, SwitchTypeOK, SessionInv, ClaimInv, Phases, PressEnter, Goes
<1>r. /\ runs' = runs /\ asked' \in [Wrappers -> Nat] /\ box' \in [Wrappers -> Nat]
      /\ \A v \in Wrappers \ {w} : asked'[v] = asked[v] /\ box'[v] = box[v]
      /\ \A v \in Wrappers : asked'[v] \in PromptIds(v) /\ box'[v] \in PromptIds(v)
      /\ \/ box[w] # 0 /\ HookIdle(w) /\ asked'[w] = box[w] /\ box'[w] = 0
         \/ /\ box[w] # 0 => user[w].interferes \/ ~HookIdle(w)
            /\ asked'[w] = asked[w] /\ box'[w] = box[w]
  <2>1. CASE box[w] # 0 /\ HookIdle(w) /\ SubmitPrompt(w, box[w]) /\ box' = [box EXCEPT ![w] = 0]
    <3>1. runs' = runs /\ asked' = [asked EXCEPT ![w] = box[w]]
      BY <1>0, <2>1 DEF SubmitPrompt
    <3> QED
      BY <1>0, <2>1, <3>1, PromptNumbers DEF SwitchInv, SwitchTypeOK
  <2>2. CASE /\ box[w] # 0 => user[w].interferes \/ ~HookIdle(w)
             /\ UNCHANGED <<asked, runs, box>>
    BY <2>2 DEF SwitchInv, SwitchTypeOK
  <2> QED
    BY <2>1, <2>2 DEF PressEnter, Enter
<1>1. SwitchTypeOK'
  <2>1. attempts' \in [Wrappers -> 0 .. MAX_SUBMIT_ATTEMPTS]
    BY DEF SwitchInv, SwitchTypeOK, PressEnter, MAX_SUBMIT_ATTEMPTS
  <2> QED
    BY <1>0, <1>r, <2>1 DEF SwitchInv, SwitchTypeOK, PromptIds, PressEnter, file
<1>2. GuardInv' /\ OwnInv'
  <2>1. guard # w /\ before[w] = Unset /\ guard \in Wrappers \cup {Nobody}
    BY <1>0, WrappersAssumption DEF SwitchInv, SwitchTypeOK, GuardInv
  <2>2. GuardInv'
    BY <1>0, <2>1 DEF SwitchInv, GuardInv, PressEnter, file
  <2>3. OwnInv'
    BY DEF SwitchInv, OwnInv, PressEnter, file
  <2> QED
    BY <2>2, <2>3
<1>3. ASSUME NEW v \in Wrappers \ {w}
      PROVE  SessionInv(v)'
  BY <1>0, <1>r, <1>3, SameSession DEF SwitchInv, Same, PressEnter
<1>4. SessionInv(w)'
  <2>1. ServerInv(w)'
    BY <1>0, <1>r DEF SwitchInv, SessionInv, ServerInv, HookIdle, Running, Phases, PressEnter
  <2>2. ClaimInv(w)'
    BY <1>0, <1>r DEF SwitchInv, SessionInv, ClaimInv, Running, Phases, PressEnter
  <2>3. FreshInv(w)'
    BY <1>0 DEF FreshInv, PressEnter
  <2>4. ReplayInv(w)'
    BY <1>0, <1>r DEF SwitchInv, SessionInv, ServerInv, ClaimInv, ReplayInv, HookIdle, PressEnter
  <2> QED
    BY <2>1, <2>2, <2>3, <2>4 DEF SessionInv
<1> QED
  BY <1>1, <1>2, <1>3, <1>4 DEF SwitchInv

LEMMA EnterAgainKeeps ==
  ASSUME SwitchInv, NEW w \in Wrappers, EnterAgain(w), UNCHANGED user
  PROVE  SwitchInv'
<1>0. /\ captured[w] # 0 /\ claimed[w] /\ server[w] = "up" /\ box[w] \in PromptIds(w)
      /\ Running(w) /\ phase[w] \in {"pasting", "verifying"} /\ box[w] \in Nat
      /\ phase'[w] = "verifying" /\ \A v \in Wrappers \ {w} : phase'[v] = phase[v]
      /\ phase' \in [Wrappers -> Phases \cup Ends]
  BY DEF SwitchInv, SwitchTypeOK, SessionInv, ClaimInv, Phases, EnterAgain
<1>r. /\ runs' = runs /\ asked' \in [Wrappers -> Nat] /\ box' \in [Wrappers -> Nat]
      /\ \A v \in Wrappers \ {w} : asked'[v] = asked[v] /\ box'[v] = box[v]
      /\ \A v \in Wrappers : asked'[v] \in PromptIds(v) /\ box'[v] \in PromptIds(v)
      /\ \/ box[w] # 0 /\ HookIdle(w) /\ asked'[w] = box[w] /\ box'[w] = 0
         \/ /\ box[w] # 0 => user[w].interferes \/ ~HookIdle(w)
            /\ asked'[w] = asked[w] /\ box'[w] = box[w]
  <2>1. CASE box[w] # 0 /\ HookIdle(w) /\ SubmitPrompt(w, box[w]) /\ box' = [box EXCEPT ![w] = 0]
    <3>1. runs' = runs /\ asked' = [asked EXCEPT ![w] = box[w]]
      BY <1>0, <2>1 DEF SubmitPrompt
    <3> QED
      BY <1>0, <2>1, <3>1, PromptNumbers DEF SwitchInv, SwitchTypeOK
  <2>2. CASE /\ box[w] # 0 => user[w].interferes \/ ~HookIdle(w)
             /\ UNCHANGED <<asked, runs, box>>
    BY <2>2 DEF SwitchInv, SwitchTypeOK
  <2> QED
    BY <2>1, <2>2 DEF EnterAgain, Enter
<1>1. SwitchTypeOK'
  <2>1. attempts' \in [Wrappers -> 0 .. MAX_SUBMIT_ATTEMPTS]
    BY DEF SwitchInv, SwitchTypeOK, EnterAgain, MAX_SUBMIT_ATTEMPTS
  <2> QED
    BY <1>0, <1>r, <2>1 DEF SwitchInv, SwitchTypeOK, PromptIds, EnterAgain, file
<1>2. GuardInv' /\ OwnInv'
  <2>1. guard # w /\ before[w] = Unset /\ guard \in Wrappers \cup {Nobody}
    BY <1>0, WrappersAssumption DEF SwitchInv, SwitchTypeOK, GuardInv
  <2>2. GuardInv'
    BY <1>0, <2>1 DEF SwitchInv, GuardInv, EnterAgain, file
  <2>3. OwnInv'
    BY DEF SwitchInv, OwnInv, EnterAgain, file
  <2> QED
    BY <2>2, <2>3
<1>3. ASSUME NEW v \in Wrappers \ {w}
      PROVE  SessionInv(v)'
  BY <1>0, <1>r, <1>3, SameSession DEF SwitchInv, Same, EnterAgain
<1>4. SessionInv(w)'
  <2>1. ServerInv(w)'
    BY <1>0, <1>r DEF SwitchInv, SessionInv, ServerInv, HookIdle, Running, Phases, EnterAgain
  <2>2. ClaimInv(w)'
    BY <1>0, <1>r DEF SwitchInv, SessionInv, ClaimInv, Running, Phases, EnterAgain
  <2>3. FreshInv(w)'
    BY <1>0 DEF FreshInv, EnterAgain
  <2>4. ReplayInv(w)'
    BY <1>0, <1>r DEF SwitchInv, SessionInv, ServerInv, ClaimInv, ReplayInv, HookIdle, EnterAgain
  <2> QED
    BY <2>1, <2>2, <2>3, <2>4 DEF SessionInv
<1> QED
  BY <1>1, <1>2, <1>3, <1>4 DEF SwitchInv

-----------------------------------------------------------------------------
(* The ends. *)

\* What is left of a session whose loop is over.
Closing(w, label) ==
  /\ phase' \in [Wrappers -> Phases \cup Ends]
  /\ server' \in [Wrappers -> {"up", "routing", "down"}]
  /\ caller' \in [Wrappers -> {"none", "there", "leaving", "gone"}]
  /\ claimed' \in [Wrappers -> BOOLEAN] /\ submitted' \in [Wrappers -> BOOLEAN]
  /\ shown' \in [Wrappers -> BOOLEAN]
  /\ routed' = routed /\ own' = own /\ choices' = choices
  /\ attempts' \in [Wrappers -> 0 .. MAX_SUBMIT_ATTEMPTS]
  /\ held' \in [Wrappers -> Nat] /\ asked' \in [Wrappers -> Nat]
  /\ captured' \in [Wrappers -> Nat]
  /\ box' \in [Wrappers -> Nat] /\ typed' \in [Wrappers -> Nat]
  /\ \A v \in Wrappers :
       /\ held'[v] \in PromptIds(v)' /\ asked'[v] \in PromptIds(v)'
       /\ captured'[v] \in PromptIds(v)'
       /\ box'[v] \in PromptIds(v)' /\ typed'[v] \in PromptIds(v)'
  /\ runs' = [v \in Wrappers |-> runs'[v]]
  /\ \A v \in Wrappers : runs'[v] \in [PromptIds(v)' -> Nat]
  /\ meddled' \subseteq Wrappers /\ crossed' \subseteq Wrappers /\ confirmed' \subseteq Wrappers
  /\ \A v \in Wrappers \ {w} :
       /\ phase'[v] = phase[v] /\ server'[v] = server[v] /\ caller'[v] = caller[v]
       /\ held'[v] = held[v] /\ asked'[v] = asked[v] /\ claimed'[v] = claimed[v]
       /\ captured'[v] = captured[v] /\ routed'[v] = routed[v]
       /\ submitted'[v] = submitted[v] /\ box'[v] = box[v] /\ typed'[v] = typed[v]
       /\ runs'[v] = runs[v]
       /\ v \in meddled' <=> v \in meddled
       /\ v \in crossed' <=> v \in crossed
       /\ v \in confirmed' <=> v \in confirmed
  /\ phase'[w] = label /\ server'[w] = "down" /\ caller'[w] = "none"
  /\ held'[w] = 0 /\ asked'[w] = 0 /\ ~claimed'[w] /\ captured'[w] = 0
  /\ ~submitted'[w] /\ box'[w] = 0 /\ typed'[w] = 0
  /\ \A i \in PromptIds(w) : runs'[w][i] = 0
  /\ w \notin confirmed'

LEMMA ClosesOne ==
  ASSUME SwitchTypeOK, NEW w \in Wrappers, NEW label \in Ends, Close(w, label), UNCHANGED user
  PROVE  Closing(w, label)
<1>1. /\ phase' \in [Wrappers -> Phases \cup Ends]
      /\ server' \in [Wrappers -> {"up", "routing", "down"}]
      /\ caller' \in [Wrappers -> {"none", "there", "leaving", "gone"}]
      /\ claimed' \in [Wrappers -> BOOLEAN] /\ submitted' \in [Wrappers -> BOOLEAN]
      /\ shown' \in [Wrappers -> BOOLEAN]
      /\ attempts' \in [Wrappers -> 0 .. MAX_SUBMIT_ATTEMPTS]
  BY DEF SwitchTypeOK, Close, Goes, MAX_SUBMIT_ATTEMPTS
<1>2. /\ held' \in [Wrappers -> Nat] /\ asked' \in [Wrappers -> Nat]
      /\ captured' \in [Wrappers -> Nat]
      /\ box' \in [Wrappers -> Nat] /\ typed' \in [Wrappers -> Nat]
  BY DEF SwitchTypeOK, Close
<1>3. /\ phase'[w] = label /\ server'[w] = "down" /\ caller'[w] = "none"
      /\ held'[w] = 0 /\ asked'[w] = 0 /\ ~claimed'[w] /\ captured'[w] = 0
      /\ ~submitted'[w] /\ box'[w] = 0 /\ typed'[w] = 0
      /\ w \notin confirmed'
      /\ meddled' \subseteq Wrappers /\ crossed' \subseteq Wrappers /\ confirmed' \subseteq Wrappers
      /\ routed' = routed /\ own' = own /\ choices' = choices
  BY DEF SwitchTypeOK, Close, Goes
<1>4. ASSUME NEW v \in Wrappers \ {w}
      PROVE  /\ phase'[v] = phase[v] /\ server'[v] = server[v] /\ caller'[v] = caller[v]
             /\ held'[v] = held[v] /\ asked'[v] = asked[v] /\ claimed'[v] = claimed[v]
             /\ captured'[v] = captured[v] /\ routed'[v] = routed[v]
             /\ submitted'[v] = submitted[v] /\ box'[v] = box[v] /\ typed'[v] = typed[v]
             /\ v \in meddled' <=> v \in meddled
             /\ v \in crossed' <=> v \in crossed
             /\ v \in confirmed' <=> v \in confirmed
  BY <1>4 DEF SwitchTypeOK, Close, Goes
<1>5. \A v \in Wrappers : PromptIds(v)' = PromptIds(v)
  BY DEF PromptIds
<1>6. \A v \in Wrappers :
        /\ held'[v] \in PromptIds(v)' /\ asked'[v] \in PromptIds(v)'
        /\ captured'[v] \in PromptIds(v)'
        /\ box'[v] \in PromptIds(v)' /\ typed'[v] \in PromptIds(v)'
  BY <1>3, <1>4, <1>5, PromptNumbers DEF SwitchTypeOK
<1>7. /\ runs' = [v \in Wrappers |-> IF v = w THEN [i \in PromptIds(w) |-> 0] ELSE runs[v]]
      /\ \A v \in Wrappers : runs[v] \in [PromptIds(v) -> Nat]
  <2>1. /\ runs = [v \in Wrappers |-> runs[v]] /\ runs[w] \in [PromptIds(w) -> Nat]
        /\ runs' = [runs EXCEPT ![w] = [i \in DOMAIN runs[w] |-> 0]]
        /\ \A v \in Wrappers : runs[v] \in [PromptIds(v) -> Nat]
    BY DEF SwitchTypeOK, Close
  <2>2. DOMAIN runs[w] = PromptIds(w)
    BY <2>1
  <2> QED
    BY <2>1, <2>2
<1> DEFINE none == [i \in PromptIds(w) |-> 0]
<1>8. none \in [PromptIds(w) -> Nat] /\ \A i \in PromptIds(w) : none[i] = 0
  OBVIOUS
<1> HIDE DEF none
<1>9. /\ runs' = [v \in Wrappers |-> runs'[v]] /\ runs'[w] = none
      /\ \A v \in Wrappers \ {w} : runs'[v] = runs[v]
  BY <1>7 DEF none
<1>10. \A v \in Wrappers : runs'[v] \in [PromptIds(v)' -> Nat]
  BY <1>5, <1>7, <1>8, <1>9
<1> QED
  BY <1>1, <1>2, <1>3, <1>4, <1>6, <1>8, <1>9, <1>10 DEF Closing

LEMMA ClosedSession ==
  ASSUME NEW w \in Wrappers, NEW label \in Ends, Closing(w, label),
         command'[w] # "none" => routed'[w] # Unset, PromptIds(w)' = PromptIds(w)
  PROVE  SessionInv(w)'
<1>1. ServerInv(w)' /\ ClaimInv(w)'
  BY DEF ServerInv, ClaimInv, Running, Phases, Ends, Closing
<1>2. FreshInv(w)'
  BY DEF FreshInv, Closing
<1>3. ReplayInv(w)'
  BY DEF ReplayInv, Closing
<1> QED
  BY <1>1, <1>2, <1>3 DEF SessionInv

LEMMA LoopEndsKeeps ==
  ASSUME SwitchInv, NEW w \in Wrappers, LoopEnds(w), UNCHANGED user
  PROVE  SwitchInv'
<1>e. "leaving" \in Ends
  BY DEF Ends
<1>c. Closing(w, "leaving")
  BY <1>e, ClosesOne DEF SwitchInv, LoopEnds
<1>1. SwitchTypeOK'
  BY <1>c DEF SwitchInv, SwitchTypeOK, Closing, LoopEnds, file
<1>2. GuardInv' /\ OwnInv'
  <2>1. phase'[w] = "leaving" /\ (\A v \in Wrappers \ {w} : phase'[v] = phase[v])
        /\ phase[w] # "unwinding" /\ UNCHANGED <<settings, guard, before, own, stray>>
    BY <1>c DEF Closing, LoopEnds, Running, Phases, file
  <2>2. GuardInv'
    BY <2>1, WrappersAssumption DEF SwitchInv, SwitchTypeOK, GuardInv
  <2>3. OwnInv'
    BY <2>1 DEF SwitchInv, OwnInv
  <2> QED
    BY <2>2, <2>3
<1>3. ASSUME NEW v \in Wrappers \ {w}
      PROVE  SessionInv(v)'
  <2>1. Same(v)
    BY <1>3, <1>c DEF Closing, Same, LoopEnds
  <2> QED
    BY <2>1, <1>3, SameSession DEF SwitchInv
<1>4. SessionInv(w)'
  <2>1. (command'[w] # "none" => routed'[w] # Unset) /\ PromptIds(w)' = PromptIds(w)
    BY <1>c DEF SwitchInv, SwitchTypeOK, SessionInv, ClaimInv, PromptIds, Closing, LoopEnds
  <2> QED
    BY <1>e, <1>c, <2>1, ClosedSession
<1> QED
  BY <1>1, <1>2, <1>3, <1>4 DEF SwitchInv

LEMMA BeginInVainKeeps ==
  ASSUME SwitchInv, NEW w \in Wrappers, BeginInVain(w), UNCHANGED user
  PROVE  SwitchInv'
<1>e. "leaving" \in Ends
  BY DEF Ends
<1>c. Closing(w, "leaving")
  BY <1>e, ClosesOne DEF SwitchInv, BeginInVain
<1>1. SwitchTypeOK'
  <2>1. /\ guard' \in Wrappers \cup {Nobody} /\ before' \in [Wrappers -> Models \cup {Unset}]
        /\ stray' \in BOOLEAN
    BY DEF SwitchInv, SwitchTypeOK, BeginInVain, Snapshot
  <2> QED
    BY <1>c, <2>1 DEF SwitchInv, SwitchTypeOK, Closing, BeginInVain
<1>2. GuardInv' /\ OwnInv'
  BY SnapshotsOwn DEF BeginInVain, Close
<1>3. ASSUME NEW v \in Wrappers \ {w}
      PROVE  SessionInv(v)'
  <2>1. Same(v)
    BY <1>3, <1>c DEF Closing, Same, BeginInVain
  <2> QED
    BY <2>1, <1>3, SameSession DEF SwitchInv
<1>4. SessionInv(w)'
  <2>1. (command'[w] # "none" => routed'[w] # Unset) /\ PromptIds(w)' = PromptIds(w)
    BY <1>c DEF SwitchInv, SwitchTypeOK, SessionInv, ClaimInv, PromptIds, Closing, BeginInVain
  <2> QED
    BY <1>e, <1>c, <2>1, ClosedSession
<1> QED
  BY <1>1, <1>2, <1>3, <1>4 DEF SwitchInv

LEMMA LoopRaisesKeeps ==
  ASSUME SwitchInv, NEW w \in Wrappers, LoopRaises(w), UNCHANGED user
  PROVE  SwitchInv'
<1>e. "unwinding" \in Ends
  BY DEF Ends
<1>c. Closing(w, "unwinding")
  BY <1>e, ClosesOne DEF SwitchInv, LoopRaises
<1>1. SwitchTypeOK'
  <2>1. guard' \in Wrappers \cup {Nobody}
    BY DEF SwitchInv, SwitchTypeOK, LoopRaises, RestoreFails
  <2> QED
    BY <1>c, <2>1 DEF SwitchInv, SwitchTypeOK, Closing, LoopRaises, RestoreFails
<1>2. GuardInv' /\ OwnInv'
  <2>1. phase'[w] = "unwinding" /\ (\A v \in Wrappers \ {w} : phase'[v] = phase[v])
        /\ UNCHANGED <<settings, before, own, stray>>
        /\ guard' = IF guard = w THEN Nobody ELSE guard
    BY <1>c DEF Closing, LoopRaises, RestoreFails
  <2>2. GuardInv'
    BY <2>1, WrappersAssumption DEF SwitchInv, SwitchTypeOK, GuardInv
  <2>3. OwnInv'
    BY <2>1 DEF SwitchInv, OwnInv
  <2> QED
    BY <2>2, <2>3
<1>3. ASSUME NEW v \in Wrappers \ {w}
      PROVE  SessionInv(v)'
  <2>1. Same(v)
    BY <1>3, <1>c DEF Closing, Same, LoopRaises
  <2> QED
    BY <2>1, <1>3, SameSession DEF SwitchInv
<1>4. SessionInv(w)'
  <2>1. (command'[w] # "none" => routed'[w] # Unset) /\ PromptIds(w)' = PromptIds(w)
    BY <1>c DEF SwitchInv, SwitchTypeOK, SessionInv, ClaimInv, PromptIds, Closing, LoopRaises
  <2> QED
    BY <1>e, <1>c, <2>1, ClosedSession
<1> QED
  BY <1>1, <1>2, <1>3, <1>4 DEF SwitchInv

LEMMA KillKeeps ==
  ASSUME SwitchInv, NEW w \in Wrappers, Kill(w), UNCHANGED user
  PROVE  SwitchInv'
<1>e. "killed" \in Ends
  BY DEF Ends
<1>c. Closing(w, "killed")
  BY <1>e, ClosesOne DEF SwitchInv, Kill
<1>1. SwitchTypeOK'
  <2>1. guard' \in Wrappers \cup {Nobody} /\ before' \in [Wrappers -> Models \cup {Unset}]
        /\ stray' \in BOOLEAN
    BY DEF SwitchInv, SwitchTypeOK, Kill
  <2> QED
    BY <1>c, <2>1 DEF SwitchInv, SwitchTypeOK, Closing, Kill
<1>2. GuardInv' /\ OwnInv'
  <2>1. phase'[w] = "killed" /\ (\A v \in Wrappers \ {w} : phase'[v] = phase[v])
        /\ UNCHANGED <<settings, own>>
        /\ guard' = (IF guard = w THEN Nobody ELSE guard)
        /\ before'[w] = Unset /\ (\A v \in Wrappers \ {w} : before'[v] = before[v])
        /\ stray' = (stray \/ before[w] # Unset)
    BY <1>c DEF SwitchInv, SwitchTypeOK, Closing, Kill
  <2>2. GuardInv'
    BY <2>1, WrappersAssumption DEF SwitchInv, SwitchTypeOK, GuardInv
  <2>3. OwnInv'
    BY <2>1 DEF SwitchInv, OwnInv
  <2> QED
    BY <2>2, <2>3
<1>3. ASSUME NEW v \in Wrappers \ {w}
      PROVE  SessionInv(v)'
  <2>1. Same(v)
    BY <1>3, <1>c DEF Closing, Same, Kill
  <2> QED
    BY <2>1, <1>3, SameSession DEF SwitchInv
<1>4. SessionInv(w)'
  <2>1. (command'[w] # "none" => routed'[w] # Unset) /\ PromptIds(w)' = PromptIds(w)
    BY <1>c DEF SwitchInv, SwitchTypeOK, SessionInv, ClaimInv, PromptIds, Closing, Kill
  <2> QED
    BY <1>e, <1>c, <2>1, ClosedSession
<1> QED
  BY <1>1, <1>2, <1>3, <1>4 DEF SwitchInv

LEMMA LeaveKeeps ==
  ASSUME SwitchInv, NEW w \in Wrappers, Leave(w), UNCHANGED user
  PROVE  SwitchInv'
<1>g. /\ GuardInv' /\ OwnInv'
      /\ settings' \in Models /\ guard' \in Wrappers \cup {Nobody}
      /\ before' \in [Wrappers -> Models \cup {Unset}]
  BY RestoresOwn DEF Leave, history
<1>1. SwitchTypeOK'
  <2>1. phase' \in [Wrappers -> Phases \cup Ends]
    BY DEF SwitchInv, SwitchTypeOK, Leave, Goes, Ends
  <2> QED
    BY <1>g, <2>1 DEF SwitchInv, SwitchTypeOK, PromptIds, Leave, Goes, hook, agent, history
<1>2. GuardInv' /\ OwnInv'
  BY <1>g
<1>3. ASSUME NEW v \in Wrappers \ {w}
      PROVE  SessionInv(v)'
  BY <1>3, SameSession DEF SwitchInv, SwitchTypeOK, Same, Leave, Goes, hook, agent, history
<1>4. SessionInv(w)'
  <2>0. phase'[w] = "over" /\ phase[w] \in {"leaving", "unwinding"}
    BY DEF SwitchInv, SwitchTypeOK, Leave, Goes, hook, agent, history
  <2>1. ServerInv(w)'
    BY <2>0 DEF SwitchInv, SessionInv, ServerInv, Running, Phases, Leave, Goes, hook, agent,
       history
  <2>2. ClaimInv(w)'
    BY <2>0 DEF SwitchInv, SessionInv, ClaimInv, Running, Phases, Leave, Goes, hook, agent,
       history
  <2>3. FreshInv(w)'
    BY DEF SwitchInv, SessionInv, FreshInv, PromptIds, Leave, Goes, hook, agent, history
  <2>4. ReplayInv(w)'
    BY <2>0 DEF SwitchInv, SessionInv, ClaimInv, ReplayInv, Running, Phases, Leave, Goes, hook,
       agent, history
  <2> QED
    BY <2>1, <2>2, <2>3, <2>4 DEF SessionInv
<1> QED
  BY <1>1, <1>2, <1>3, <1>4 DEF SwitchInv

LEMMA LeaveFailsKeeps ==
  ASSUME SwitchInv, NEW w \in Wrappers, LeaveFails(w), UNCHANGED user
  PROVE  SwitchInv'
<1>1. SwitchTypeOK'
  <2>1. phase' \in [Wrappers -> Phases \cup Ends]
    BY DEF SwitchInv, SwitchTypeOK, LeaveFails, Goes, Ends
  <2>2. guard' \in Wrappers \cup {Nobody} /\ before' \in [Wrappers -> Models \cup {Unset}]
        /\ stray' \in BOOLEAN
    BY DEF SwitchInv, SwitchTypeOK, LeaveFails
  <2> QED
    BY <2>1, <2>2 DEF SwitchInv, SwitchTypeOK, PromptIds, LeaveFails, Goes, hook, agent
<1>2. GuardInv' /\ OwnInv'
  <2>1. OwnInv'
    BY DEF OwnInv, LeaveFails
  <2>2. /\ before'[w] = Unset /\ \A v \in Wrappers \ {w} : before'[v] = before[v]
        /\ \A v \in Wrappers \ {w} : phase'[v] = phase[v]
        /\ guard' = (IF guard = w THEN Nobody ELSE guard)
    BY DEF SwitchInv, SwitchTypeOK, LeaveFails, Goes
  <2>3. GuardInv'
    BY <2>2, WrappersAssumption DEF SwitchInv, SwitchTypeOK, GuardInv
  <2> QED
    BY <2>1, <2>3
<1>3. ASSUME NEW v \in Wrappers \ {w}
      PROVE  SessionInv(v)'
  BY <1>3, SameSession DEF SwitchInv, SwitchTypeOK, Same, LeaveFails, Goes, hook, agent
<1>4. SessionInv(w)'
  <2>0. phase'[w] = "over" /\ phase[w] \in {"leaving", "unwinding"}
    BY DEF SwitchInv, SwitchTypeOK, LeaveFails, Goes, hook, agent
  <2>1. ServerInv(w)'
    BY <2>0 DEF SwitchInv, SessionInv, ServerInv, Running, Phases, LeaveFails, Goes, hook, agent
  <2>2. ClaimInv(w)'
    BY <2>0 DEF SwitchInv, SessionInv, ClaimInv, Running, Phases, LeaveFails, Goes, hook, agent
  <2>3. FreshInv(w)'
    BY DEF SwitchInv, SessionInv, FreshInv, PromptIds, LeaveFails, Goes, hook, agent
  <2>4. ReplayInv(w)'
    BY <2>0 DEF SwitchInv, SessionInv, ClaimInv, ReplayInv, Running, Phases, LeaveFails, Goes,
       hook, agent
  <2> QED
    BY <2>1, <2>2, <2>3, <2>4 DEF SessionInv
<1> QED
  BY <1>1, <1>2, <1>3, <1>4 DEF SwitchInv

LEMMA UserChoosesKeeps ==
  ASSUME SwitchInv, NEW m \in UserModels, UserChooses(m), UNCHANGED user
  PROVE  SwitchInv'
<1>1. SwitchTypeOK'
  <2>1. settings' \in Models /\ own' \in Models /\ choices' \in 0 .. MaxChoices
    BY WrappersAssumption DEF SwitchInv, SwitchTypeOK, Models, UserChooses
  <2>2. stray' \in BOOLEAN
    BY Zenon DEF UserChooses
  <2> QED
    BY <2>1, <2>2 DEF SwitchInv, SwitchTypeOK, PromptIds, UserChooses, hook, loop, agent
<1>2. GuardInv' /\ OwnInv'
  BY DEF SwitchInv, GuardInv, OwnInv, UserChooses, loop
<1>3. ASSUME NEW v \in Wrappers
      PROVE  SessionInv(v)'
  BY <1>3, SameSession DEF SwitchInv, Same, UserChooses, hook, loop, agent
<1> QED
  BY <1>1, <1>2, <1>3 DEF SwitchInv

LEMMA SwitchInitInv == SwitchInit => SwitchInv
<1> SUFFICES ASSUME SwitchInit
             PROVE  SwitchInv
  OBVIOUS
<1>1. \A w \in Wrappers : 0 \in PromptIds(w) /\ PromptIds(w) \subseteq Nat
  BY WrappersAssumption DEF SwitchInit, PromptIds
<1>2. SwitchTypeOK
  <2>1. /\ phase \in [Wrappers -> Phases \cup Ends] /\ command \in [Wrappers -> Commands]
        /\ attempts \in [Wrappers -> 0 .. MAX_SUBMIT_ATTEMPTS]
        /\ claude \in [Wrappers -> BOOLEAN]
    BY DEF SwitchInit, Phases, Ends, Commands, MAX_SUBMIT_ATTEMPTS
  <2>2. runs = [w \in Wrappers |-> runs[w]]
    BY Zenon DEF SwitchInit
  <2>3. \A w \in Wrappers : runs[w] \in [PromptIds(w) -> Nat]
    BY DEF SwitchInit
  <2>4. choices \in 0 .. MaxChoices
    BY WrappersAssumption DEF SwitchInit
  <2>6. stray \in BOOLEAN
    BY Zenon DEF SwitchInit
  <2>5. /\ held \in [Wrappers -> Nat] /\ asked \in [Wrappers -> Nat]
        /\ captured \in [Wrappers -> Nat]
        /\ box \in [Wrappers -> Nat] /\ typed \in [Wrappers -> Nat]
        /\ \A w \in Wrappers :
             /\ held[w] \in PromptIds(w) /\ asked[w] \in PromptIds(w)
             /\ captured[w] \in PromptIds(w)
             /\ box[w] \in PromptIds(w) /\ typed[w] \in PromptIds(w)
    BY <1>1 DEF SwitchInit
  <2> QED
    BY <2>1, <2>2, <2>3, <2>4, <2>5, <2>6 DEF SwitchInit, SwitchTypeOK
<1>3. GuardInv /\ OwnInv
  BY DEF SwitchInit, GuardInv, OwnInv
<1>4. ASSUME NEW w \in Wrappers
      PROVE  SessionInv(w)
  BY <1>1 DEF SwitchInit, SessionInv, ServerInv, ClaimInv, FreshInv, ReplayInv, Running, Phases
<1> QED
  BY <1>2, <1>3, <1>4 DEF SwitchInv

LEMMA SwitchNextInv == SwitchInv /\ [SwitchNext]_switchVars => SwitchInv'
<1> SUFFICES ASSUME SwitchInv, [SwitchNext]_switchVars
             PROVE  SwitchInv'
  OBVIOUS
<1>1. ASSUME NEW w \in Wrappers, Loop(w)
      PROVE  SwitchInv'
  BY <1>1, CaptureKeeps, IdleKeeps, BeginKeeps, SkipSwitchKeeps, SeesMarkerKeeps,
     SwitchTimesOutKeeps, AfterEscapeKeeps, PersistedKeeps, PressEnterKeeps, EnterAgainKeeps,
     VerifiedKeeps, LoopEndsKeeps, BeginInVainKeeps, LoopRaisesKeeps, LeaveKeeps,
     LeaveFailsKeeps DEF Loop
<1>2. ASSUME NEW w \in Wrappers, Outside(w)
      PROVE  SwitchInv'
  BY <1>2, ServeKeeps, RouteFailsKeeps, BlockKeeps, UserTypesKeeps, UserEntersKeeps,
     GiveUpKeeps, HangUpKeeps, AsksKeeps, RunsKeeps, ShowsKeeps, StoresKeeps, ClaudeEndsKeeps,
     KillKeeps DEF Outside
<1>3. ASSUME NEW m \in UserModels, UserChooses(m), UNCHANGED user
      PROVE  SwitchInv'
  BY <1>3, UserChoosesKeeps
<1>4. CASE UNCHANGED switchVars
  <2>1. SwitchTypeOK'
    BY <1>4 DEF SwitchInv, SwitchTypeOK, PromptIds, switchVars, file, hook, loop, agent, history
  <2>2. GuardInv' /\ OwnInv'
    BY <1>4, SameGuard DEF SwitchInv, switchVars, file, loop, history
  <2>3. ASSUME NEW w \in Wrappers
        PROVE  SessionInv(w)'
    BY <1>4, <2>3, SameSession DEF SwitchInv, Same, switchVars, hook, loop, agent, history
  <2> QED
    BY <2>1, <2>2, <2>3 DEF SwitchInv
<1> QED
  BY <1>1, <1>2, <1>3, <1>4 DEF SwitchNext

LEMMA SwitchInvariance == SwitchSpec => []SwitchInv
<1> QED
  BY SwitchInitInv, SwitchNextInv, PTL DEF SwitchSpec

\* Every variable keeps its type; in particular what Claude stores is a model, for any
\* wrappers, prompts and models.
THEOREM SwitchTypeCorrect == SwitchSpec => []SwitchTypeOK
<1>1. SwitchInv => SwitchTypeOK
  BY DEF SwitchInv
<1> QED
  BY <1>1, SwitchInvariance, PTL

\* However many wrappers share the settings file, switch at once, time out, fail or are
\* killed: where nothing strayed, a snapshot is the user's own model, and without one the
\* settings are.
THEOREM DefaultStaysOwn == SwitchSpec => []DefaultIsOwn
<1>1. SwitchInv => DefaultIsOwn
  BY DEF SwitchInv, OwnInv, DefaultIsOwn
<1> QED
  BY <1>1, SwitchInvariance, PTL

\* Whatever the hook, the socket, the loop and the terminal are in the middle of, the
\* blocked prompt is at one place, and what the wrapper takes for submitted has been run.
THEOREM PromptRunsOnce == SwitchSpec => []FirstPromptRunsOnce
<1>1. SwitchInv => FirstPromptRunsOnce
  <2> SUFFICES ASSUME SwitchInv, NEW w \in Wrappers, captured[w] # 0,
                      w \notin meddled \cup crossed
               PROVE  /\ runs[w][captured[w]] <= 1
                      /\ w \in confirmed => runs[w][captured[w]] = 1
    BY DEF FirstPromptRunsOnce
  <2>1. ReplayInv(w)
    BY DEF SwitchInv, SessionInv
  <2> QED
    BY <2>1 DEF ReplayInv
<1> QED
  BY <1>1, SwitchInvariance, PTL
=============================================================================
