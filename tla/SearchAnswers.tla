--------------------------- MODULE SearchAnswers ---------------------------
(***************************************************************************)
(* What the web search server promises its client (mcp_web_search.py,      *)
(* serve), without threads, futures or locks.  A search stands from when   *)
(* it is asked until the client cancels it, asks another one under its id, *)
(* gets its answer, or the output is given up.  Only a search that stands  *)
(* is answered, and the server ends in good order only when none does.     *)
(***************************************************************************)
EXTENDS Naturals

CONSTANTS
  Searches,  \* the searches a client may ask, each once
  Ids,       \* request ids
  None       \* not a search

VARIABLES
  asked,     \* the searches the server accepted
  standing,  \* for each id the search that stands under it
  answers,   \* how often each was answered
  ended      \* "no", "lost" once the output is given up, "well" or "failed"

vars == <<asked, standing, answers, ended>>

Init ==
  /\ asked = {}
  /\ answers = [s \in Searches |-> 0]
  /\ standing = [i \in Ids |-> None]
  /\ ended = "no"

Ask(s, i) ==
  /\ ended = "no" /\ s \notin asked
  /\ asked' = asked \cup {s}
  /\ standing' = [standing EXCEPT ![i] = s]
  /\ UNCHANGED <<answers, ended>>

Cancel(i) ==
  /\ ended = "no"
  /\ standing' = [standing EXCEPT ![i] = None]
  /\ UNCHANGED <<asked, answers, ended>>

\* The answer is written in full.
Answer(i) ==
  /\ ended = "no" /\ standing[i] # None
  /\ answers' = [answers EXCEPT ![standing[i]] = @ + 1]
  /\ standing' = [standing EXCEPT ![i] = None]
  /\ UNCHANGED <<asked, ended>>

\* The output or the input failed, or the server was interrupted: whatever
\* stands is dropped, and nothing is asked or answered any more.
GiveUp ==
  /\ ended = "no" /\ ended' = "lost"
  /\ standing' = [i \in Ids |-> None]
  /\ UNCHANGED <<asked, answers>>

\* In good order only if every search that stood was answered.
End ==
  /\ \/ ended = "no" /\ ended' = "well"
     \/ ended = "lost" /\ ended' = "failed"
  /\ standing = [i \in Ids |-> None]
  /\ UNCHANGED <<asked, standing, answers>>

Next ==
  \/ \E i \in Ids : Cancel(i) \/ Answer(i) \/ \E s \in Searches : Ask(s, i)
  \/ GiveUp \/ End

Spec == Init /\ [][Next]_vars
============================================================================
