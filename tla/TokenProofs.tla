---------------------------- MODULE TokenProofs -----------------------------
(***************************************************************************)
(* The safety properties of TokenCache, for every set of request threads   *)
(* and every number of tokens, and of SignIn, for every set of callers.    *)
(*                                                                         *)
(* What TokenCache's property of a snapshot needs is that generations and  *)
(* tokens only grow, and together; what a retry needs is that its thread   *)
(* has seen both grow past the ones that were refused.                     *)
(*                                                                         *)
(* What SignIn's freshness needs is that the memo of a process is never    *)
(* behind what its calls have returned, and neither is the token a call    *)
(* brings back in the epoch it asked in; its one browser needs that the    *)
(* holder of a lock file is the only caller between its look and its       *)
(* browser, and that a renewed login is live until it is lost.             *)
(***************************************************************************)
EXTENDS TokenCache, SignIn, TLAPS

USE DEF Threads, Tokens, NoToken, MaybeToken, Locked, Labels, config, cache,
        provider, history

-----------------------------------------------------------------------------
(* The inductive invariant. *)

\* One thread at a time is between the provider's call and the store.
LockInv == \A th \in Threads : pc[th] \in Locked => lock = th

\* The cache holds an issued token, and has had no more generations than that.
Issued == generation <= token /\ token <= latest

\* What a provider returned is not older than the cached token, and newer if
\* it was asked for by force.
GotInv == \A th \in Threads : pc[th] \in {"record", "replace"} =>
  /\ got[th] \in Tokens
  /\ token <= got[th] /\ got[th] <= latest
  /\ Forced(th) => token < got[th]

\* A snapshot is of the current generation or of an earlier one, and its token
\* is then the current one or an earlier one.
SnapshotInv == \A th \in Threads :
  /\ gen[th] <= generation /\ tok[th] <= token
  /\ gen[th] = generation => tok[th] = token
  /\ gen[th] # 0 /\ gen[th] < generation => tok[th] < token
  /\ pc[th] \in {"send", "refused", "mint", "replace"} => gen[th] # 0

SameGeneration == \A th, other \in Threads :
  gen[th] # 0 /\ gen[other] = gen[th] => tok[other] = tok[th]

\* A thread whose request was refused has, once its refresh is over, a newer
\* token in the cache than the refused one.
RetryInv == \A th \in Threads : retry[th] =>
  /\ pc[th] \in {"refused", "mint", "replace"} => bad[th] = tok[th]
  /\ ~failed[th] =>
       /\ pc[th] \in {"check", "wait", "lookup", "record", "read"} => bad[th] < token
       /\ pc[th] = "send" => bad[th] < tok[th]

RefreshInv == \A th \in Threads :
  /\ pc[th] \in {"refused", "mint", "replace"} => retry[th]
  /\ pc[th] \in {"mint", "replace"} => gen[th] = generation

\* A thread at rest has no request; the background thread never has one.
RestInv ==
  /\ \A th \in Threads : pc[th] \in {"idle", "stopped"} => ~retry[th]
  /\ ~retry[Refresher]
  /\ pc[Refresher] \in {"idle", "check", "wait", "lookup", "record", "stopped"}

\* Who refreshes has a reason to.
ReasonInv == \A th \in Threads :
  /\ pc[th] \in {"lookup", "record"} => token \in due
  /\ pc[th] \in {"refused", "mint", "replace"} /\ gen[th] = generation => spurned

Inv == /\ TypeOK /\ LockInv /\ Issued /\ GotInv /\ SnapshotInv
       /\ SameGeneration /\ RetryInv /\ RefreshInv /\ RestInv /\ ReasonInv

LEMMA InitHolds == Init => Inv
<1> SUFFICES ASSUME Init  PROVE Inv
  OBVIOUS
<1> USE ConstantsAssumption DEF Init
<1>1. TypeOK
  <2>1. 1 \in 1..MaxTokens /\ 0 \in 0..MaxTokens  OBVIOUS
  <2>2. due \subseteq Tokens  BY <2>1
  <2>3. {force, answers} \subseteq BOOLEAN  OBVIOUS
  <2>4. /\ token \in Tokens /\ latest \in Tokens /\ generation \in 1..MaxTokens
        /\ NoToken \in MaybeToken
    BY <2>1
  <2>5. /\ tok \in [Threads -> MaybeToken] /\ got \in [Threads -> MaybeToken]
        /\ bad \in [Threads -> MaybeToken] /\ gen \in [Threads -> 0..MaxTokens]
    BY <2>1
  <2>6. /\ pc \in [Threads -> Labels] /\ retry \in [Threads -> BOOLEAN]
        /\ failed \in [Threads -> BOOLEAN] /\ spurned \in BOOLEAN
        /\ lock \in Threads \cup {Nobody}
    OBVIOUS
  <2> QED  BY <2>2, <2>3, <2>4, <2>5, <2>6 DEF TypeOK
<1>2. LockInv /\ Issued /\ GotInv  BY DEF LockInv, Issued, GotInv
<1>3. SnapshotInv /\ SameGeneration  BY DEF SnapshotInv, SameGeneration
<1>4. RetryInv /\ RefreshInv /\ RestInv  BY DEF RetryInv, RefreshInv, RestInv
<1>5. ReasonInv  BY DEF ReasonInv
<1> QED  BY <1>1, <1>2, <1>3, <1>4, <1>5 DEF Inv

-----------------------------------------------------------------------------
(* Each step keeps it. *)

LEMMA BeginKeeps ==
  ASSUME Inv, NEW th \in Threads, Begin(th)
  PROVE  Inv'
<1> USE ConstantsAssumption DEF Inv, Begin, Goto
<1>1. TypeOK'  BY DEF TypeOK
<1>2. LockInv'  BY DEF TypeOK, LockInv
<1>3. Issued'  BY DEF TypeOK, Issued
<1>4. GotInv'  BY DEF TypeOK, GotInv, Forced
<1>5. SnapshotInv'  BY DEF TypeOK, SnapshotInv
<1>6. SameGeneration'  BY DEF TypeOK, SameGeneration
<1>7. RetryInv'  BY DEF TypeOK, RetryInv, RestInv
<1>8. RefreshInv'  BY DEF TypeOK, RefreshInv
<1>9. ReasonInv'  BY DEF TypeOK, ReasonInv
<1>10. RestInv'  BY DEF TypeOK, RestInv
<1> QED  BY <1>1, <1>2, <1>3, <1>4, <1>5, <1>6, <1>7, <1>8, <1>9, <1>10

LEMMA StopKeeps ==
  ASSUME Inv, Stop
  PROVE  Inv'
<1> USE ConstantsAssumption DEF Inv, Stop, Goto
<1>1. TypeOK'  BY DEF TypeOK
<1>2. LockInv'  BY DEF TypeOK, LockInv
<1>3. Issued'  BY DEF TypeOK, Issued
<1>4. GotInv'  BY DEF TypeOK, GotInv, Forced
<1>5. SnapshotInv'  BY DEF TypeOK, SnapshotInv
<1>6. SameGeneration'  BY DEF TypeOK, SameGeneration
<1>7. RetryInv'  BY DEF TypeOK, RetryInv
<1>8. RefreshInv'  BY DEF TypeOK, RefreshInv
<1>9. ReasonInv'  BY DEF TypeOK, ReasonInv
<1>10. RestInv'  BY DEF TypeOK, RestInv
<1> QED  BY <1>1, <1>2, <1>3, <1>4, <1>5, <1>6, <1>7, <1>8, <1>9, <1>10

LEMMA CheckKeeps ==
  ASSUME Inv, NEW th \in Threads, Check(th)
  PROVE  Inv'
<1> USE ConstantsAssumption DEF Inv, Check, Goto, Ensured, FreshEnough
<1>1. TypeOK'  BY DEF TypeOK
<1>2. LockInv'  BY DEF TypeOK, LockInv
<1>3. Issued'  BY DEF TypeOK, Issued
<1>4. GotInv'  BY DEF TypeOK, GotInv, Forced
<1>5. SnapshotInv'  BY DEF TypeOK, SnapshotInv
<1>6. SameGeneration'  BY DEF TypeOK, SameGeneration
<1>7. RetryInv'  BY DEF TypeOK, RetryInv
<1>8. RefreshInv'  BY DEF TypeOK, RefreshInv
<1>9. ReasonInv'  BY DEF TypeOK, ReasonInv
<1>10. RestInv'  BY DEF TypeOK, RestInv
<1> QED  BY <1>1, <1>2, <1>3, <1>4, <1>5, <1>6, <1>7, <1>8, <1>9, <1>10

LEMMA EnterKeeps ==
  ASSUME Inv, NEW th \in Threads, Enter(th)
  PROVE  Inv'
<1> USE ConstantsAssumption DEF Inv, Enter, Goto, Ensured, FreshEnough
<1>1. TypeOK'  BY DEF TypeOK
<1>2. LockInv'  BY DEF TypeOK, LockInv
<1>3. Issued'  BY DEF TypeOK, Issued
<1>4. GotInv'  BY DEF TypeOK, GotInv, Forced
<1>5. SnapshotInv'  BY DEF TypeOK, SnapshotInv
<1>6. SameGeneration'  BY DEF TypeOK, SameGeneration
<1>7. RetryInv'  BY DEF TypeOK, RetryInv
<1>8. RefreshInv'  BY DEF TypeOK, RefreshInv
<1>9. ReasonInv'  BY DEF TypeOK, ReasonInv
<1>10. RestInv'  BY DEF TypeOK, RestInv
<1> QED  BY <1>1, <1>2, <1>3, <1>4, <1>5, <1>6, <1>7, <1>8, <1>9, <1>10

LEMMA RefreshKeeps ==
  ASSUME Inv, NEW th \in Threads, Refresh(th)
  PROVE  Inv'
<1> USE ConstantsAssumption DEF Inv, Refresh, Goto
<1>1. TypeOK'  BY DEF TypeOK
<1>2. LockInv'  BY DEF TypeOK, LockInv
<1>3. Issued'  BY DEF TypeOK, Issued
<1>4. GotInv'  BY DEF TypeOK, GotInv, Forced
<1>5. SnapshotInv'  BY DEF TypeOK, SnapshotInv
<1>6. SameGeneration'  BY DEF TypeOK, SameGeneration
<1>7. RetryInv'
  <2>1. gen[th] # generation => bad[th] < token \/ ~retry[th]
    BY DEF TypeOK, SnapshotInv, RetryInv
  <2> QED  BY <2>1 DEF TypeOK, RetryInv
<1>8. RefreshInv'  BY DEF TypeOK, RefreshInv
<1>9. ReasonInv'  BY DEF TypeOK, ReasonInv
<1>10. RestInv'  BY DEF TypeOK, RestInv
<1> QED  BY <1>1, <1>2, <1>3, <1>4, <1>5, <1>6, <1>7, <1>8, <1>9, <1>10

LEMMA FetchKeeps ==
  ASSUME Inv, NEW th \in Threads, Fetch(th)
  PROVE  Inv'
<1> USE ConstantsAssumption DEF Inv, Fetch, Goto, Returns, Issue, Forced
<1>1. TypeOK'  BY DEF TypeOK
<1>2. LockInv'  BY DEF TypeOK, LockInv
<1>3. Issued'  BY DEF TypeOK, Issued
<1>4. GotInv'
  <2>1. \A other \in Threads : other # th => pc[other] \notin Locked
    BY DEF LockInv
  <2>2. /\ got'[th] \in Tokens /\ token <= got'[th] /\ got'[th] <= latest'
        /\ Forced(th) => token < got'[th]
    BY DEF TypeOK, Issued
  <2>3. Forced(th)' => Forced(th)
    BY DEF TypeOK
  <2> QED  BY <2>1, <2>2, <2>3 DEF TypeOK, GotInv
<1>5. SnapshotInv'  BY DEF TypeOK, SnapshotInv
<1>6. SameGeneration'  BY DEF TypeOK, SameGeneration
<1>7. RetryInv'  BY DEF TypeOK, RetryInv
<1>8. RefreshInv'  BY DEF TypeOK, RefreshInv
<1>9. ReasonInv'  BY DEF TypeOK, ReasonInv
<1>10. RestInv'  BY DEF TypeOK, RestInv
<1> QED  BY <1>1, <1>2, <1>3, <1>4, <1>5, <1>6, <1>7, <1>8, <1>9, <1>10

LEMMA FetchFailsKeeps ==
  ASSUME Inv, NEW th \in Threads, FetchFails(th)
  PROVE  Inv'
<1> USE ConstantsAssumption DEF Inv, FetchFails, Goto, Ensured, Rest
<1>1. TypeOK'
  <2>1. /\ pc' \in [Threads -> Labels] /\ retry' \in [Threads -> BOOLEAN]
        /\ failed' \in [Threads -> BOOLEAN]
    BY DEF TypeOK
  <2>2. /\ tok' \in [Threads -> MaybeToken] /\ bad' \in [Threads -> MaybeToken]
        /\ gen' \in [Threads -> 0..MaxTokens]
    BY DEF TypeOK
  <2> QED  BY <2>1, <2>2 DEF TypeOK
<1>2. LockInv'  BY DEF TypeOK, LockInv
<1>3. Issued'  BY DEF TypeOK, Issued
<1>4. GotInv'  BY DEF TypeOK, GotInv, Forced
<1>5. SnapshotInv'  BY DEF TypeOK, SnapshotInv
<1>6. SameGeneration'  BY DEF TypeOK, SameGeneration
<1>7. RetryInv'  BY DEF TypeOK, RetryInv
<1>8. RefreshInv'  BY DEF TypeOK, RefreshInv
<1>9. ReasonInv'  BY DEF TypeOK, ReasonInv
<1>10. RestInv'  BY DEF TypeOK, RestInv
<1> QED  BY <1>1, <1>2, <1>3, <1>4, <1>5, <1>6, <1>7, <1>8, <1>9, <1>10

LEMMA StoreKeeps ==
  ASSUME Inv, NEW th \in Threads, Store(th)
  PROVE  Inv'
<1> USE DEF Inv
<1>1. /\ token \in Nat /\ generation \in Nat /\ latest \in Nat
      /\ got[th] \in Tokens /\ token <= got[th] /\ got[th] <= latest
      /\ Forced(th) => token < got[th]
  BY ConstantsAssumption DEF Store, TypeOK, Issued, GotInv
<1>2. /\ token' = got[th]
      /\ generation' = IF Forced(th) \/ got[th] # token THEN generation + 1
                       ELSE generation
      /\ spurned' = (spurned /\ generation' = generation)
      /\ got' = [got EXCEPT ![th] = NoToken]
      /\ UNCHANGED <<force, answers, latest, due, retry, tok, gen, bad, failed>>
  BY DEF Store, Ensured
\* Both stay, or both grow.
<1>3. /\ generation' \in Nat /\ token' \in Tokens
      /\ \/ generation' = generation /\ token' = token
         \/ generation' = generation + 1 /\ token < token'
  BY <1>1, <1>2
<1>4. /\ pc'[th] \in {"idle", "read", "check"}
      /\ pc[th] = "replace" => pc'[th] = "check"
      /\ pc[th] \in {"record", "replace"}
      /\ pc' \in [Threads -> Labels]
      /\ lock' = Nobody
      /\ \A other \in Threads : other # th => pc'[other] = pc[other]
  BY DEF Store, Ensured, Goto, TypeOK
<1>5. \A other \in Threads : other # th => pc[other] \notin Locked
  BY <1>4 DEF LockInv
<1>6. TypeOK' /\ Issued'
  BY <1>1, <1>2, <1>3, <1>4, ConstantsAssumption DEF TypeOK, Issued
<1>7. LockInv'  BY <1>4, <1>5 DEF LockInv
<1>8. GotInv'  BY <1>4, <1>5 DEF GotInv
<1>9. SnapshotInv'
  BY <1>1, <1>2, <1>3, <1>4, <1>5 DEF SnapshotInv, TypeOK
<1>10. SameGeneration'  BY <1>2 DEF SameGeneration
<1>11. RetryInv'
  <2> SUFFICES ASSUME NEW r \in Threads, retry[r]
      PROVE  /\ pc'[r] \in {"refused", "mint", "replace"} => bad[r] = tok[r]
             /\ ~failed[r] =>
                  /\ pc'[r] \in {"check", "wait", "lookup", "record", "read"} =>
                       bad[r] < token'
                  /\ pc'[r] = "send" => bad[r] < tok[r]
    BY <1>2 DEF RetryInv
  <2>1. bad[r] \in Nat /\ tok[r] \in Nat  BY DEF TypeOK
  <2>2. CASE r # th
    BY <1>1, <1>3, <1>4, <2>1, <2>2 DEF RetryInv
  <2>3. CASE r = th /\ pc[th] = "record"
    BY <1>1, <1>3, <1>4, <2>1, <2>3 DEF RetryInv
  <2>4. CASE r = th /\ pc[th] = "replace"
    <3>1. bad[r] = token
      BY <2>4 DEF RetryInv, RefreshInv, SnapshotInv
    <3>2. token < token'
      BY <1>1, <1>2, <2>4 DEF Forced
    <3> QED  BY <1>4, <2>4, <3>1, <3>2
  <2> QED  BY <1>4, <2>2, <2>3, <2>4
<1>12. RefreshInv'  BY <1>2, <1>4, <1>5 DEF RefreshInv
<1>13. ReasonInv'
  BY <1>1, <1>2, <1>3, <1>4, <1>5 DEF ReasonInv, SnapshotInv, TypeOK
<1>14. RestInv'  BY <1>2, <1>4 DEF RestInv, Store, Ensured, Goto, TypeOK
<1> QED  BY <1>6, <1>7, <1>8, <1>9, <1>10, <1>11, <1>12, <1>13, <1>14

LEMMA ReadKeeps ==
  ASSUME Inv, NEW th \in Threads, Read(th)
  PROVE  Inv'
<1> USE ConstantsAssumption DEF Inv, Read, Goto
<1>1. TypeOK'  BY DEF TypeOK
<1>2. LockInv'  BY DEF TypeOK, LockInv
<1>3. Issued'  BY DEF TypeOK, Issued
<1>4. GotInv'  BY DEF TypeOK, GotInv, Forced
<1>5. SnapshotInv'  BY DEF TypeOK, SnapshotInv
<1>6. SameGeneration'  BY DEF TypeOK, SameGeneration, SnapshotInv
<1>7. RetryInv'  BY DEF TypeOK, RetryInv
<1>8. RefreshInv'  BY DEF TypeOK, RefreshInv
<1>9. ReasonInv'  BY DEF TypeOK, ReasonInv
<1>10. RestInv'  BY DEF TypeOK, RestInv
<1> QED  BY <1>1, <1>2, <1>3, <1>4, <1>5, <1>6, <1>7, <1>8, <1>9, <1>10

LEMMA RefusedKeeps ==
  ASSUME Inv, NEW th \in Threads, Refused(th)
  PROVE  Inv'
<1> USE ConstantsAssumption DEF Inv, Refused, Goto
<1>1. TypeOK'  BY DEF TypeOK
<1>2. LockInv'  BY DEF TypeOK, LockInv
<1>3. Issued'  BY DEF TypeOK, Issued
<1>4. GotInv'  BY DEF TypeOK, GotInv, Forced
<1>5. SnapshotInv'  BY DEF TypeOK, SnapshotInv
<1>6. SameGeneration'  BY DEF TypeOK, SameGeneration
<1>7. RetryInv'  BY DEF TypeOK, RetryInv
<1>8. RefreshInv'  BY DEF TypeOK, RefreshInv
<1>9. ReasonInv'  BY DEF TypeOK, ReasonInv
<1>10. RestInv'  BY DEF TypeOK, RestInv
<1> QED  BY <1>1, <1>2, <1>3, <1>4, <1>5, <1>6, <1>7, <1>8, <1>9, <1>10

LEMMA AnsweredKeeps ==
  ASSUME Inv, NEW th \in Threads, Answered(th)
  PROVE  Inv'
<1> USE ConstantsAssumption DEF Inv, Answered, Goto, Rest
<1>1. TypeOK'  BY DEF TypeOK
<1>2. LockInv'  BY DEF TypeOK, LockInv
<1>3. Issued'  BY DEF TypeOK, Issued
<1>4. GotInv'  BY DEF TypeOK, GotInv, Forced
<1>5. SnapshotInv'  BY DEF TypeOK, SnapshotInv
<1>6. SameGeneration'  BY DEF TypeOK, SameGeneration
<1>7. RetryInv'  BY DEF TypeOK, RetryInv
<1>8. RefreshInv'  BY DEF TypeOK, RefreshInv
<1>9. ReasonInv'  BY DEF TypeOK, ReasonInv
<1>10. RestInv'  BY DEF TypeOK, RestInv
<1> QED  BY <1>1, <1>2, <1>3, <1>4, <1>5, <1>6, <1>7, <1>8, <1>9, <1>10

LEMMA OtherIssueKeeps ==
  ASSUME Inv, OtherIssue
  PROVE  Inv'
<1> USE ConstantsAssumption DEF Inv, OtherIssue, Issue
<1>1. TypeOK'  BY DEF TypeOK
<1>2. LockInv'  BY DEF TypeOK, LockInv
<1>3. Issued'  BY DEF TypeOK, Issued
<1>4. GotInv'  BY DEF TypeOK, GotInv, Forced
<1>5. SnapshotInv'  BY DEF TypeOK, SnapshotInv
<1>6. SameGeneration'  BY DEF TypeOK, SameGeneration
<1>7. RetryInv'  BY DEF TypeOK, RetryInv
<1>8. RefreshInv'  BY DEF TypeOK, RefreshInv
<1>9. ReasonInv'  BY DEF TypeOK, ReasonInv
<1>10. RestInv'  BY DEF TypeOK, RestInv
<1> QED  BY <1>1, <1>2, <1>3, <1>4, <1>5, <1>6, <1>7, <1>8, <1>9, <1>10

LEMMA TimePassesKeeps ==
  ASSUME Inv, TimePasses
  PROVE  Inv'
<1> USE ConstantsAssumption DEF Inv, TimePasses
<1>1. TypeOK'  BY DEF TypeOK
<1>2. LockInv'  BY DEF TypeOK, LockInv
<1>3. Issued'  BY DEF TypeOK, Issued
<1>4. GotInv'  BY DEF TypeOK, GotInv, Forced
<1>5. SnapshotInv'  BY DEF TypeOK, SnapshotInv
<1>6. SameGeneration'  BY DEF TypeOK, SameGeneration
<1>7. RetryInv'  BY DEF TypeOK, RetryInv
<1>8. RefreshInv'  BY DEF TypeOK, RefreshInv
<1>9. ReasonInv'  BY DEF TypeOK, ReasonInv
<1>10. RestInv'  BY DEF TypeOK, RestInv
<1> QED  BY <1>1, <1>2, <1>3, <1>4, <1>5, <1>6, <1>7, <1>8, <1>9, <1>10

-----------------------------------------------------------------------------
(* The invariant, and the properties. *)

LEMMA NextKeeps == Inv /\ [Next]_vars => Inv'
<1> SUFFICES ASSUME Inv, [Next]_vars  PROVE Inv'
  OBVIOUS
<1>1. CASE UNCHANGED vars
  BY <1>1 DEF vars, Inv, TypeOK, LockInv, Issued, GotInv, SnapshotInv,
              SameGeneration,
              RetryInv, RefreshInv, RestInv, ReasonInv, Forced
<1>2. ASSUME NEW th \in Threads, Begin(th) \/ Waits(th) \/ Runs(th)
      PROVE  Inv'
  BY <1>2, BeginKeeps, EnterKeeps, RefreshKeeps, CheckKeeps, FetchKeeps,
     FetchFailsKeeps, StoreKeeps, ReadKeeps, RefusedKeeps, AnsweredKeeps
     DEF Waits, Runs
<1> QED
  BY <1>1, <1>2, StopKeeps, OtherIssueKeeps, TimePassesKeeps DEF Next

THEOREM Invariance == Spec => []Inv
BY InitHolds, NextKeeps, PTL DEF Spec

\* Every variable keeps its type; in particular there are never more
\* generations than tokens that were issued.
THEOREM TypeCorrect == Spec => []TypeOK
<1>1. Inv => TypeOK  BY DEF Inv
<1> QED  BY <1>1, Invariance, PTL

\* Requests that read the same generation sent the same token.
THEOREM SnapshotsAgree == Spec => []GenerationNamesToken
<1>1. Inv => GenerationNamesToken
  BY DEF Inv, SnapshotInv, SameGeneration, GenerationNamesToken
<1> QED  BY <1>1, Invariance, PTL

\* A refused request is sent again with a newer token, or after a failed
\* refresh of its own.
THEOREM RetryIsNew == Spec => []RetryUsesAnotherToken
<1>1. Inv => RetryUsesAnotherToken
  BY DEF Inv, TypeOK, RetryInv, RetryUsesAnotherToken
<1> QED  BY <1>1, Invariance, PTL

\* A fresh token is replaced only after a refusal of that very token.
THEOREM RefreshHasReason == Spec => NoNeedlessRefresh
<1> DEFINE Justified == generation' # generation => ~FreshEnough \/ spurned
<1>1. ASSUME Inv, [Next]_vars  PROVE Justified
  <2> SUFFICES ASSUME generation' # generation  PROVE ~FreshEnough \/ spurned
    OBVIOUS
  <2>1. PICK th \in Threads : Store(th)
    BY <1>1 DEF Next, Waits, Runs, vars, Begin, Stop, Check, Enter, Refresh,
                Fetch, FetchFails, Read, Refused, Answered, OtherIssue, TimePasses
  <2> QED  BY <1>1, <2>1 DEF Inv, RefreshInv, ReasonInv, Store, FreshEnough
<1>2. Inv /\ [Next]_vars => [Justified]_vars  BY <1>1
<1> HIDE DEF Justified
<1>3. Spec => [][Justified]_vars  BY <1>2, Invariance, PTL DEF Spec
<1> QED  BY <1>3 DEF NoNeedlessRefresh, Justified

-----------------------------------------------------------------------------
(* SignIn: the inductive invariant. *)

HelperAsks == {"desktop", "relay"}
OwnModes == {"desktop", "claude"}
AtLockfile == {"recheck", "status", "browsing"}
OnKey == {"asking", "reauth", "waiting", "recheck", "browsing", "confirm", "ending"}

\* What a caller is at, and for what.  Claude Desktop's helper passes by the memo.
StageInv(c) ==
  /\ mode[c] \in OwnModes <=> Asked(c) \in HelperAsks
  /\ Asked(c) \in HelperAsks =>
       stage[c] \notin {"look", "queued", "reauth", "ending", "signing", "clearing"}
  /\ Asked(c) = "nothing" => stage[c] = "done" /\ given[c] = 0 /\ floor[c] = 0
  /\ stage[c] = "idle" => mode[c] # "claude"
  /\ stage[c] = "status" => mode[c] = "claude"
  /\ stage[c] \in {"waiting"} \cup AtLockfile => mode[c] \in {"helper"} \cup OwnModes
  /\ stage[c] = "reauth" => why[c] # "ok"

\* Who is between a lock and its release holds it.
HolderInv(c) ==
  /\ stage[c] \in AtLockfile => lockfile[LockOf(c)] = c
  /\ stage[c] \in OnKey /\ mode[c] \notin OwnModes => inflight[Home(c)] = c

\* What a caller knows of its process is not ahead of it; and while it asks in an epoch
\* that is over, nothing has been remembered in the new one.
PastInv(c) ==
  /\ floor[c] <= seen[Home(c)] /\ asked[c] <= epoch[Home(c)]
  /\ Asked(c) \in HelperAsks => memo[Home(c)] = NoEntry
  /\ stage[c] \in OnKey /\ mode[c] \notin OwnModes /\ asked[c] # epoch[Home(c)] =>
       memo[Home(c)] = NoEntry

\* A token that is brought back.
TokenInv(c) ==
  /\ stage[c] = "done" /\ mode[c] \in {"token", "forced", "helper"} => floor[c] <= given[c]
  /\ stage[c] = "ending" /\ why[c] = "ok" =>
       /\ given[c] # 0 /\ floor[c] <= given[c]
       /\ asked[c] = epoch[Home(c)] =>
            seen[Home(c)] <= given[c] /\ memo[Home(c)].token <= given[c]

BrowserInv(c) == stage[c] = "browsing" /\ why[c] # "transient" => mode[c] \notin renewed

CallerInv(c) == StageInv(c) /\ HolderInv(c) /\ PastInv(c) /\ TokenInv(c) /\ BrowserInv(c)

\* The memo of a process is not behind what its calls have returned.
MemoInv == \A p \in Processes : memo[p].kind = "token" => seen[p] <= memo[p].token

\* A login that a browser has renewed is live until it is lost.
LoginOfMode(m) == IF m = "claude" THEN "claude" ELSE "databricks"
RenewedInv == \A m \in renewed : login[LoginOfMode(m)] = "live"

SignInInv ==
  /\ SignInTypeOK /\ MemoInv /\ RenewedInv
  /\ \A c \in Callers : CallerInv(c)

-----------------------------------------------------------------------------
(* SignIn: what the helpers of the steps do. *)

LEMMA MaxOfTwo ==
  ASSUME NEW a \in Nat, NEW b \in Nat
  PROVE  Max({a, b}) = IF a >= b THEN a ELSE b
<1>1. \E x \in {a, b} : \A y \in {a, b} : x >= y  OBVIOUS
<1> QED  BY <1>1 DEF Max

LEMMA World ==
  ASSUME SignInTypeOK, NEW c \in Callers
  PROVE  /\ Home(c) \in Processes /\ Asked(c) \in Asks
         /\ Asked(c) \in HelperAsks =>
              \A d \in Callers \ {c} : Home(d) = Home(c) => Asked(d) = "nothing"
BY CallersAssumption DEF SignInTypeOK, Home, Asked, Calls, HelperAsks

\* Tokens only become more.
LEMMA TypesGrow ==
  ASSUME SignInTypeOK, newest' \in newest .. MaxIssued + 1
  PROVE  /\ newest \in Nat /\ newest' \in Nat
         /\ newest' \in 1 .. MaxIssued + 1
         /\ memo \in [Processes -> Memos(newest')]
         /\ seen \in [Processes -> 0 .. newest']
         /\ given \in [Callers -> 0 .. newest'] /\ floor \in [Callers -> 0 .. newest']
<1>1. newest \in Nat /\ newest' \in Nat /\ newest <= newest' /\ newest' \in 1 .. MaxIssued + 1
  BY CallersAssumption DEF SignInTypeOK
<1>2. Memos(newest) \subseteq Memos(newest') /\ 0 .. newest \subseteq 0 .. newest'
  BY <1>1 DEF Memos
<1> QED  BY <1>1, <1>2 DEF SignInTypeOK

LEMMA AnswersDoes ==
  ASSUME SignInTypeOK, NEW c \in Callers, Answers(c)
  PROVE  /\ newest' \in newest .. MaxIssued + 1
         /\ why' \in [Callers -> {"ok", "auth", "transient"}]
         /\ given' \in [Callers -> 0 .. newest']
         /\ \A d \in Callers \ {c} : given'[d] = given[d] /\ why'[d] = why[d]
         /\ why'[c] = "ok" => given'[c] = IF mode[c] = "claude" THEN given[c] ELSE newest'
         /\ why'[c] = "auth" => login[LoginOf(c)] # "live"
<1>1. newest' \in newest .. MaxIssued + 1
  BY CallersAssumption DEF Answers, SignInTypeOK
<1>2. given \in [Callers -> 0 .. newest'] /\ newest' \in 0 .. newest'
  BY <1>1, TypesGrow
<1>3. given' \in [Callers -> 0 .. newest']
  BY <1>1, <1>2, TypesGrow DEF Answers
<1>4. why' \in [Callers -> {"ok", "auth", "transient"}]
  BY DEF Answers, SignInTypeOK
<1>5. \A d \in Callers \ {c} : given'[d] = given[d] /\ why'[d] = why[d]
  BY DEF Answers, SignInTypeOK
<1>6. /\ why'[c] = "ok" => given'[c] = IF mode[c] = "claude" THEN given[c] ELSE newest'
      /\ why'[c] = "auth" => login[LoginOf(c)] # "live"
  BY DEF Answers, SignInTypeOK
<1> QED  BY <1>1, <1>3, <1>4, <1>5, <1>6

LEMMA RenewsDoes ==
  ASSUME SignInTypeOK, NEW c \in Callers, Renews(c)
  PROVE  /\ newest' \in newest .. MaxIssued + 1
         /\ login' \in [Logins -> States]
         /\ login'[LoginOf(c)] = "live"
         /\ \A l \in Logins : login[l] = "live" => login'[l] = "live"
BY CallersAssumption DEF Renews, SignInTypeOK, LoginOf, Logins, States

LEMMA EndsDoes ==
  ASSUME SignInTypeOK, RenewedInv, NEW l \in Logins, Ends(l)
  PROVE  /\ losses' \in 0 .. MaxLosses
         /\ login' \in [Logins -> States]
         /\ renewed' \subseteq renewed
         /\ RenewedInv'
<1>1. losses' \in 0 .. MaxLosses
  BY CallersAssumption DEF Ends, SignInTypeOK
<1>2. login' \in [Logins -> States] /\ renewed' \subseteq renewed
  BY DEF Ends, SignInTypeOK, Logins, States
<1>3. ASSUME NEW m \in renewed'  PROVE login'[LoginOfMode(m)] = "live"
  <2>1. m \in renewed /\ m \in {"helper", "desktop", "claude"} /\ LoginOfMode(m) # l
    BY <1>2, <1>3 DEF Ends, SignInTypeOK, Logins, LoginOfMode
  <2>2. login'[LoginOfMode(m)] = login[LoginOfMode(m)]
    BY <2>1 DEF Ends, SignInTypeOK, Logins, LoginOfMode
  <2> QED  BY <2>1, <2>2 DEF RenewedInv
<1> QED  BY <1>1, <1>2, <1>3 DEF RenewedInv

\* A call that has its token, of the process it belongs to.
LEMMA ReturnsDoes ==
  ASSUME SignInTypeOK, NEW c \in Callers, newest' \in newest .. MaxIssued + 1,
         NEW t \in 0 .. newest', ReturnsToken(c, t)
  PROVE  /\ seen' \in [Processes -> 0 .. newest']
         /\ seen'[Home(c)] = IF seen[Home(c)] >= t THEN seen[Home(c)] ELSE t
         /\ \A p \in Processes \ {Home(c)} : seen'[p] = seen[p]
         /\ stage' \in [Callers -> Stages] /\ mode' \in [Callers -> Modes]
         /\ \A d \in Callers \ {c} : stage'[d] = stage[d] /\ mode'[d] = mode[d]
         /\ \/ Asked(c) = "relay" /\ mode[c] = "desktop"
               /\ stage'[c] = "asking" /\ mode'[c] = "claude"
            \/ ~(Asked(c) = "relay" /\ mode[c] = "desktop")
               /\ stage'[c] = "done" /\ mode'[c] = mode[c]
<1>1. Home(c) \in Processes  BY World
<1>2. /\ newest' \in Nat /\ t \in Nat /\ seen \in [Processes -> 0 .. newest']
      /\ seen[Home(c)] \in Nat /\ seen[Home(c)] <= newest'
  BY <1>1, TypesGrow
<1>3. Max({seen[Home(c)], t}) = IF seen[Home(c)] >= t THEN seen[Home(c)] ELSE t
  BY <1>2, MaxOfTwo
<1>4. seen' = [seen EXCEPT ![Home(c)] = IF seen[Home(c)] >= t THEN seen[Home(c)] ELSE t]
  BY <1>3 DEF ReturnsToken
<1>5. /\ seen' \in [Processes -> 0 .. newest']
      /\ seen'[Home(c)] = IF seen[Home(c)] >= t THEN seen[Home(c)] ELSE t
      /\ \A p \in Processes \ {Home(c)} : seen'[p] = seen[p]
  BY <1>1, <1>2, <1>4
<1>6. /\ stage' \in [Callers -> Stages] /\ mode' \in [Callers -> Modes]
      /\ \A d \in Callers \ {c} : stage'[d] = stage[d] /\ mode'[d] = mode[d]
      /\ \/ Asked(c) = "relay" /\ mode[c] = "desktop"
            /\ stage'[c] = "asking" /\ mode'[c] = "claude"
         \/ ~(Asked(c) = "relay" /\ mode[c] = "desktop")
            /\ stage'[c] = "done" /\ mode'[c] = mode[c]
  BY DEF ReturnsToken, Goes, SignInTypeOK, Stages, Modes
<1> QED  BY <1>5, <1>6

\* A caller that a step of another does not touch, or only by what the process shares.
Private(d) ==
  /\ stage'[d] = stage[d] /\ mode'[d] = mode[d] /\ asked'[d] = asked[d]
  /\ given'[d] = given[d] /\ why'[d] = why[d] /\ floor'[d] = floor[d]

LEMMA Bystander ==
  ASSUME SignInTypeOK, SignInTypeOK', world' = world, NEW d \in Callers, CallerInv(d), Private(d),
         seen[Home(d)] <= seen'[Home(d)], epoch[Home(d)] <= epoch'[Home(d)],
         \/ memo'[Home(d)] \in {memo[Home(d)], NoEntry}
         \/ ~(stage[d] \in OnKey /\ mode[d] \notin OwnModes) /\ Asked(d) \notin HelperAsks,
         \/ seen'[Home(d)] \in {seen[Home(d)], memo[Home(d)].token}
         \/ epoch[Home(d)] < epoch'[Home(d)]
         \/ Asked(d) \in HelperAsks \/ stage[d] # "ending",
         lockfile[LockOf(d)] = d => lockfile'[LockOf(d)] = d,
         inflight[Home(d)] = d => inflight'[Home(d)] = d,
         epoch[Home(d)] # epoch'[Home(d)] => memo'[Home(d)] = NoEntry,
         stage[d] = "browsing" /\ mode[d] \in renewed' => mode[d] \in renewed
  PROVE  CallerInv(d)'
<1>1. Home(d) \in Processes /\ Home(d)' = Home(d) /\ Asked(d)' = Asked(d) /\ LockOf(d)' = LockOf(d)
  BY World DEF Home, Asked, LockOf, Private
<1> HIDE DEF Home, Asked, LockOf
<1>2. StageInv(d)'
  BY <1>1 DEF CallerInv, StageInv, Private
<1>3. HolderInv(d)'
  BY <1>1 DEF CallerInv, HolderInv, Private
<1>4. PastInv(d)'
  BY <1>1 DEF CallerInv, PastInv, Private, SignInTypeOK
<1>5. TokenInv(d)'
  <2> SUFFICES ASSUME stage[d] = "ending", why[d] = "ok", asked[d] = epoch'[Home(d)]
               PROVE  /\ floor[d] <= given[d]
                      /\ seen'[Home(d)] <= given[d] /\ memo'[Home(d)].token <= given[d]
    BY <1>1 DEF CallerInv, TokenInv, Private
  <2>1. Asked(d) \notin HelperAsks /\ stage[d] \in OnKey /\ mode[d] \notin OwnModes
    BY DEF CallerInv, StageInv, OnKey
  <2>2. asked[d] \in Nat /\ epoch[Home(d)] \in Nat /\ epoch'[Home(d)] \in Nat
        /\ asked[d] <= epoch[Home(d)] /\ given[d] \in Nat
    BY <1>1 DEF CallerInv, PastInv, SignInTypeOK
  <2>3. asked[d] = epoch[Home(d)]
    BY <2>2
  <2>4. floor[d] <= given[d] /\ seen[Home(d)] <= given[d] /\ memo[Home(d)].token <= given[d]
    BY <2>3 DEF CallerInv, TokenInv
  <2>5. seen'[Home(d)] <= given[d]
    BY <2>1, <2>2, <2>3, <2>4
  <2>6. memo'[Home(d)] \in {memo[Home(d)], NoEntry}
    BY <2>1
  <2>7. memo'[Home(d)].token <= given[d]
    BY <2>2, <2>4, <2>6 DEF NoEntry
  <2> QED  BY <2>4, <2>5, <2>7
<1>6. BrowserInv(d)'
  BY <1>1 DEF CallerInv, BrowserInv, Private
<1> QED  BY <1>2, <1>3, <1>4, <1>5, <1>6 DEF CallerInv

LEMMA Onlooker ==
  ASSUME SignInTypeOK, SignInTypeOK', NEW d \in Callers, CallerInv(d), Private(d),
         UNCHANGED <<world, memory, seen>>,
         lockfile[LockOf(d)] = d => lockfile'[LockOf(d)] = d,
         stage[d] = "browsing" /\ mode[d] \in renewed' => mode[d] \in renewed
  PROVE  CallerInv(d)'
<1>1. /\ seen[Home(d)] <= seen'[Home(d)] /\ epoch[Home(d)] <= epoch'[Home(d)]
      /\ seen'[Home(d)] = seen[Home(d)]
  BY World DEF SignInTypeOK, memory
<1> QED  BY <1>1, Bystander DEF memory

LEMMA BeginCallKeeps ==
  ASSUME SignInInv, NEW c \in Callers, BeginCall(c)  PROVE SignInInv'
<1> USE DEF BeginCall, Goes, cli, memory, mine
<1>1. SignInTypeOK'
  BY World DEF SignInInv, SignInTypeOK, Stages
<1>2. MemoInv' /\ RenewedInv'
  BY DEF SignInInv, MemoInv, RenewedInv
<1>3. CallerInv(c)'
  <2>1. Home(c) \in Processes /\ Asked(c) \in Asks /\ Home(c)' = Home(c) /\ Asked(c)' = Asked(c)
    BY World DEF SignInInv, Home, Asked
  <2> HIDE DEF Home, Asked
  <2>2. StageInv(c)'
    BY <2>1 DEF SignInInv, CallerInv, StageInv, SignInTypeOK, OwnModes, HelperAsks, AtLockfile
  <2> QED
    BY <2>1, <2>2 DEF SignInInv, CallerInv, StageInv, HolderInv, PastInv, TokenInv, BrowserInv,
       SignInTypeOK, OwnModes, HelperAsks, AtLockfile, OnKey
<1>4. ASSUME NEW d \in Callers \ {c}  PROVE CallerInv(d)'
  <2>1. Private(d) /\ UNCHANGED <<world, memory, seen, lockfile, renewed>>
    BY DEF Private, SignInInv, SignInTypeOK
  <2> QED  BY <1>1, <2>1, Onlooker DEF SignInInv, LockOf, Private
<1> QED  BY <1>1, <1>2, <1>3, <1>4 DEF SignInInv

LEMMA ReauthKeeps ==
  ASSUME SignInInv, NEW c \in Callers, Reauth(c)  PROVE SignInInv'
<1> USE DEF Reauth, Goes, cli, memory
<1>1. newest' \in newest .. MaxIssued + 1 /\ login' \in [Logins -> States]
      /\ \A l \in Logins : login[l] = "live" => login'[l] = "live"
  BY RenewsDoes, CallersAssumption DEF SignInInv, SignInTypeOK
<1>2. SignInTypeOK'
  BY <1>1, TypesGrow DEF SignInInv, SignInTypeOK, Stages
<1>3. MemoInv' /\ RenewedInv'
  BY <1>1 DEF SignInInv, MemoInv, RenewedInv, SignInTypeOK, LoginOfMode, Logins
<1>4. CallerInv(c)'
  <2>1. Home(c) \in Processes /\ Asked(c) \in Asks /\ Home(c)' = Home(c) /\ Asked(c)' = Asked(c)
    BY World DEF SignInInv, Home, Asked
  <2> HIDE DEF Home, Asked
  <2>2. stage'[c] \in {"confirm", "ending"} /\ (stage'[c] = "ending" => why'[c] # "ok")
    BY DEF SignInInv, SignInTypeOK, CallerInv, StageInv
  <2>3. StageInv(c)'
    BY <2>1, <2>2 DEF SignInInv, CallerInv, StageInv, SignInTypeOK, HelperAsks, AtLockfile
  <2> QED
    BY <2>1, <2>2, <2>3 DEF SignInInv, CallerInv, HolderInv, PastInv, TokenInv, BrowserInv,
       SignInTypeOK, AtLockfile, OnKey
<1>5. ASSUME NEW d \in Callers \ {c}  PROVE CallerInv(d)'
  <2>1. Private(d) /\ UNCHANGED <<world, memory, seen, lockfile, renewed>>
    BY DEF Private, SignInInv, SignInTypeOK
  <2> QED  BY <1>2, <2>1, Onlooker DEF SignInInv, LockOf, Private
<1> QED  BY <1>2, <1>3, <1>4, <1>5 DEF SignInInv

LEMMA TakeKeeps ==
  ASSUME SignInInv, NEW c \in Callers, Take(c)  PROVE SignInInv'
<1> USE DEF Take, Goes, cli, memory, mine
<1>1. SignInTypeOK'
  BY DEF SignInInv, SignInTypeOK, Stages, Locks, LockOf
<1>2. MemoInv' /\ RenewedInv'
  BY DEF SignInInv, MemoInv, RenewedInv
<1>3. CallerInv(c)'
  <2>1. Home(c) \in Processes /\ Asked(c) \in Asks /\ Home(c)' = Home(c) /\ Asked(c)' = Asked(c)
    BY World DEF SignInInv, Home, Asked
  <2> HIDE DEF Home, Asked
  <2>2. stage'[c] = "recheck" /\ lockfile'[LockOf(c)'] = c
    BY DEF SignInInv, SignInTypeOK, LockOf, Locks
  <2>3. StageInv(c)'
    BY <2>1, <2>2 DEF SignInInv, CallerInv, StageInv, SignInTypeOK
  <2> QED
    BY <2>1, <2>2, <2>3 DEF SignInInv, CallerInv, HolderInv, PastInv, TokenInv, BrowserInv,
       OnKey
<1>4. ASSUME NEW d \in Callers \ {c}  PROVE CallerInv(d)'
  <2>1. Private(d) /\ UNCHANGED <<world, memory, seen, renewed>>
    BY DEF Private, SignInInv, SignInTypeOK
  <2>2. lockfile[LockOf(d)] = d => lockfile'[LockOf(d)] = d
    BY CallersAssumption DEF SignInInv, SignInTypeOK, LockOf, Locks
  <2> QED  BY <1>1, <2>1, <2>2, Onlooker DEF SignInInv
<1> QED  BY <1>1, <1>2, <1>3, <1>4 DEF SignInInv

LEMMA WaitKeeps ==
  ASSUME SignInInv, NEW c \in Callers, Wait(c)  PROVE SignInInv'
<1> USE DEF Wait, Fails, Goes, cli, memory
<1>1. SignInTypeOK'
  BY DEF SignInInv, SignInTypeOK, Stages
<1>2. MemoInv' /\ RenewedInv'
  BY DEF SignInInv, MemoInv, RenewedInv
<1>3. CallerInv(c)'
  <2>1. Home(c) \in Processes /\ Asked(c) \in Asks /\ Home(c)' = Home(c) /\ Asked(c)' = Asked(c)
    BY World DEF SignInInv, Home, Asked
  <2> HIDE DEF Home, Asked
  <2>2. stage'[c] \in {"waiting", "failed"}
    BY DEF SignInInv, SignInTypeOK
  <2>3. StageInv(c)'
    BY <2>1, <2>2 DEF SignInInv, CallerInv, StageInv, SignInTypeOK, AtLockfile
  <2> QED
    BY <2>1, <2>2, <2>3 DEF SignInInv, CallerInv, HolderInv, PastInv, TokenInv, BrowserInv,
       OnKey, AtLockfile
<1>4. ASSUME NEW d \in Callers \ {c}  PROVE CallerInv(d)'
  <2>1. Private(d) /\ UNCHANGED <<world, memory, seen, lockfile, renewed>>
    BY DEF Private, SignInInv, SignInTypeOK
  <2> QED  BY <1>1, <2>1, Onlooker DEF SignInInv
<1> QED  BY <1>1, <1>2, <1>3, <1>4 DEF SignInInv

\* Two callers of one kind are not both at the browser: one of them holds the lock.
LEMMA BrowseKeeps ==
  ASSUME SignInInv, NEW c \in Callers, Browse(c)  PROVE SignInInv'
<1> USE DEF Browse, Fails, Goes, Frees, cli, memory, mine
<1>1. /\ newest' \in newest .. MaxIssued + 1 /\ login' \in [Logins -> States]
      /\ \A l \in Logins : login[l] = "live" => login'[l] = "live"
      /\ renewed' = renewed \/ (renewed' = renewed \cup {mode[c]} /\ login'[LoginOf(c)] = "live")
  BY RenewsDoes, CallersAssumption DEF SignInInv, SignInTypeOK
<1>2. mode[c] \in {"helper"} \cup OwnModes /\ lockfile[LockOf(c)] = c
  BY DEF SignInInv, CallerInv, StageInv, HolderInv, AtLockfile
<1>3. lockfile' \in [Locks -> Callers \cup {NoCaller}]
  BY DEF SignInInv, SignInTypeOK, Locks, LockOf
<1>4. SignInTypeOK'
  BY <1>1, <1>2, <1>3, TypesGrow DEF SignInInv, SignInTypeOK, Stages, OwnModes
<1>5. MemoInv'
  BY DEF SignInInv, MemoInv
<1>6. RenewedInv'
  BY <1>1, <1>2 DEF SignInInv, RenewedInv, SignInTypeOK, LoginOfMode, LoginOf, Logins, OwnModes
<1>7. CallerInv(c)'
  <2>1. Home(c) \in Processes /\ Asked(c) \in Asks /\ Home(c)' = Home(c) /\ Asked(c)' = Asked(c)
    BY World DEF SignInInv, Home, Asked
  <2> HIDE DEF Home, Asked
  <2>2. stage'[c] \in {"confirm", "failed"}
    BY DEF SignInInv, SignInTypeOK
  <2>3. StageInv(c)'
    BY <2>1, <2>2 DEF SignInInv, CallerInv, StageInv, SignInTypeOK, AtLockfile
  <2> QED
    BY <2>1, <2>2, <2>3 DEF SignInInv, CallerInv, HolderInv, PastInv, TokenInv, BrowserInv,
       OnKey, AtLockfile
<1>8. ASSUME NEW d \in Callers \ {c}  PROVE CallerInv(d)'
  <2>1. Private(d) /\ UNCHANGED <<world, memory, seen>>
    BY DEF Private, SignInInv, SignInTypeOK
  <2>2. lockfile[LockOf(d)] = d => lockfile'[LockOf(d)] = d
    BY CallersAssumption DEF SignInInv, SignInTypeOK, LockOf, Locks
  <2>3. stage[d] = "browsing" => mode[d] # mode[c]
    BY <1>2 DEF SignInInv, CallerInv, HolderInv, AtLockfile, LockOf
  <2>4. stage[d] = "browsing" /\ mode[d] \in renewed' => mode[d] \in renewed
    BY <1>1, <2>3
  <2> QED  BY <1>4, <2>1, <2>2, <2>4, Onlooker DEF SignInInv
<1> QED  BY <1>4, <1>5, <1>6, <1>7, <1>8 DEF SignInInv

LEMMA SignKeeps ==
  ASSUME SignInInv, NEW c \in Callers, Sign(c)  PROVE SignInInv'
<1> USE DEF Sign, Goes, cli, memory
<1>1. /\ newest' \in newest .. MaxIssued + 1 /\ login' \in [Logins -> States]
      /\ losses' \in 0 .. MaxLosses /\ renewed' \subseteq renewed /\ RenewedInv'
  <2>1. CASE Renews(c) /\ UNCHANGED <<losses, renewed>>
    BY <2>1, RenewsDoes
       DEF SignInInv, SignInTypeOK, RenewedInv, LoginOfMode, Logins
  <2>2. CASE UNCHANGED <<cli, losses, renewed>>
    BY <2>2, CallersAssumption DEF SignInInv, SignInTypeOK, RenewedInv
  <2>3. CASE Ends("databricks") /\ UNCHANGED newest
    BY <2>3, EndsDoes, CallersAssumption DEF SignInInv, SignInTypeOK, Logins
  <2> QED  BY <2>1, <2>2, <2>3
<1>2. SignInTypeOK'
  BY <1>1, TypesGrow DEF SignInInv, SignInTypeOK, Stages
<1>3. MemoInv'
  BY DEF SignInInv, MemoInv
<1>4. CallerInv(c)'
  <2>1. Home(c) \in Processes /\ Asked(c) \in Asks /\ Home(c)' = Home(c) /\ Asked(c)' = Asked(c)
    BY World DEF SignInInv, Home, Asked
  <2> HIDE DEF Home, Asked
  <2>2. stage'[c] = "clearing"
    BY DEF SignInInv, SignInTypeOK
  <2>3. StageInv(c)'
    BY <2>1, <2>2 DEF SignInInv, CallerInv, StageInv, SignInTypeOK, AtLockfile
  <2> QED
    BY <2>1, <2>2, <2>3 DEF SignInInv, CallerInv, HolderInv, PastInv, TokenInv, BrowserInv,
       OnKey, AtLockfile
<1>5. ASSUME NEW d \in Callers \ {c}  PROVE CallerInv(d)'
  <2>1. Private(d) /\ UNCHANGED <<world, memory, seen, lockfile>>
    BY DEF Private, SignInInv, SignInTypeOK
  <2> QED  BY <1>1, <1>2, <2>1, Onlooker DEF SignInInv
<1> QED  BY <1>1, <1>2, <1>3, <1>4, <1>5 DEF SignInInv

\* A call that the memo answers, or sends away.
Hit(c) ==
  /\ stage[c] \in {"look", "queued"}
  /\ \/ mode[c] = "check" /\ Proceeds(c) /\ UNCHANGED given
     \/ /\ memo[Home(c)].kind = "token" /\ mode[c] \in {"token", "helper"}
        /\ ReturnsToken(c, memo[Home(c)].token)
        /\ given' = [given EXCEPT ![c] = memo[Home(c)].token]
     \/ Fails(c) /\ UNCHANGED given
  /\ UNCHANGED <<world, cli, lockfile, memory, asked, why, waited, losses, floor, renewed>>

LEMMA LooksUp ==
  ASSUME NEW c \in Callers
  PROVE  /\ Look(c) => \/ Hit(c)
                       \/ stage[c] = "look" /\ Goes(c, "queued")
                          /\ UNCHANGED <<world, cli, lockfile, memory, mode, mine, losses, seen,
                                         floor, renewed>>
         /\ Dequeue(c) =>
              \/ Hit(c)
              \/ stage[c] = "queued" /\ inflight[Home(c)] = NoCaller /\ Goes(c, "asking")
                 /\ inflight' = [inflight EXCEPT ![Home(c)] = c]
                 /\ asked' = [asked EXCEPT ![c] = epoch[Home(c)]]
                 /\ UNCHANGED <<world, cli, lockfile, memo, epoch, mode, given, why, waited, losses,
                                seen, floor, renewed>>
<1>1. ASSUME Look(c)
      PROVE  \/ Hit(c)
             \/ stage[c] = "look" /\ Goes(c, "queued")
                /\ UNCHANGED <<world, cli, lockfile, memory, mode, mine, losses, seen, floor,
                               renewed>>
  BY <1>1, Zenon DEF Look, Memoized, Hit, memory, mine
<1>2. ASSUME Dequeue(c)
      PROVE  \/ Hit(c)
             \/ stage[c] = "queued" /\ inflight[Home(c)] = NoCaller /\ Goes(c, "asking")
                /\ inflight' = [inflight EXCEPT ![Home(c)] = c]
                /\ asked' = [asked EXCEPT ![c] = epoch[Home(c)]]
                /\ UNCHANGED <<world, cli, lockfile, memo, epoch, mode, given, why, waited, losses,
                               seen, floor, renewed>>
  BY <1>2, Zenon DEF Dequeue, Memoized, Hit, memory, mine
<1> QED  BY <1>1, <1>2

LEMMA HitKeeps ==
  ASSUME SignInInv, NEW c \in Callers, Hit(c)  PROVE SignInInv'
<1> USE DEF Hit, cli, memory
<1>1. /\ Home(c) \in Processes /\ Asked(c) \in Asks /\ Home(c)' = Home(c) /\ Asked(c)' = Asked(c)
      /\ newest \in Nat /\ newest' = newest /\ newest' \in newest .. MaxIssued + 1
  BY World, CallersAssumption DEF SignInInv, SignInTypeOK, Home, Asked
<1>2. Asked(c) \notin HelperAsks /\ mode[c] \notin OwnModes /\ Asked(c) # "nothing"
  BY DEF SignInInv, CallerInv, StageInv
<1> HIDE DEF Home, Asked
<1>3. CASE mode[c] = "check" /\ Proceeds(c) /\ UNCHANGED given
  <2> USE <1>3 DEF Proceeds, Goes
  <2>1. SignInTypeOK'
    BY DEF SignInInv, SignInTypeOK, Stages, Modes
  <2>2. MemoInv' /\ RenewedInv'
    BY DEF SignInInv, MemoInv, RenewedInv
  <2>3. CallerInv(c)'
    <3>1. stage'[c] = "idle" /\ mode'[c] = "token"
      BY DEF SignInInv, SignInTypeOK
    <3> QED
      BY <1>1, <1>2, <3>1 DEF SignInInv, CallerInv, StageInv, HolderInv, PastInv, TokenInv,
         BrowserInv, AtLockfile, OnKey, OwnModes
  <2>4. ASSUME NEW d \in Callers \ {c}  PROVE CallerInv(d)'
    <3>1. Private(d) /\ UNCHANGED <<world, memory, seen, lockfile, renewed>>
      BY DEF Private, SignInInv, SignInTypeOK
    <3> QED  BY <2>1, <3>1, Onlooker DEF SignInInv
  <2> QED  BY <2>1, <2>2, <2>3, <2>4 DEF SignInInv
<1>4. CASE Fails(c) /\ UNCHANGED given
  <2> USE <1>4 DEF Fails, Goes
  <2>1. SignInTypeOK'
    BY DEF SignInInv, SignInTypeOK, Stages
  <2>2. MemoInv' /\ RenewedInv'
    BY DEF SignInInv, MemoInv, RenewedInv
  <2>3. CallerInv(c)'
    <3>1. stage'[c] = "failed"
      BY DEF SignInInv, SignInTypeOK
    <3> QED
      BY <1>1, <1>2, <3>1 DEF SignInInv, CallerInv, StageInv, HolderInv, PastInv, TokenInv,
         BrowserInv, AtLockfile, OnKey, OwnModes
  <2>4. ASSUME NEW d \in Callers \ {c}  PROVE CallerInv(d)'
    <3>1. Private(d) /\ UNCHANGED <<world, memory, seen, lockfile, renewed>>
      BY DEF Private, SignInInv, SignInTypeOK
    <3> QED  BY <2>1, <3>1, Onlooker DEF SignInInv
  <2> QED  BY <2>1, <2>2, <2>3, <2>4 DEF SignInInv
<1>5. CASE /\ memo[Home(c)].kind = "token" /\ mode[c] \in {"token", "helper"}
           /\ ReturnsToken(c, memo[Home(c)].token)
           /\ given' = [given EXCEPT ![c] = memo[Home(c)].token]
  <2> DEFINE t == memo[Home(c)].token
  <2>1. t \in 0 .. newest' /\ t \in Nat /\ seen[Home(c)] \in Nat /\ seen[Home(c)] <= t
    BY <1>1, <1>5 DEF SignInInv, SignInTypeOK, MemoInv, Memos, NoEntry, Failure, Entry
  <2> HIDE DEF t
  <2>2. /\ seen' \in [Processes -> 0 .. newest'] /\ seen'[Home(c)] = t
        /\ \A p \in Processes \ {Home(c)} : seen'[p] = seen[p]
        /\ stage' \in [Callers -> Stages] /\ mode' \in [Callers -> Modes]
        /\ \A d \in Callers \ {c} : stage'[d] = stage[d] /\ mode'[d] = mode[d]
        /\ stage'[c] = "done" /\ mode'[c] = mode[c]
    <3>1. ReturnsToken(c, t)  BY <1>5 DEF t
    <3> QED  BY <1>1, <1>2, <2>1, <3>1, ReturnsDoes DEF SignInInv, HelperAsks
  <2>3. SignInTypeOK'
    BY <1>1, <1>5, <2>1, <2>2 DEF SignInInv, SignInTypeOK, t
  <2>4. MemoInv'
    BY <1>1, <2>1, <2>2 DEF SignInInv, MemoInv, t
  <2>5. RenewedInv'
    BY DEF SignInInv, RenewedInv
  <2>6. CallerInv(c)'
    <3>1. /\ given'[c] = t /\ seen[Home(c)] <= seen'[Home(c)]
          /\ floor[c] \in Nat /\ floor[c] <= t /\ floor[c] <= seen'[Home(c)]
      BY <1>1, <1>5, <2>1, <2>2 DEF SignInInv, SignInTypeOK, CallerInv, PastInv, t
    <3> QED
      BY <1>1, <1>2, <2>2, <3>1 DEF SignInInv, CallerInv, StageInv, HolderInv, PastInv, TokenInv,
         BrowserInv, AtLockfile, OnKey, OwnModes
  <2>7. ASSUME NEW d \in Callers \ {c}  PROVE CallerInv(d)'
    <3>1. Private(d) /\ UNCHANGED <<world, memory, lockfile, renewed>>
      BY <1>5, <2>2 DEF Private, SignInInv, SignInTypeOK
    <3>2. Home(d) \in Processes /\ epoch[Home(d)] \in Nat
      BY World DEF SignInInv, SignInTypeOK
    <3>3. /\ seen[Home(d)] <= seen'[Home(d)]
          /\ seen'[Home(d)] \in {seen[Home(d)], memo[Home(d)].token}
      BY <2>1, <2>2, <3>2 DEF SignInInv, SignInTypeOK, t
    <3> QED  BY <2>3, <3>1, <3>2, <3>3, Bystander DEF SignInInv
  <2> QED  BY <2>3, <2>4, <2>5, <2>6, <2>7 DEF SignInInv
<1> QED  BY <1>3, <1>4, <1>5

LEMMA LookKeeps ==
  ASSUME SignInInv, NEW c \in Callers, Look(c)  PROVE SignInInv'
<1>1. CASE Hit(c)  BY <1>1, HitKeeps
<1>2. CASE /\ stage[c] = "look" /\ Goes(c, "queued")
           /\ UNCHANGED <<world, cli, lockfile, memory, mode, mine, losses, seen, floor, renewed>>
  <2> USE <1>2 DEF Goes, cli, memory, mine
  <2>1. SignInTypeOK'
    BY DEF SignInInv, SignInTypeOK, Stages
  <2>2. MemoInv' /\ RenewedInv'
    BY DEF SignInInv, MemoInv, RenewedInv
  <2>3. CallerInv(c)'
    <3>1. /\ stage'[c] = "queued" /\ Home(c) \in Processes
          /\ Home(c)' = Home(c) /\ Asked(c)' = Asked(c)
      BY World DEF SignInInv, SignInTypeOK, Home, Asked
    <3> HIDE DEF Home, Asked
    <3> QED
      BY <3>1 DEF SignInInv, CallerInv, StageInv, HolderInv, PastInv, TokenInv,
         BrowserInv, AtLockfile, OnKey, OwnModes
  <2>4. ASSUME NEW d \in Callers \ {c}  PROVE CallerInv(d)'
    <3>1. Private(d) /\ UNCHANGED <<world, memory, seen, lockfile, renewed>>
      BY DEF Private, SignInInv, SignInTypeOK
    <3> QED  BY <2>1, <3>1, Onlooker DEF SignInInv
  <2> QED  BY <2>1, <2>2, <2>3, <2>4 DEF SignInInv
<1> QED  BY <1>1, <1>2, LooksUp

\* The key's lock is free, so no other call of the process is between it and its end.
LEMMA DequeueKeeps ==
  ASSUME SignInInv, NEW c \in Callers, Dequeue(c)  PROVE SignInInv'
<1>1. CASE Hit(c)  BY <1>1, HitKeeps
<1>2. CASE /\ stage[c] = "queued" /\ inflight[Home(c)] = NoCaller /\ Goes(c, "asking")
           /\ inflight' = [inflight EXCEPT ![Home(c)] = c]
           /\ asked' = [asked EXCEPT ![c] = epoch[Home(c)]]
           /\ UNCHANGED <<world, cli, lockfile, memo, epoch, mode, given, why, waited, losses,
                          seen, floor, renewed>>
  <2> USE <1>2 DEF Goes, cli
  <2>1. /\ Home(c) \in Processes /\ Home(c)' = Home(c) /\ Asked(c)' = Asked(c)
        /\ epoch[Home(c)] \in Nat
    BY World DEF SignInInv, SignInTypeOK, Home, Asked
  <2>2. SignInTypeOK'
    BY <2>1 DEF SignInInv, SignInTypeOK, Stages
  <2>3. MemoInv' /\ RenewedInv'
    BY DEF SignInInv, MemoInv, RenewedInv
  <2>4. CallerInv(c)'
    <3>1. stage'[c] = "asking" /\ asked'[c] = epoch[Home(c)] /\ inflight'[Home(c)] = c
      BY <2>1 DEF SignInInv, SignInTypeOK
    <3> HIDE DEF Home, Asked
    <3> QED
      BY <2>1, <3>1 DEF SignInInv, CallerInv, StageInv, HolderInv, PastInv, TokenInv,
         BrowserInv, AtLockfile, OnKey, OwnModes
  <2>5. ASSUME NEW d \in Callers \ {c}  PROVE CallerInv(d)'
    <3>1. Private(d) /\ UNCHANGED <<world, memo, epoch, seen, lockfile, renewed>>
      BY DEF Private, SignInInv, SignInTypeOK
    <3>2. Home(d) \in Processes /\ epoch[Home(d)] \in Nat /\ seen[Home(d)] \in Nat
      BY World DEF SignInInv, SignInTypeOK
    <3>3. inflight[Home(d)] = d => inflight'[Home(d)] = d
      BY <2>1, <3>2, CallersAssumption DEF SignInInv, SignInTypeOK
    <3>4. seen[Home(d)] <= seen'[Home(d)] /\ epoch[Home(d)] <= epoch'[Home(d)]
      BY <3>1, <3>2
    <3> QED  BY <2>2, <3>1, <3>3, <3>4, Bystander DEF SignInInv
  <2> QED  BY <2>2, <2>3, <2>4, <2>5 DEF SignInInv
<1> QED  BY <1>1, <1>2, LooksUp

\* Claude Desktop's helper has one of its credentials: the process has no other calls.
LEMMA HelperReturns ==
  ASSUME SignInInv, NEW c \in Callers, mode[c] \in OwnModes,
         newest' \in newest .. MaxIssued + 1, NEW t \in 0 .. newest', ReturnsToken(c, t),
         given' \in [Callers -> 0 .. newest'], why' \in [Callers -> {"ok", "auth", "transient"}],
         \A d \in Callers \ {c} : given'[d] = given[d] /\ why'[d] = why[d],
         lockfile' = lockfile \/ Frees(c),
         login' \in [Logins -> States],
         \A l \in Logins : login[l] = "live" => login'[l] = "live",
         UNCHANGED <<world, memory, asked, waited, losses, floor, renewed>>
  PROVE  SignInInv'
<1> USE DEF memory
<1>1. /\ Home(c) \in Processes /\ Asked(c) \in HelperAsks
      /\ Home(c)' = Home(c) /\ Asked(c)' = Asked(c)
      /\ \A d \in Callers \ {c} : Home(d) = Home(c) => Asked(d) = "nothing"
      /\ memo[Home(c)] = NoEntry
  <2>1. SignInTypeOK /\ CallerInv(c)  BY DEF SignInInv
  <2>2. Asked(c) \in HelperAsks  BY <2>1 DEF CallerInv, StageInv
  <2>3. Home(c)' = Home(c) /\ Asked(c)' = Asked(c)  BY DEF Home, Asked
  <2>4. memo[Home(c)] = NoEntry  BY <2>1, <2>2 DEF CallerInv, PastInv
  <2> QED  BY <2>1, <2>2, <2>3, <2>4, World
<1> HIDE DEF Home, Asked
<1>2. /\ seen' \in [Processes -> 0 .. newest']
      /\ seen'[Home(c)] = IF seen[Home(c)] >= t THEN seen[Home(c)] ELSE t
      /\ \A p \in Processes \ {Home(c)} : seen'[p] = seen[p]
      /\ stage' \in [Callers -> Stages] /\ mode' \in [Callers -> Modes]
      /\ \A d \in Callers \ {c} : stage'[d] = stage[d] /\ mode'[d] = mode[d]
      /\ stage'[c] \in {"asking", "done"} /\ mode'[c] \in OwnModes
  BY ReturnsDoes DEF SignInInv, OwnModes
<1>3. lockfile' \in [Locks -> Callers \cup {NoCaller}]
      /\ \A d \in Callers \ {c} : lockfile[LockOf(d)] = d => lockfile'[LockOf(d)] = d
  BY DEF SignInInv, SignInTypeOK, Frees, LockOf, Locks
<1>4. newest' \in Nat /\ newest \in Nat /\ t \in Nat /\ seen[Home(c)] \in Nat
      /\ seen[Home(c)] <= seen'[Home(c)] /\ seen'[Home(c)] \in Nat
  BY <1>1, <1>2, TypesGrow DEF SignInInv, SignInTypeOK
<1>5. SignInTypeOK'
  BY <1>2, <1>3, TypesGrow DEF SignInInv, SignInTypeOK
<1>6. MemoInv' /\ RenewedInv'
  BY <1>1, <1>2 DEF SignInInv, MemoInv, RenewedInv, NoEntry, SignInTypeOK, LoginOfMode, Logins
<1>7. CallerInv(c)'
  <2>1. floor[c] <= seen'[Home(c)]
    BY <1>1, <1>4 DEF SignInInv, CallerInv, PastInv, SignInTypeOK
  <2> QED
    BY <1>1, <1>2, <2>1 DEF SignInInv, CallerInv, StageInv, HolderInv, PastInv, TokenInv,
       BrowserInv, AtLockfile, OnKey, OwnModes, HelperAsks
<1>8. ASSUME NEW d \in Callers \ {c}  PROVE CallerInv(d)'
  <2>1. Private(d)
    BY <1>2 DEF Private
  <2>2. Home(d) \in Processes /\ epoch[Home(d)] \in Nat /\ seen[Home(d)] \in Nat
    BY World DEF SignInInv, SignInTypeOK
  <2>3. seen[Home(d)] <= seen'[Home(d)]
    BY <1>2, <1>4, <2>2
  <2>4. seen'[Home(d)] = seen[Home(d)] \/ stage[d] # "ending"
    BY <1>1, <1>2, <2>2 DEF SignInInv, CallerInv, StageInv
  <2> QED  BY <1>3, <1>5, <2>1, <2>2, <2>3, <2>4, Bystander DEF SignInInv
<1> QED  BY <1>5, <1>6, <1>7, <1>8 DEF SignInInv

\* A call goes on, with what the CLI has answered.
LEMMA CallGoesOn ==
  ASSUME SignInInv, NEW c \in Callers, NEW label \in Stages, Goes(c, label),
         stage[c] \in OnKey \cup {"status"}, label \notin {"idle", "done"},
         label = "status" => mode[c] = "claude",
         label \in {"waiting"} \cup AtLockfile => mode[c] \in {"helper"} \cup OwnModes,
         label \in {"reauth", "ending"} => mode[c] \notin OwnModes,
         label \notin {"look", "queued", "signing", "clearing"},
         label = "reauth" => why'[c] # "ok",
         label \in AtLockfile => lockfile[LockOf(c)] = c /\ UNCHANGED lockfile,
         label = "browsing" /\ why'[c] # "transient" => mode[c] \notin renewed,
         label = "ending" /\ why'[c] = "ok" => given'[c] = newest',
         newest' \in newest .. MaxIssued + 1,
         given' \in [Callers -> 0 .. newest'], why' \in [Callers -> {"ok", "auth", "transient"}],
         \A d \in Callers \ {c} : given'[d] = given[d] /\ why'[d] = why[d],
         lockfile' = lockfile \/ Frees(c),
         UNCHANGED <<world, login, memory, mode, asked, waited, losses, seen, floor, renewed>>
  PROVE  SignInInv'
<1> USE DEF memory, Goes
<1>1. /\ Home(c) \in Processes /\ Home(c)' = Home(c) /\ Asked(c)' = Asked(c)
      /\ LockOf(c)' = LockOf(c)
  BY World DEF SignInInv, Home, Asked, LockOf
<1> HIDE DEF Home, Asked
<1>2. lockfile' \in [Locks -> Callers \cup {NoCaller}]
      /\ \A d \in Callers \ {c} : lockfile[LockOf(d)] = d => lockfile'[LockOf(d)] = d
  BY DEF SignInInv, SignInTypeOK, Frees, LockOf, Locks
<1>3. SignInTypeOK'
  BY <1>2, TypesGrow DEF SignInInv, SignInTypeOK
<1>4. MemoInv' /\ RenewedInv'
  BY DEF SignInInv, MemoInv, RenewedInv
<1>5. stage'[c] = label /\ Asked(c) # "nothing"
  BY DEF SignInInv, SignInTypeOK, CallerInv, StageInv, OnKey
<1>6. CallerInv(c)'
  <2>1. StageInv(c)' /\ HolderInv(c)'
    BY <1>1, <1>5 DEF SignInInv, CallerInv, StageInv, HolderInv, AtLockfile, OnKey, OwnModes
  <2>2. PastInv(c)'
    BY <1>1, <1>5 DEF SignInInv, CallerInv, StageInv, PastInv, OnKey, OwnModes
  <2>3. TokenInv(c)'
    <3>1. CASE label = "ending" /\ why'[c] = "ok"
      <4>1. /\ given'[c] = newest' /\ newest \in Nat /\ newest' \in Nat /\ newest <= newest'
            /\ newest # 0
        BY <3>1, TypesGrow DEF SignInInv, SignInTypeOK
      <4>2. floor[c] \in 0 .. newest /\ seen[Home(c)] \in 0 .. newest
            /\ memo[Home(c)].token \in 0 .. newest
        BY <1>1 DEF SignInInv, SignInTypeOK, Memos, NoEntry, Failure, Entry
      <4>3. given'[c] # 0 /\ floor[c] <= given'[c] /\ seen[Home(c)] <= given'[c] /\ memo[Home(c)].token <= given'[c]
        BY <4>1, <4>2
      <4> QED  BY <1>1, <1>5, <3>1, <4>3 DEF TokenInv
    <3>2. CASE ~(label = "ending" /\ why'[c] = "ok")
      BY <1>5, <3>2 DEF TokenInv
    <3> QED  BY <3>1, <3>2
  <2>4. BrowserInv(c)'
    BY <1>5 DEF BrowserInv
  <2> QED  BY <2>1, <2>2, <2>3, <2>4 DEF CallerInv
<1>7. ASSUME NEW d \in Callers \ {c}  PROVE CallerInv(d)'
  <2>1. Private(d)
    BY DEF Private, SignInInv, SignInTypeOK
  <2> QED  BY <1>2, <1>3, <2>1, Onlooker DEF SignInInv
<1> QED  BY <1>3, <1>4, <1>6, <1>7 DEF SignInInv

\* What a login that is not live says of the browsers.
LEMMA NotRenewed ==
  ASSUME SignInInv, NEW c \in Callers, mode[c] \in {"helper"} \cup OwnModes,
         login[LoginOf(c)] # "live"
  PROVE  mode[c] \notin renewed
BY DEF SignInInv, RenewedInv, LoginOf, LoginOfMode, OwnModes

LEMMA AskKeeps ==
  ASSUME SignInInv, NEW c \in Callers, Ask(c)  PROVE SignInInv'
<1>1. /\ newest' \in newest .. MaxIssued + 1
      /\ why' \in [Callers -> {"ok", "auth", "transient"}] /\ given' \in [Callers -> 0 .. newest']
      /\ \A d \in Callers \ {c} : given'[d] = given[d] /\ why'[d] = why[d]
      /\ why'[c] = "ok" => given'[c] = IF mode[c] = "claude" THEN given[c] ELSE newest'
      /\ stage[c] = "asking" /\ mode[c] \in Modes
      /\ UNCHANGED <<world, login, lockfile, memory, asked, waited, losses, floor, renewed>>
  BY AnswersDoes DEF Ask, SignInInv, SignInTypeOK
<1>2. \/ mode[c] \in OwnModes /\ ReturnsToken(c, given'[c])
      \/ UNCHANGED <<mode, seen>> /\ \E label \in {"waiting", "failed", "reauth", "ending"} :
           /\ Goes(c, label)
           /\ label = "waiting" => mode[c] \in {"helper"} \cup OwnModes
           /\ label \in {"reauth", "ending"} => mode[c] \notin OwnModes
           /\ label = "reauth" => why'[c] # "ok"
  BY <1>1 DEF Ask, Fails, OwnModes, Modes
<1>3. CASE mode[c] \in OwnModes /\ ReturnsToken(c, given'[c])
  BY <1>1, <1>3, HelperReturns DEF SignInInv, SignInTypeOK
<1>4. ASSUME UNCHANGED <<mode, seen>>, NEW label \in {"waiting", "failed", "reauth", "ending"},
             Goes(c, label), label = "waiting" => mode[c] \in {"helper"} \cup OwnModes,
             label \in {"reauth", "ending"} => mode[c] \notin OwnModes,
             label = "reauth" => why'[c] # "ok"
      PROVE  SignInInv'
  BY <1>1, <1>4, CallGoesOn DEF Stages, OnKey, AtLockfile, OwnModes
<1> QED  BY <1>2, <1>3, <1>4

LEMMA RecheckKeeps ==
  ASSUME SignInInv, NEW c \in Callers, Recheck(c)  PROVE SignInInv'
<1>1. /\ newest' \in newest .. MaxIssued + 1
      /\ why' \in [Callers -> {"ok", "auth", "transient"}] /\ given' \in [Callers -> 0 .. newest']
      /\ \A d \in Callers \ {c} : given'[d] = given[d] /\ why'[d] = why[d]
      /\ why'[c] = "ok" => given'[c] = IF mode[c] = "claude" THEN given[c] ELSE newest'
      /\ why'[c] = "auth" => login[LoginOf(c)] # "live"
      /\ stage[c] = "recheck"
      /\ UNCHANGED <<world, login, memory, asked, waited, losses, floor, renewed>>
  BY AnswersDoes DEF Recheck, SignInInv, SignInTypeOK
<1>2. mode[c] \in {"helper"} \cup OwnModes /\ lockfile[LockOf(c)] = c
  BY <1>1 DEF SignInInv, CallerInv, StageInv, HolderInv, AtLockfile
<1>3. why'[c] \in {"ok", "auth", "transient"}
  BY <1>1
<1>4. \/ mode[c] \in OwnModes /\ ReturnsToken(c, given'[c]) /\ Frees(c)
      \/ UNCHANGED <<mode, seen>> /\ \E label \in {"ending", "browsing", "status", "failed"} :
           /\ Goes(c, label)
           /\ label \in AtLockfile => UNCHANGED lockfile
           /\ label \notin AtLockfile => Frees(c)
           /\ label = "ending" => mode[c] \notin OwnModes
           /\ label = "status" => mode[c] = "claude"
           /\ label = "browsing" => why'[c] # "ok"
  BY <1>2, <1>3 DEF Recheck, Fails, OwnModes, AtLockfile
<1>5. CASE mode[c] \in OwnModes /\ ReturnsToken(c, given'[c]) /\ Frees(c)
  BY <1>1, <1>5, HelperReturns DEF SignInInv, SignInTypeOK
<1>6. ASSUME UNCHANGED <<mode, seen>>, NEW label \in {"ending", "browsing", "status", "failed"},
             Goes(c, label), label \in AtLockfile => UNCHANGED lockfile,
             label \notin AtLockfile => Frees(c), label = "ending" => mode[c] \notin OwnModes,
             label = "status" => mode[c] = "claude", label = "browsing" => why'[c] # "ok"
      PROVE  SignInInv'
  <2>1. label = "browsing" /\ why'[c] # "transient" => mode[c] \notin renewed
    BY <1>1, <1>2, <1>3, <1>6, NotRenewed
  <2> QED  BY <1>1, <1>2, <1>6, <2>1, CallGoesOn DEF Stages, OnKey, AtLockfile, OwnModes
<1> QED  BY <1>4, <1>5, <1>6

LEMMA StatusKeeps ==
  ASSUME SignInInv, NEW c \in Callers, Status(c)  PROVE SignInInv'
<1> USE DEF Status, mine
<1>1. mode[c] = "claude" /\ lockfile[LockOf(c)] = c
  BY DEF SignInInv, CallerInv, StageInv, HolderInv, AtLockfile
<1>2. /\ newest' = newest /\ newest \in Nat /\ newest' \in newest .. MaxIssued + 1
      /\ given' \in [Callers -> 0 .. newest'] /\ why' \in [Callers -> {"ok", "auth", "transient"}]
  BY CallersAssumption DEF SignInInv, SignInTypeOK
<1>3. CASE /\ login' = [login EXCEPT !["claude"] = "live"]
           /\ Frees(c) /\ ReturnsToken(c, 0)
  <2>1. login' \in [Logins -> States] /\ \A l \in Logins : login[l] = "live" => login'[l] = "live"
    BY <1>3 DEF SignInInv, SignInTypeOK, Logins, States
  <2> QED  BY <1>1, <1>2, <1>3, <2>1, HelperReturns DEF OwnModes
<1>4. CASE /\ login["claude"] # "live" /\ Goes(c, "browsing")
           /\ UNCHANGED <<login, lockfile, mode, seen>>
  <2>1. mode[c] \notin renewed
    BY <1>1, <1>4, NotRenewed DEF LoginOf, OwnModes
  <2> QED  BY <1>1, <1>2, <1>4, <2>1, CallGoesOn DEF Stages, OnKey, AtLockfile, OwnModes
<1>5. CASE Frees(c) /\ Fails(c) /\ UNCHANGED login
  BY <1>1, <1>2, <1>5, CallGoesOn DEF Fails, Stages, OnKey, AtLockfile, OwnModes
<1> QED  BY <1>3, <1>4, <1>5

LEMMA ConfirmKeeps ==
  ASSUME SignInInv, NEW c \in Callers, Confirm(c)  PROVE SignInInv'
<1>1. /\ newest' \in newest .. MaxIssued + 1
      /\ why' \in [Callers -> {"ok", "auth", "transient"}] /\ given' \in [Callers -> 0 .. newest']
      /\ \A d \in Callers \ {c} : given'[d] = given[d] /\ why'[d] = why[d]
      /\ why'[c] = "ok" => given'[c] = IF mode[c] = "claude" THEN given[c] ELSE newest'
      /\ stage[c] = "confirm" /\ Frees(c)
      /\ UNCHANGED <<world, login, memory, asked, waited, losses, floor, renewed>>
  BY AnswersDoes DEF Confirm, SignInInv, SignInTypeOK
<1>2. \/ mode[c] \in OwnModes /\ ReturnsToken(c, given'[c])
      \/ UNCHANGED <<mode, seen>> /\ Goes(c, "failed")
      \/ UNCHANGED <<mode, seen>> /\ Goes(c, "ending") /\ mode[c] \notin OwnModes
  BY DEF Confirm, Fails, OwnModes
<1>3. CASE mode[c] \in OwnModes /\ ReturnsToken(c, given'[c])
  BY <1>1, <1>3, HelperReturns DEF SignInInv, SignInTypeOK
<1>4. CASE UNCHANGED <<mode, seen>> /\ Goes(c, "failed")
  BY <1>1, <1>4, CallGoesOn DEF Stages, OnKey, AtLockfile, OwnModes
<1>5. CASE UNCHANGED <<mode, seen>> /\ Goes(c, "ending") /\ mode[c] \notin OwnModes
  BY <1>1, <1>5, CallGoesOn DEF Stages, OnKey, AtLockfile, OwnModes
<1> QED  BY <1>2, <1>3, <1>4, <1>5

\* Only the holder of the key's lock writes to the memo, and what it writes in its own
\* epoch is not behind what the process has seen.
LEMMA EndKeeps ==
  ASSUME SignInInv, NEW c \in Callers, End(c)  PROVE SignInInv'
<1>1. /\ Home(c) \in Processes /\ Home(c)' = Home(c) /\ Asked(c)' = Asked(c)
      /\ UNCHANGED <<world, login, newest, lockfile, epoch, asked, given, why, waited, losses,
                     floor, renewed>>
      /\ newest \in Nat /\ newest' \in newest .. MaxIssued + 1
  BY World, CallersAssumption
     DEF SignInInv, SignInTypeOK, End, Home, Asked, cli, mine
<1>2. /\ stage[c] = "ending" /\ mode[c] \notin OwnModes /\ Asked(c) \notin HelperAsks
      /\ Asked(c) # "nothing" /\ inflight[Home(c)] = c
  BY DEF End, SignInInv, CallerInv, StageInv, HolderInv, OnKey
<1>3. /\ given[c] \in 0 .. newest /\ given[c] \in Nat /\ seen[Home(c)] \in Nat
      /\ floor[c] \in Nat /\ floor[c] <= seen[Home(c)]
      /\ asked[c] # epoch[Home(c)] => memo[Home(c)] = NoEntry
      /\ why[c] = "ok" => given[c] # 0 /\ floor[c] <= given[c]
      /\ why[c] = "ok" /\ asked[c] = epoch[Home(c)] => seen[Home(c)] <= given[c]
  BY <1>1, <1>2 DEF SignInInv, SignInTypeOK, CallerInv, PastInv, TokenInv, OnKey
<1>4. ASSUME NEW d \in Callers \ {c}, Home(d) = Home(c)
      PROVE  Asked(d) \notin HelperAsks /\ ~(stage[d] \in OnKey /\ mode[d] \notin OwnModes)
             /\ stage[d] # "ending"
  BY <1>2, <1>4, World DEF SignInInv, CallerInv, HolderInv, StageInv, OnKey
<1> HIDE DEF Home, Asked
\* The memo.
<1>5. /\ \/ memo' = memo /\ (why[c] = "ok" => asked[c] # epoch[Home(c)])
         \/ why[c] = "ok" /\ asked[c] = epoch[Home(c)]
            /\ \E m \in {Entry(given[c]), NoEntry} : memo' = [memo EXCEPT ![Home(c)] = m]
         \/ memo' = [memo EXCEPT ![Home(c)] = Failure]
      /\ inflight' = [inflight EXCEPT ![Home(c)] = NoCaller]
  <2>1. Remember(c) /\ inflight' = [inflight EXCEPT ![Home(c)] = NoCaller]
    BY DEF End
  <2>2. CASE asked[c] # epoch[Home(c)]
    BY <2>1, <2>2 DEF Remember
  <2>3. CASE asked[c] = epoch[Home(c)] /\ why[c] = "ok"
    BY <2>1, <2>3 DEF Remember, Memorize
  <2>4. CASE asked[c] = epoch[Home(c)] /\ why[c] # "ok"
    BY <2>1, <2>4 DEF Remember, Memorize
  <2> QED  BY <2>1, <2>2, <2>3, <2>4
<1>6. memo' \in [Processes -> Memos(newest)] /\ inflight' \in [Processes -> Callers \cup {NoCaller}]
  <2>1. NoEntry \in Memos(newest) /\ Failure \in Memos(newest)
    BY DEF Memos
  <2>2. why[c] = "ok" => Entry(given[c]) \in Memos(newest)
    BY <1>1, <1>3 DEF Memos
  <2> QED  BY <1>1, <1>5, <2>1, <2>2 DEF SignInInv, SignInTypeOK
<1>7. /\ \A p \in Processes \ {Home(c)} : memo'[p] = memo[p] /\ inflight'[p] = inflight[p]
      /\ memo'[Home(c)].kind = "token" =>
           /\ seen[Home(c)] <= memo'[Home(c)].token
           /\ why[c] = "ok" => given[c] <= memo'[Home(c)].token
  <2>1. \A p \in Processes \ {Home(c)} : memo'[p] = memo[p] /\ inflight'[p] = inflight[p]
    BY <1>5 DEF SignInInv, SignInTypeOK
  <2>2. CASE memo' = memo /\ (why[c] = "ok" => asked[c] # epoch[Home(c)])
    BY <1>1, <1>3, <2>1, <2>2 DEF SignInInv, MemoInv, NoEntry
  <2>3. ASSUME why[c] = "ok", asked[c] = epoch[Home(c)], NEW m \in {Entry(given[c]), NoEntry},
               memo' = [memo EXCEPT ![Home(c)] = m]
        PROVE  /\ memo'[Home(c)].kind = "token" =>
                    seen[Home(c)] <= memo'[Home(c)].token /\ given[c] <= memo'[Home(c)].token
    BY <1>1, <1>3, <2>3 DEF SignInInv, SignInTypeOK, Entry, NoEntry
  <2>4. CASE memo' = [memo EXCEPT ![Home(c)] = Failure]
    BY <1>1, <2>1, <2>4 DEF SignInInv, SignInTypeOK, Failure
  <2> QED  BY <1>5, <2>1, <2>2, <2>3, <2>4
\* The caller.
<1>8. \/ /\ why[c] = "ok" /\ ReturnsToken(c, given[c])
      \/ /\ mode[c] = "check" /\ stage' = [stage EXCEPT ![c] = "idle"]
         /\ mode' = [mode EXCEPT ![c] = "token"] /\ UNCHANGED seen
      \/ \E label \in {"signing", "failed"} :
           stage' = [stage EXCEPT ![c] = label] /\ UNCHANGED <<mode, seen>>
  BY DEF End, Proceeds, Fails, Goes
<1>9. /\ stage' \in [Callers -> Stages] /\ mode' \in [Callers -> Modes]
      /\ seen' \in [Processes -> 0 .. newest]
      /\ \A d \in Callers \ {c} : stage'[d] = stage[d] /\ mode'[d] = mode[d]
      /\ \A p \in Processes \ {Home(c)} : seen'[p] = seen[p]
      /\ \/ seen'[Home(c)] = seen[Home(c)]
         \/ why[c] = "ok" /\ seen'[Home(c)] = given[c] /\ seen[Home(c)] <= given[c]
      /\ stage'[c] \in {"done", "idle", "signing", "failed"} /\ mode'[c] \in Modes \ OwnModes
      /\ stage'[c] = "done" => why[c] = "ok"
  <2>1. CASE why[c] = "ok" /\ ReturnsToken(c, given[c])
    BY <1>1, <1>2, <1>3, <2>1, ReturnsDoes DEF SignInInv, SignInTypeOK, HelperAsks
  <2>2. CASE /\ mode[c] = "check" /\ stage' = [stage EXCEPT ![c] = "idle"]
             /\ mode' = [mode EXCEPT ![c] = "token"] /\ UNCHANGED seen
    BY <2>2 DEF SignInInv, SignInTypeOK, Stages, Modes, OwnModes
  <2>3. ASSUME NEW label \in {"signing", "failed"},
               stage' = [stage EXCEPT ![c] = label], UNCHANGED <<mode, seen>>
        PROVE  /\ stage' \in [Callers -> Stages] /\ stage'[c] = label
               /\ \A d \in Callers \ {c} : stage'[d] = stage[d]
               /\ UNCHANGED <<mode, seen>> /\ mode[c] \in Modes
    BY <2>3 DEF SignInInv, SignInTypeOK, Stages
  <2> QED  BY <1>1, <1>2, <1>8, <2>1, <2>2, <2>3 DEF SignInInv, SignInTypeOK
<1>10. SignInTypeOK'
  BY <1>1, <1>6, <1>9 DEF SignInInv, SignInTypeOK
<1>11. MemoInv' /\ RenewedInv'
  BY <1>1, <1>7, <1>9 DEF SignInInv, MemoInv, RenewedInv
<1>12. CallerInv(c)'
  <2>1. floor[c] <= seen'[Home(c)]
    BY <1>3, <1>9
  <2> QED
    BY <1>1, <1>2, <1>3, <1>9, <2>1
       DEF SignInInv, CallerInv, StageInv, HolderInv, PastInv, TokenInv, BrowserInv, AtLockfile,
           OnKey, OwnModes
<1>13. ASSUME NEW d \in Callers \ {c}  PROVE CallerInv(d)'
  <2>1. Private(d) /\ lockfile' = lockfile /\ renewed' = renewed
    BY <1>1, <1>9 DEF Private
  <2>2. Home(d) \in Processes /\ epoch[Home(d)] \in Nat /\ seen[Home(d)] \in Nat
    BY World DEF SignInInv, SignInTypeOK
  <2>3. seen[Home(d)] <= seen'[Home(d)] /\ epoch[Home(d)] <= epoch'[Home(d)]
    BY <1>1, <1>9, <2>2
  <2>4. CASE Home(d) = Home(c)
    <3>1. ~(inflight[Home(d)] = d)
      BY <1>2, <2>4
    <3> QED  BY <1>1, <1>4, <1>10, <2>1, <2>3, <2>4, <3>1, Bystander DEF SignInInv
  <2>5. CASE Home(d) # Home(c)
    BY <1>1, <1>7, <1>9, <1>10, <2>1, <2>2, <2>3, <2>5, Bystander DEF SignInInv
  <2> QED  BY <2>4, <2>5
<1> QED  BY <1>10, <1>11, <1>12, <1>13 DEF SignInInv

LEMMA ClearKeeps ==
  ASSUME SignInInv, NEW c \in Callers, Clear(c)  PROVE SignInInv'
<1>1. /\ Home(c) \in Processes /\ Home(c)' = Home(c) /\ Asked(c)' = Asked(c)
      /\ UNCHANGED <<world, login, newest, lockfile, inflight, asked, given, why, waited, losses,
                     floor, renewed>>
      /\ newest \in Nat /\ epoch[Home(c)] \in Nat
  BY World, CallersAssumption
     DEF SignInInv, SignInTypeOK, Clear, Home, Asked, cli, mine
<1>2. Asked(c) \notin HelperAsks /\ Asked(c) # "nothing" /\ mode[c] \notin OwnModes
  BY DEF Clear, SignInInv, CallerInv, StageInv
<1> HIDE DEF Home, Asked
<1>3. /\ epoch' \in [Processes -> Nat] /\ epoch'[Home(c)] = epoch[Home(c)] + 1
      /\ memo' \in [Processes -> Memos(newest)] /\ memo'[Home(c)] = NoEntry
      /\ seen' \in [Processes -> 0 .. newest] /\ seen'[Home(c)] = newest
      /\ \A p \in Processes \ {Home(c)} :
           epoch'[p] = epoch[p] /\ memo'[p] = memo[p] /\ seen'[p] = seen[p]
  BY <1>1 DEF Clear, SignInInv, SignInTypeOK, Memos
<1>4. /\ stage' \in [Callers -> Stages] /\ mode' \in [Callers -> Modes]
      /\ \A d \in Callers \ {c} : stage'[d] = stage[d] /\ mode'[d] = mode[d]
      /\ stage'[c] \in {"idle", "failed"} /\ mode'[c] \in {mode[c], "token"}
  BY DEF Clear, Goes, SignInInv, SignInTypeOK, Stages, Modes
<1>5. SignInTypeOK'
  BY <1>1, <1>3, <1>4 DEF SignInInv, SignInTypeOK
<1>6. MemoInv' /\ RenewedInv'
  BY <1>1, <1>3 DEF SignInInv, MemoInv, RenewedInv, NoEntry
<1>7. CallerInv(c)'
  <2>1. floor[c] <= seen'[Home(c)] /\ asked[c] <= epoch'[Home(c)]
    BY <1>1, <1>3 DEF SignInInv, SignInTypeOK, CallerInv, PastInv
  <2> QED
    BY <1>1, <1>2, <1>3, <1>4, <2>1
       DEF SignInInv, CallerInv, StageInv, HolderInv, PastInv, TokenInv, BrowserInv, AtLockfile,
           OnKey, OwnModes
<1>8. ASSUME NEW d \in Callers \ {c}  PROVE CallerInv(d)'
  <2>1. Private(d)
    BY <1>1, <1>4 DEF Private
  <2>2. Home(d) \in Processes /\ epoch[Home(d)] \in Nat /\ seen[Home(d)] \in 0 .. newest
    BY World DEF SignInInv, SignInTypeOK
  <2>3. /\ seen[Home(d)] <= seen'[Home(d)] /\ epoch[Home(d)] <= epoch'[Home(d)]
        /\ memo'[Home(d)] \in {memo[Home(d)], NoEntry}
        /\ seen'[Home(d)] = seen[Home(d)] \/ epoch[Home(d)] < epoch'[Home(d)]
        /\ epoch[Home(d)] # epoch'[Home(d)] => memo'[Home(d)] = NoEntry
    BY <1>1, <1>3, <2>2
  <2> QED  BY <1>1, <1>5, <2>1, <2>3, Bystander DEF SignInInv
<1> QED  BY <1>5, <1>6, <1>7, <1>8 DEF SignInInv

LEMMA ExpiresKeeps ==
  ASSUME SignInInv, NEW p \in Processes, Expires(p)  PROVE SignInInv'
<1> USE DEF Expires, cli, mine
<1>1. SignInTypeOK'
  BY DEF SignInInv, SignInTypeOK, Memos
<1>2. MemoInv' /\ RenewedInv'
  BY DEF SignInInv, SignInTypeOK, MemoInv, RenewedInv, NoEntry
<1>3. ASSUME NEW d \in Callers  PROVE CallerInv(d)'
  <2>1. Private(d)
    BY DEF Private
  <2>2. Home(d) \in Processes /\ epoch[Home(d)] \in Nat /\ seen[Home(d)] \in Nat
    BY World DEF SignInInv, SignInTypeOK
  <2>3. /\ seen[Home(d)] <= seen'[Home(d)] /\ epoch[Home(d)] <= epoch'[Home(d)]
        /\ memo'[Home(d)] \in {memo[Home(d)], NoEntry}
    BY <2>2 DEF SignInInv, SignInTypeOK
  <2> QED  BY <1>1, <2>1, <2>3, Bystander DEF SignInInv
<1> QED  BY <1>1, <1>2, <1>3 DEF SignInInv

LEMMA LosesKeeps ==
  ASSUME SignInInv, NEW l \in Logins, Loses(l)  PROVE SignInInv'
<1> USE DEF Loses, memory, mine
<1>1. /\ losses' \in 0 .. MaxLosses /\ login' \in [Logins -> States]
      /\ renewed' \subseteq renewed /\ RenewedInv'
  BY EndsDoes DEF SignInInv
<1>2. SignInTypeOK'
  BY <1>1 DEF SignInInv, SignInTypeOK
<1>3. MemoInv'
  BY DEF SignInInv, MemoInv
<1>4. ASSUME NEW d \in Callers  PROVE CallerInv(d)'
  <2>1. Private(d)
    BY DEF Private
  <2> QED  BY <1>1, <1>2, <2>1, Onlooker DEF SignInInv
<1> QED  BY <1>1, <1>2, <1>3, <1>4 DEF SignInInv

\* A process that is killed takes its calls with it, and the lock files they held.
LEMMA SignInKillKeeps ==
  ASSUME SignInInv, NEW p \in Processes, Kill(p)  PROVE SignInInv'
<1> DEFINE here == {c \in Callers : Home(c) = p}
<1>1. /\ stage' = [c \in Callers |-> IF c \in here /\ stage[c] \notin Over THEN "killed" ELSE stage[c]]
      /\ lockfile' = [l \in Locks |-> IF lockfile[l] \in here THEN NoCaller ELSE lockfile[l]]
      /\ inflight' = [inflight EXCEPT ![p] = NoCaller]
      /\ memo' = [memo EXCEPT ![p] = NoEntry]
      /\ UNCHANGED <<world, login, newest, epoch, mode, asked, given, why, waited, losses, seen,
                     floor, renewed>>
  BY DEF Kill, cli, mine
<1>2. SignInTypeOK'
  BY <1>1 DEF SignInInv, SignInTypeOK, Memos, Stages
<1>3. MemoInv' /\ RenewedInv'
  BY <1>1 DEF SignInInv, SignInTypeOK, MemoInv, RenewedInv, NoEntry
<1>4. ASSUME NEW d \in Callers \ here  PROVE CallerInv(d)'
  <2>1. Private(d)
    BY <1>1 DEF Private
  <2>2. /\ Home(d) \in Processes /\ Home(d) # p
        /\ epoch[Home(d)] \in Nat /\ seen[Home(d)] \in Nat
    BY World DEF SignInInv, SignInTypeOK
  <2>3. /\ seen'[Home(d)] = seen[Home(d)] /\ epoch'[Home(d)] = epoch[Home(d)]
        /\ memo'[Home(d)] = memo[Home(d)] /\ inflight'[Home(d)] = inflight[Home(d)]
    BY <1>1, <2>2 DEF SignInInv, SignInTypeOK
  <2>4. lockfile[LockOf(d)] = d => lockfile'[LockOf(d)] = d
    BY <1>1 DEF LockOf, Locks
  <2>5. seen[Home(d)] <= seen'[Home(d)] /\ epoch[Home(d)] <= epoch'[Home(d)]
    BY <2>2, <2>3
  <2> QED  BY <1>1, <1>2, <2>1, <2>3, <2>4, <2>5, Bystander DEF SignInInv
<1>5. ASSUME NEW d \in here  PROVE CallerInv(d)'
  <2>1. /\ stage'[d] \in Over /\ (stage'[d] = stage[d] \/ stage'[d] = "killed")
        /\ stage[d] \in Over => stage'[d] = stage[d]
        /\ Home(d) = p /\ Home(d)' = p /\ Asked(d)' = Asked(d)
        /\ memo'[p] = NoEntry /\ UNCHANGED <<mode, asked, given, why, seen, floor, epoch>>
    BY <1>1 DEF Over, Home, Asked, SignInInv, SignInTypeOK
  <2>2. CallerInv(d)
    BY DEF SignInInv
  <2> HIDE DEF Home, Asked, here
  <2>3. StageInv(d)'
    BY <2>1, <2>2 DEF CallerInv, StageInv, AtLockfile, Over
  <2>4. HolderInv(d)' /\ BrowserInv(d)'
    BY <2>1 DEF HolderInv, BrowserInv, AtLockfile, OnKey, Over
  <2>5. PastInv(d)' /\ TokenInv(d)'
    BY <2>1, <2>2 DEF CallerInv, PastInv, TokenInv, OnKey, Over
  <2> QED  BY <2>3, <2>4, <2>5 DEF CallerInv
<1> QED  BY <1>2, <1>3, <1>4, <1>5 DEF SignInInv

LEMMA SignInStutters ==
  ASSUME SignInInv, UNCHANGED signInVars  PROVE SignInInv'
<1> USE DEF signInVars, cli, memory, mine
<1>1. SignInTypeOK'
  BY DEF SignInInv, SignInTypeOK
<1>2. MemoInv' /\ RenewedInv'
  BY DEF SignInInv, MemoInv, RenewedInv
<1>3. ASSUME NEW d \in Callers  PROVE CallerInv(d)'
  BY <1>1, Onlooker DEF SignInInv, Private
<1> QED  BY <1>1, <1>2, <1>3 DEF SignInInv

LEMMA SignInInitInv == SignInInit => SignInInv
<1> SUFFICES ASSUME SignInInit  PROVE SignInInv
  OBVIOUS
<1> USE DEF SignInInit
<1>1. login \in [Logins -> States] /\ newest \in 1 .. MaxIssued + 1 /\ losses \in 0 .. MaxLosses
  BY CallersAssumption
<1>2. lockfile \in [Locks -> Callers \cup {NoCaller}]
      /\ memo \in [Processes -> Memos(newest)] /\ epoch \in [Processes -> Nat]
      /\ inflight \in [Processes -> Callers \cup {NoCaller}]
  BY DEF Memos
<1>3. ASSUME NEW c \in Callers
      PROVE  /\ Home(c) \in Processes /\ Asked(c) \in Asks
             /\ FirstMode(c) \in Modes \ {"claude"}
             /\ FirstMode(c) \in OwnModes <=> Asked(c) \in HelperAsks
  BY CallersAssumption DEF Home, Asked, Calls, FirstMode, Asks, Modes, OwnModes, HelperAsks
<1>4. /\ stage \in [Callers -> Stages] /\ mode \in [Callers -> Modes]
      /\ asked \in [Callers -> Nat] /\ given \in [Callers -> 0 .. newest]
      /\ why \in [Callers -> {"ok", "auth", "transient"}] /\ waited \in [Callers -> BOOLEAN]
      /\ seen \in [Processes -> 0 .. newest] /\ floor \in [Callers -> 0 .. newest]
  BY <1>3 DEF Stages
<1>5. SignInTypeOK
  BY <1>1, <1>2, <1>4 DEF SignInTypeOK
<1>6. MemoInv /\ RenewedInv
  BY DEF MemoInv, RenewedInv, NoEntry
<1>7. ASSUME NEW c \in Callers  PROVE CallerInv(c)
  <2>1. /\ stage[c] = IF Asked(c) = "nothing" THEN "done" ELSE "idle"
        /\ mode[c] = FirstMode(c) /\ asked[c] = 0 /\ given[c] = 0 /\ floor[c] = 0
        /\ seen[Home(c)] = 0 /\ epoch[Home(c)] = 0 /\ memo[Home(c)] = NoEntry
    BY <1>3
  <2> HIDE DEF SignInInit, Home, Asked
  <2> QED
    BY <1>3, <2>1 DEF CallerInv, StageInv, HolderInv, PastInv, TokenInv, BrowserInv, AtLockfile,
       OnKey, HelperAsks
<1> QED  BY <1>5, <1>6, <1>7 DEF SignInInv

LEMMA SignInNextInv == SignInInv /\ [SignInNext]_signInVars => SignInInv'
<1> SUFFICES ASSUME SignInInv, [SignInNext]_signInVars  PROVE SignInInv'
  OBVIOUS
<1>1. ASSUME NEW c \in Callers, Step(c)  PROVE SignInInv'
  <2>1. CASE BeginCall(c) \/ Look(c) \/ Dequeue(c) \/ End(c)
    BY <2>1, BeginCallKeeps, LookKeeps, DequeueKeeps, EndKeeps
  <2>2. CASE Ask(c) \/ Reauth(c) \/ Take(c) \/ Wait(c)
    BY <2>2, AskKeeps, ReauthKeeps, TakeKeeps, WaitKeeps
  <2>3. CASE Recheck(c) \/ Status(c) \/ Browse(c) \/ Confirm(c)
    BY <2>3, RecheckKeeps, StatusKeeps, BrowseKeeps, ConfirmKeeps
  <2>4. CASE Sign(c) \/ Clear(c)
    BY <2>4, SignKeeps, ClearKeeps
  <2> QED  BY <1>1, <2>1, <2>2, <2>3, <2>4 DEF Step
<1>2. ASSUME NEW p \in Processes, Expires(p) \/ Kill(p)  PROVE SignInInv'
  BY <1>2, ExpiresKeeps, SignInKillKeeps
<1>3. ASSUME NEW l \in Logins, Loses(l)  PROVE SignInInv'
  BY <1>3, LosesKeeps
<1>4. CASE UNCHANGED signInVars
  BY <1>4, SignInStutters
<1> QED  BY <1>1, <1>2, <1>3, <1>4 DEF SignInNext

LEMMA SignInInvariance == SignInSpec => []SignInInv
<1> QED  BY SignInInitInv, SignInNextInv, PTL DEF SignInSpec

-----------------------------------------------------------------------------
(* SignIn: the properties. *)

\* Every variable keeps its type.
THEOREM SignInTypeCorrect == SignInSpec => []SignInTypeOK
<1>1. SignInInv => SignInTypeOK  BY DEF SignInInv
<1> QED  BY <1>1, SignInInvariance, PTL

\* However the threads of a process, its logins and its forced refreshes interleave, no
\* call gets a token older than one its process had seen when it began.
THEOREM TokensAreFresh == SignInSpec => []TokenIsFresh
<1>1. SignInInv => TokenIsFresh
  BY DEF SignInInv, SignInTypeOK, CallerInv, TokenInv, TokenIsFresh
<1> QED  BY <1>1, SignInInvariance, PTL

\* However many helpers find a login lost, only the first of a kind that gets the lock
\* file asks the user to sign in.
THEOREM OneBrowser == SignInSpec => []NoSecondBrowser
<1>1. SignInInv => NoSecondBrowser  BY DEF SignInInv, CallerInv, BrowserInv, NoSecondBrowser
<1> QED  BY <1>1, SignInInvariance, PTL
=============================================================================
