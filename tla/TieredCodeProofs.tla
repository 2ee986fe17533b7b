-------------------------- MODULE TieredCodeProofs --------------------------
(***************************************************************************)
(* TieredCode for any threads, thresholds and bounds: fresh generations,   *)
(* optimized code over its own baseline, complete promotions and           *)
(* withdrawals of the right tier; and, for FrontendTiering, which runs on  *)
(* the same claim, that a background job keeps the one it was given.       *)
(*                                                                         *)
(* The invariant says what the holder of publication_mutex may rely on     *)
(* between two of its stores, although report_optimization_failure changes *)
(* the claim without the mutex, and what a generation captured without the *)
(* mutex is still worth when it is compared.                               *)
(***************************************************************************)
EXTENDS TieredCode, FrontendTiering, TLAPS

Critical == {"testing", "promoting", "marking", "storing", "resetting", "clearing",
             "marking_deopt"}

\* A thread inside a critical section holds the mutex.
MutexIsExclusive == \A p \in Thread : pc[p] \in Critical => publication_mutex = p

\* A claim is tested, and a flag cleared, while a baseline is installed.
WorkIsOnBaseline ==
  \A p \in Thread :
    pc[p] \in {"testing", "resetting", "clearing", "marking_deopt"} => state.tier = "kBaseline"

\* Captured generations are not from the future; one that still matches was
\* captured with the installed baseline; a promotion works on a match.
CaptureIsCurrent ==
  \A j \in Compiler :
    /\ seen[j] <= state.generation
    /\ pc[j] \in {"compiling", "promoting", "marking", "storing"} /\ seen[j] = state.generation
         => from[j] = state.baseline /\ state.tier = "kBaseline"
    /\ pc[j] \in {"promoting", "marking", "storing"} => seen[j] = state.generation

\* What a promotion has stored before the state, and nobody undoes.
PromotionIsPrepared ==
  /\ PromotionIsComplete
  /\ \A j \in Compiler :
       /\ pc[j] \in {"promoting", "marking", "storing"} => promotions > 0
       /\ pc[j] \in {"marking", "storing"} => ~compilation_claimed
       /\ pc[j] = "storing" => optimized_active

\* The withdrawal state is newer than the optimized state it replaces.
FallbackIsLater == state.tier = "kOptimized" => state.fallback > state.generation

\* Baselines are numbered in the order of their publication.
BaselineIsCounted == state.baseline <= baselines

\* A thread withdraws only what it saw exit.
ExitIsRecorded == \A v \in Invoker : pc[v] = "withdrawing" => seen[v] \in exited

IInv ==
  /\ TypeOK /\ MutexIsExclusive /\ WorkIsOnBaseline /\ CaptureIsCurrent
  /\ PromotionIsPrepared /\ FallbackIsLater /\ ExitIsRecorded /\ BaselineIsCounted
  /\ OptimizedMatchesBaseline

\* The invariant holds before the first publication.
LEMMA IInvInit == Init => IInv
<1> SUFFICES ASSUME Init PROVE IInv
  OBVIOUS
<1>1. TypeOK
  BY HotnessAssumption, TieringAssumption DEF HotnessAssumption, TieringAssumption, Init, TypeOK, State, Thread, Label
<1>2. MutexIsExclusive /\ WorkIsOnBaseline
  BY DEF Init, MutexIsExclusive, Critical, WorkIsOnBaseline
<1>3. CaptureIsCurrent
  BY DEF Init, CaptureIsCurrent, Thread
<1>4. PromotionIsPrepared
  BY DEF Init, PromotionIsPrepared, PromotionIsComplete, Thread
<1>5. FallbackIsLater /\ ExitIsRecorded /\ BaselineIsCounted /\ OptimizedMatchesBaseline
  BY DEF Init, FallbackIsLater, ExitIsRecorded, BaselineIsCounted,
     OptimizedMatchesBaseline, Thread
<1>. QED  BY <1>1, <1>2, <1>3, <1>4, <1>5 DEF IInv

\* Every step of every thread preserves the invariant.
LEMMA IInvStep == IInv /\ [Next]_vars => IInv'
<1> SUFFICES ASSUME IInv, [Next]_vars PROVE IInv'
  OBVIOUS
<1> USE HotnessAssumption, TieringAssumption DEF HotnessAssumption, TieringAssumption, Thread, Label
<1>1. ASSUME NEW p \in Publisher, PublishBaseline(p) PROVE IInv'
  BY <1>1 DEF PublishBaseline, Lock, Goto, BaselineState, NextGeneration, historyVars, hotnessVars,
     IInv, TypeOK, State, MutexIsExclusive, Critical, WorkIsOnBaseline,
     CaptureIsCurrent, PromotionIsPrepared, PromotionIsComplete, FallbackIsLater,
     ExitIsRecorded, BaselineIsCounted, OptimizedMatchesBaseline
<1>2. ASSUME NEW p \in Publisher, ResetForBaseline(p) PROVE IInv'
  BY <1>2 DEF ResetForBaseline, Goto, historyVars, hotnessVars,
     IInv, TypeOK, State, MutexIsExclusive, Critical, WorkIsOnBaseline,
     CaptureIsCurrent, PromotionIsPrepared, PromotionIsComplete, FallbackIsLater,
     ExitIsRecorded, BaselineIsCounted, OptimizedMatchesBaseline
<1>3. ASSUME NEW p \in Publisher, ClearOptimizedActive(p) PROVE IInv'
  BY <1>3 DEF ClearOptimizedActive, Unlock, Goto, historyVars, hotnessVars,
     IInv, TypeOK, State, MutexIsExclusive, Critical, WorkIsOnBaseline,
     CaptureIsCurrent, PromotionIsPrepared, PromotionIsComplete, FallbackIsLater,
     ExitIsRecorded, BaselineIsCounted, OptimizedMatchesBaseline
<1>4. ASSUME NEW j \in Compiler, TryBegin(j) PROVE IInv'
  BY <1>4 DEF TryBegin, Lock, Goto, historyVars, hotnessVars,
     IInv, TypeOK, State, MutexIsExclusive, Critical, WorkIsOnBaseline,
     CaptureIsCurrent, PromotionIsPrepared, PromotionIsComplete, FallbackIsLater,
     ExitIsRecorded, BaselineIsCounted, OptimizedMatchesBaseline
<1>5. ASSUME NEW j \in Compiler, Claim(j) PROVE IInv'
  <2>1. TypeOK'
    BY <1>5 DEF IInv, Claim, Unlock, Goto, historyVars, hotnessVars,
       TypeOK, State
  <2>2. MutexIsExclusive'
    BY <1>5 DEF IInv, TypeOK, Claim, Unlock, Goto, historyVars, hotnessVars,
       MutexIsExclusive, Critical
  <2>3. WorkIsOnBaseline'
    BY <1>5 DEF IInv, TypeOK, Claim, Unlock, Goto, historyVars, hotnessVars,
       WorkIsOnBaseline
  <2>4. CaptureIsCurrent'
    BY <1>5 DEF IInv, TypeOK, Claim, Unlock, Goto, historyVars, hotnessVars,
       CaptureIsCurrent
  <2>5. PromotionIsPrepared'
    BY <1>5 DEF IInv, TypeOK, Claim, Unlock, Goto, historyVars, hotnessVars,
       PromotionIsPrepared, PromotionIsComplete, MutexIsExclusive, Critical, WorkIsOnBaseline
  <2>6. FallbackIsLater'
    BY <1>5 DEF IInv, TypeOK, Claim, Unlock, Goto, historyVars, hotnessVars,
       FallbackIsLater
  <2>7. ExitIsRecorded'
    BY <1>5 DEF IInv, TypeOK, Claim, Unlock, Goto, historyVars, hotnessVars,
       ExitIsRecorded
  <2>8. BaselineIsCounted'
    BY <1>5 DEF IInv, TypeOK, Claim, Unlock, Goto, historyVars, hotnessVars,
       BaselineIsCounted
  <2>9. OptimizedMatchesBaseline'
    BY <1>5 DEF IInv, TypeOK, Claim, Unlock, Goto, historyVars, hotnessVars,
       OptimizedMatchesBaseline
  <2>. QED  BY <2>1, <2>2, <2>3, <2>4, <2>5, <2>6, <2>7, <2>8, <2>9 DEF IInv
<1>6. ASSUME NEW j \in Compiler, Capture(j) PROVE IInv'
  BY <1>6 DEF Capture, Goto, historyVars, hotnessVars,
     IInv, TypeOK, State, MutexIsExclusive, Critical, WorkIsOnBaseline,
     CaptureIsCurrent, PromotionIsPrepared, PromotionIsComplete, FallbackIsLater,
     ExitIsRecorded, BaselineIsCounted, OptimizedMatchesBaseline
<1>7. ASSUME NEW j \in Compiler, CompileFails(j) PROVE IInv'
  BY <1>7 DEF CompileFails, Goto, historyVars, hotnessVars,
     IInv, TypeOK, State, MutexIsExclusive, Critical, WorkIsOnBaseline,
     CaptureIsCurrent, PromotionIsPrepared, PromotionIsComplete, FallbackIsLater,
     ExitIsRecorded, BaselineIsCounted, OptimizedMatchesBaseline
<1>8. ASSUME NEW j \in Compiler, PublishOptimized(j) PROVE IInv'
  BY <1>8 DEF PublishOptimized, Lock, Goto, GenerationMatches, historyVars, hotnessVars,
     IInv, TypeOK, State, MutexIsExclusive, Critical, WorkIsOnBaseline,
     CaptureIsCurrent, PromotionIsPrepared, PromotionIsComplete, FallbackIsLater,
     ExitIsRecorded, BaselineIsCounted, OptimizedMatchesBaseline
<1>9. ASSUME NEW j \in Compiler, MarkOptimized(j) PROVE IInv'
  <2>1. TypeOK'
    <3>1. compilation_claimed' \in BOOLEAN /\ optimized_active' \in BOOLEAN
      BY <1>9, Zenon DEF IInv, TypeOK, MarkOptimized
    <3>2. successful_compilations' \in Nat
      BY <1>9 DEF IInv, TypeOK, MarkOptimized, Goto, historyVars, hotnessVars
    <3>3. pc' \in [Thread -> Label]
      BY <1>9 DEF IInv, TypeOK, MarkOptimized, Goto, Label
    <3>. QED  BY <1>9, <3>1, <3>2, <3>3, Zenon
      DEF IInv, TypeOK, MarkOptimized, Goto, historyVars, hotnessVars
  <2>2. MutexIsExclusive'
    BY <1>9 DEF IInv, TypeOK, MarkOptimized, Goto, historyVars, hotnessVars,
       MutexIsExclusive, Critical
  <2>3. WorkIsOnBaseline'
    BY <1>9 DEF IInv, TypeOK, MarkOptimized, Goto, historyVars, hotnessVars,
       WorkIsOnBaseline
  <2>4. CaptureIsCurrent'
    BY <1>9 DEF IInv, TypeOK, MarkOptimized, Goto, historyVars, hotnessVars,
       CaptureIsCurrent
  <2>5. PromotionIsPrepared'
    BY <1>9 DEF IInv, TypeOK, MarkOptimized, Goto, historyVars, hotnessVars,
       PromotionIsPrepared, PromotionIsComplete, MutexIsExclusive, Critical, WorkIsOnBaseline
  <2>6. FallbackIsLater'
    BY <1>9 DEF IInv, TypeOK, MarkOptimized, Goto, historyVars, hotnessVars,
       FallbackIsLater
  <2>7. ExitIsRecorded'
    BY <1>9 DEF IInv, TypeOK, MarkOptimized, Goto, historyVars, hotnessVars,
       ExitIsRecorded
  <2>8. BaselineIsCounted'
    BY <1>9 DEF IInv, TypeOK, MarkOptimized, Goto, historyVars, hotnessVars,
       BaselineIsCounted
  <2>9. OptimizedMatchesBaseline'
    BY <1>9 DEF IInv, TypeOK, MarkOptimized, Goto, historyVars, hotnessVars,
       OptimizedMatchesBaseline
  <2>. QED  BY <2>1, <2>2, <2>3, <2>4, <2>5, <2>6, <2>7, <2>8, <2>9 DEF IInv
<1>10. ASSUME NEW j \in Compiler, SetOptimizedActive(j) PROVE IInv'
  BY <1>10 DEF SetOptimizedActive, Goto, historyVars, hotnessVars,
     IInv, TypeOK, State, MutexIsExclusive, Critical, WorkIsOnBaseline,
     CaptureIsCurrent, PromotionIsPrepared, PromotionIsComplete, FallbackIsLater,
     ExitIsRecorded, BaselineIsCounted, OptimizedMatchesBaseline
<1>11. ASSUME NEW j \in Compiler, StoreOptimized(j) PROVE IInv'
  BY <1>11 DEF StoreOptimized, Unlock, Goto, OptimizedState, NextGeneration, historyVars, hotnessVars,
     IInv, TypeOK, State, MutexIsExclusive, Critical, WorkIsOnBaseline,
     CaptureIsCurrent, PromotionIsPrepared, PromotionIsComplete, FallbackIsLater,
     ExitIsRecorded, BaselineIsCounted, OptimizedMatchesBaseline
<1>12. ASSUME NEW j \in Compiler, ReportFailure(j) PROVE IInv'
  <2>1. TypeOK'
    <3>1. compilation_claimed' \in BOOLEAN /\ optimized_active' \in BOOLEAN
      BY <1>12, Zenon DEF IInv, TypeOK, ReportFailure
    <3>2. retry_after' \in Nat
      BY <1>12 DEF IInv, TypeOK, ReportFailure, Goto, historyVars, hotnessVars
    <3>3. pc' \in [Thread -> Label]
      BY <1>12 DEF IInv, TypeOK, ReportFailure, Goto, Label
    <3>. QED  BY <1>12, <3>1, <3>2, <3>3, Zenon
      DEF IInv, TypeOK, ReportFailure, Goto, historyVars, hotnessVars
  <2>2. MutexIsExclusive'
    BY <1>12 DEF IInv, TypeOK, ReportFailure, Goto, historyVars, hotnessVars,
       MutexIsExclusive, Critical
  <2>3. WorkIsOnBaseline'
    BY <1>12 DEF IInv, TypeOK, ReportFailure, Goto, historyVars, hotnessVars,
       WorkIsOnBaseline
  <2>4. CaptureIsCurrent'
    BY <1>12 DEF IInv, TypeOK, ReportFailure, Goto, historyVars, hotnessVars,
       CaptureIsCurrent
  <2>5. PromotionIsPrepared'
    BY <1>12 DEF IInv, TypeOK, ReportFailure, Goto, historyVars, hotnessVars,
       PromotionIsPrepared, PromotionIsComplete, MutexIsExclusive, Critical, WorkIsOnBaseline
  <2>6. FallbackIsLater'
    BY <1>12 DEF IInv, TypeOK, ReportFailure, Goto, historyVars, hotnessVars,
       FallbackIsLater
  <2>7. ExitIsRecorded'
    BY <1>12 DEF IInv, TypeOK, ReportFailure, Goto, historyVars, hotnessVars,
       ExitIsRecorded
  <2>8. BaselineIsCounted'
    BY <1>12 DEF IInv, TypeOK, ReportFailure, Goto, historyVars, hotnessVars,
       BaselineIsCounted
  <2>9. OptimizedMatchesBaseline'
    BY <1>12 DEF IInv, TypeOK, ReportFailure, Goto, historyVars, hotnessVars,
       OptimizedMatchesBaseline
  <2>. QED  BY <2>1, <2>2, <2>3, <2>4, <2>5, <2>6, <2>7, <2>8, <2>9 DEF IInv
<1>13. ASSUME NEW j \in Compiler, RearmAfterFailure(j) PROVE IInv'
  BY <1>13 DEF RearmAfterFailure, Goto, Rearm, historyVars, hotnessVars,
     IInv, TypeOK, State, MutexIsExclusive, Critical, WorkIsOnBaseline,
     CaptureIsCurrent, PromotionIsPrepared, PromotionIsComplete, FallbackIsLater,
     ExitIsRecorded, BaselineIsCounted, OptimizedMatchesBaseline
<1>14. ASSUME NEW v \in Invoker, Invoke(v) PROVE IInv'
  BY <1>14 DEF Invoke, Goto, historyVars, hotnessVars,
     IInv, TypeOK, State, MutexIsExclusive, Critical, WorkIsOnBaseline,
     CaptureIsCurrent, PromotionIsPrepared, PromotionIsComplete, FallbackIsLater,
     ExitIsRecorded, BaselineIsCounted, OptimizedMatchesBaseline
<1>15. ASSUME NEW v \in Invoker, InvokeOk(v) PROVE IInv'
  BY <1>15 DEF InvokeOk, Goto, historyVars, hotnessVars,
     IInv, TypeOK, State, MutexIsExclusive, Critical, WorkIsOnBaseline,
     CaptureIsCurrent, PromotionIsPrepared, PromotionIsComplete, FallbackIsLater,
     ExitIsRecorded, BaselineIsCounted, OptimizedMatchesBaseline
<1>16. ASSUME NEW v \in Invoker, AssumptionExit(v) PROVE IInv'
  <2>1. TypeOK'
    BY <1>16 DEF IInv, AssumptionExit, Goto, historyVars, hotnessVars,
       TypeOK, State
  <2>2. MutexIsExclusive'
    BY <1>16 DEF IInv, TypeOK, AssumptionExit, Goto, historyVars, hotnessVars,
       MutexIsExclusive, Critical
  <2>3. WorkIsOnBaseline'
    BY <1>16 DEF IInv, TypeOK, AssumptionExit, Goto, historyVars, hotnessVars,
       WorkIsOnBaseline
  <2>4. CaptureIsCurrent'
    BY <1>16 DEF IInv, TypeOK, AssumptionExit, Goto, historyVars, hotnessVars,
       CaptureIsCurrent
  <2>5. PromotionIsPrepared'
    BY <1>16 DEF IInv, TypeOK, AssumptionExit, Goto, historyVars, hotnessVars,
       PromotionIsPrepared, PromotionIsComplete, MutexIsExclusive, Critical, WorkIsOnBaseline
  <2>6. FallbackIsLater'
    BY <1>16 DEF IInv, TypeOK, AssumptionExit, Goto, historyVars, hotnessVars,
       FallbackIsLater
  <2>7. ExitIsRecorded'
    BY <1>16 DEF IInv, TypeOK, AssumptionExit, Goto, historyVars, hotnessVars,
       ExitIsRecorded
  <2>8. BaselineIsCounted'
    BY <1>16 DEF IInv, TypeOK, AssumptionExit, Goto, historyVars, hotnessVars,
       BaselineIsCounted
  <2>9. OptimizedMatchesBaseline'
    BY <1>16 DEF IInv, TypeOK, AssumptionExit, Goto, historyVars, hotnessVars,
       OptimizedMatchesBaseline
  <2>. QED  BY <2>1, <2>2, <2>3, <2>4, <2>5, <2>6, <2>7, <2>8, <2>9 DEF IInv
<1>17. ASSUME NEW v \in Invoker, Withdraw(v) PROVE IInv'
  BY <1>17 DEF Withdraw, Lock, Goto, OwnGeneration, BaselineState, historyVars, hotnessVars,
     IInv, TypeOK, State, MutexIsExclusive, Critical, WorkIsOnBaseline,
     CaptureIsCurrent, PromotionIsPrepared, PromotionIsComplete, FallbackIsLater,
     ExitIsRecorded, BaselineIsCounted, OptimizedMatchesBaseline
<1>18. ASSUME NEW v \in Invoker, MarkDeoptimized(v) PROVE IInv'
  <2>1. TypeOK'
    <3>1. compilation_claimed' \in BOOLEAN /\ optimized_active' \in BOOLEAN
      BY <1>18, Zenon DEF IInv, TypeOK, MarkDeoptimized
    <3>2. next_invocation' \in Nat /\ publication_mutex' \in Thread \cup {None}
      BY <1>18 DEF IInv, TypeOK, MarkDeoptimized, Unlock, Goto, Rearm, historyVars, hotnessVars
    <3>3. pc' \in [Thread -> Label]
      BY <1>18 DEF IInv, TypeOK, MarkDeoptimized, Goto, Label
    <3>. QED  BY <1>18, <3>1, <3>2, <3>3, Zenon
      DEF IInv, TypeOK, MarkDeoptimized, Unlock, Goto, Rearm, historyVars, hotnessVars
  <2>2. MutexIsExclusive'
    BY <1>18 DEF IInv, TypeOK, MarkDeoptimized, Unlock, Goto, Rearm, historyVars, hotnessVars,
       MutexIsExclusive, Critical
  <2>3. WorkIsOnBaseline'
    BY <1>18 DEF IInv, TypeOK, MarkDeoptimized, Unlock, Goto, Rearm, historyVars, hotnessVars,
       WorkIsOnBaseline
  <2>4. CaptureIsCurrent'
    BY <1>18 DEF IInv, TypeOK, MarkDeoptimized, Unlock, Goto, Rearm, historyVars, hotnessVars,
       CaptureIsCurrent
  <2>5. PromotionIsPrepared'
    BY <1>18 DEF IInv, TypeOK, MarkDeoptimized, Unlock, Goto, Rearm, historyVars, hotnessVars,
       PromotionIsPrepared, PromotionIsComplete, MutexIsExclusive, Critical, WorkIsOnBaseline
  <2>6. FallbackIsLater'
    BY <1>18 DEF IInv, TypeOK, MarkDeoptimized, Unlock, Goto, Rearm, historyVars, hotnessVars,
       FallbackIsLater
  <2>7. ExitIsRecorded'
    BY <1>18 DEF IInv, TypeOK, MarkDeoptimized, Unlock, Goto, Rearm, historyVars, hotnessVars,
       ExitIsRecorded
  <2>8. BaselineIsCounted'
    BY <1>18 DEF IInv, TypeOK, MarkDeoptimized, Unlock, Goto, Rearm, historyVars, hotnessVars,
       BaselineIsCounted
  <2>9. OptimizedMatchesBaseline'
    BY <1>18 DEF IInv, TypeOK, MarkDeoptimized, Unlock, Goto, Rearm, historyVars, hotnessVars,
       OptimizedMatchesBaseline
  <2>. QED  BY <2>1, <2>2, <2>3, <2>4, <2>5, <2>6, <2>7, <2>8, <2>9 DEF IInv
<1>19. CASE UNCHANGED vars
  BY <1>19 DEF vars, historyVars, hotnessVars,
     IInv, TypeOK, State, MutexIsExclusive, Critical, WorkIsOnBaseline,
     CaptureIsCurrent, PromotionIsPrepared, PromotionIsComplete, FallbackIsLater,
     ExitIsRecorded, BaselineIsCounted, OptimizedMatchesBaseline
<1>. QED
  BY <1>1, <1>2, <1>3, <1>4, <1>5, <1>6, <1>7, <1>8, <1>9, <1>10, <1>11, <1>12, <1>13, <1>14, <1>15, <1>16, <1>17, <1>18, <1>19
  DEF Next, PublisherStep, CompilerStep, InvokerStep

\* At any time publish_baseline, publish_optimized and withdraw_optimized have
\* left optimized code only over the baseline it was compiled from, and its
\* promotion, flag and claim complete, for any number of threads.
THEOREM PublicationIsSafe ==
  Spec => [](TypeOK /\ OptimizedMatchesBaseline /\ PromotionIsComplete)
<1>1. IInv => TypeOK /\ OptimizedMatchesBaseline /\ PromotionIsComplete
  BY DEF IInv, PromotionIsPrepared
<1>. QED  BY IInvInit, IInvStep, <1>1, PTL DEF Spec

\* A reader that acquires the optimized state finds its promotion counted, the
\* flag set and no claim open: publish_optimized stores the state last, and
\* publish_baseline and withdraw_optimized replace it before they clear the flag.
THEOREM PromotionsAreComplete == Spec => []PromotionIsComplete
BY PublicationIsSafe, PTL

\* Every store to the state, the preallocated fallback included, installs a
\* generation above all the earlier ones.
THEOREM FreshGenerations == Spec => GenerationsAreFresh
<1>1. IInv /\ [Next]_vars => [state' # state => state'.generation > state.generation]_vars
  <2> SUFFICES ASSUME IInv, [Next]_vars, state' # state
               PROVE  state'.generation > state.generation
    OBVIOUS
  <2>1. ASSUME NEW p \in Publisher, PublisherStep(p) PROVE state'.generation > state.generation
    BY <2>1 DEF IInv, TypeOK, State, PublisherStep, PublishBaseline, ResetForBaseline,
       ClearOptimizedActive, BaselineState, NextGeneration
  <2>2. ASSUME NEW j \in Compiler, CompilerStep(j) PROVE state'.generation > state.generation
    BY <2>2 DEF IInv, TypeOK, State, CompilerStep, TryBegin, Claim, Capture, CompileFails,
       PublishOptimized, MarkOptimized, SetOptimizedActive, StoreOptimized, ReportFailure,
       RearmAfterFailure, OptimizedState, NextGeneration
  <2>3. ASSUME NEW v \in Invoker, InvokerStep(v) PROVE state'.generation > state.generation
    BY <2>3 DEF IInv, TypeOK, State, FallbackIsLater, InvokerStep, Invoke, InvokeOk,
       AssumptionExit, Withdraw, MarkDeoptimized, OwnGeneration, BaselineState
  <2>. QED  BY <2>1, <2>2, <2>3 DEF Next, vars
<1>. QED  BY IInvInit, IInvStep, <1>1, PTL DEF Spec, GenerationsAreFresh

\* withdraw_optimized replaces only a generation that reported an assumption
\* exit, however late the report arrives.
THEOREM WithdrawalIsExact == Spec => OnlyExitedTierIsWithdrawn
<1> DEFINE Withdrawn == state.tier = "kOptimized" /\ state'.baseline = state.baseline /\ state' # state
<1>1. IInv /\ [Next]_vars => [Withdrawn => state.generation \in exited]_vars
  <2> SUFFICES ASSUME IInv, [Next]_vars, Withdrawn
               PROVE  state.generation \in exited
    OBVIOUS
  <2>1. ASSUME NEW p \in Publisher, PublisherStep(p) PROVE state.generation \in exited
    BY <2>1 DEF IInv, TypeOK, State, PublisherStep, PublishBaseline, ResetForBaseline,
       ClearOptimizedActive, BaselineState, BaselineIsCounted
  <2>2. ASSUME NEW j \in Compiler, CompilerStep(j) PROVE state.generation \in exited
    BY <2>2 DEF IInv, TypeOK, State, CompilerStep, TryBegin, Claim, Capture, CompileFails,
       PublishOptimized, MarkOptimized, SetOptimizedActive, StoreOptimized, ReportFailure,
       RearmAfterFailure, CaptureIsCurrent
  <2>3. ASSUME NEW v \in Invoker, InvokerStep(v) PROVE state.generation \in exited
    BY <2>3 DEF IInv, ExitIsRecorded, InvokerStep, Invoke, InvokeOk, AssumptionExit,
       Withdraw, MarkDeoptimized, OwnGeneration
  <2>. QED  BY <2>1, <2>2, <2>3 DEF Next, vars
<1>. QED  BY IInvInit, IInvStep, <1>1, PTL DEF Spec, OnlyExitedTierIsWithdrawn

\* Between a reported failure and its rearm, and only then, the threshold may
\* lie below the end of the retry delay; a rearm reaches the end of the delay,
\* since the invocations counted after the failure only push it further.
RetryIsArmed ==
  /\ retry_after <= invocations + retry_delay
  /\ next_invocation >= retry_after \/ \E k \in Compiler : pc[k] = "rearming"

\* The claim of a failed compilation is released before the threshold moves,
\* without publication_mutex, and still no claim starts its test inside the
\* retry delay once the failure has been reported in full.
THEOREM RetriesAreDelayed == Spec => RetryIsDelayed
<1>1. Init => RetryIsArmed
  BY HotnessAssumption, TieringAssumption DEF Init, RetryIsArmed, HotnessAssumption, TieringAssumption
<1>2. IInv /\ RetryIsArmed /\ [Next]_vars => RetryIsArmed'
  <2> SUFFICES ASSUME IInv, RetryIsArmed, [Next]_vars PROVE RetryIsArmed'
    OBVIOUS
  <2> USE HotnessAssumption, TieringAssumption DEF RetryIsArmed, Thread, HotnessAssumption, TieringAssumption
  <2>1. ASSUME NEW p \in Publisher, PublisherStep(p) PROVE RetryIsArmed'
    BY <2>1 DEF IInv, TypeOK, PublisherStep, PublishBaseline, ResetForBaseline,
       ClearOptimizedActive, Goto, hotnessVars, historyVars
  <2>2. ASSUME NEW j \in Compiler, CompilerStep(j) PROVE RetryIsArmed'
    BY <2>2 DEF IInv, TypeOK, CompilerStep, TryBegin, Claim, Capture, CompileFails,
       PublishOptimized, MarkOptimized, SetOptimizedActive, StoreOptimized, ReportFailure,
       RearmAfterFailure, Rearm, Goto, hotnessVars, historyVars
  <2>3. ASSUME NEW v \in Invoker, InvokerStep(v) PROVE RetryIsArmed'
    BY <2>3 DEF IInv, TypeOK, InvokerStep, Invoke, InvokeOk, AssumptionExit, Withdraw,
       MarkDeoptimized, Rearm, Goto, hotnessVars, historyVars
  <2>4. CASE UNCHANGED vars
    BY <2>4 DEF vars, hotnessVars, historyVars
  <2>. QED  BY <2>1, <2>2, <2>3, <2>4 DEF Next
<1> DEFINE Delayed == \A j \in Compiler : pc[j] = "idle" /\ pc'[j] = "testing"
                        => \/ invocations >= retry_after
                           \/ \E k \in Compiler : pc[k] = "rearming"
<1>3. IInv /\ RetryIsArmed /\ [Next]_vars => [Delayed]_vars
  <2> SUFFICES ASSUME IInv, RetryIsArmed, Next,
                      NEW j \in Compiler, pc[j] = "idle", pc'[j] = "testing"
               PROVE  invocations >= retry_after \/ \E k \in Compiler : pc[k] = "rearming"
    OBVIOUS
  <2>1. ASSUME NEW p \in Publisher, PublisherStep(p) PROVE FALSE
    BY <2>1 DEF IInv, TypeOK, Thread, PublisherStep, PublishBaseline, ResetForBaseline,
       ClearOptimizedActive, Goto
  <2>2. ASSUME NEW v \in Invoker, InvokerStep(v) PROVE FALSE
    BY <2>2 DEF IInv, TypeOK, Thread, InvokerStep, Invoke, InvokeOk, AssumptionExit, Withdraw,
       MarkDeoptimized, Goto
  <2>3. ASSUME NEW i \in Compiler, CompilerStep(i) PROVE invocations >= next_invocation
    BY <2>3 DEF IInv, TypeOK, Thread, CompilerStep, TryBegin, Hot, Claim, Capture, CompileFails,
       PublishOptimized, MarkOptimized, SetOptimizedActive, StoreOptimized, ReportFailure,
       RearmAfterFailure, Goto
  <2>4. invocations >= next_invocation
    BY <2>1, <2>2, <2>3 DEF Next
  <2>. QED  BY <2>4 DEF IInv, TypeOK, RetryIsArmed
<1>. QED  BY IInvInit, IInvStep, <1>1, <1>2, <1>3, PTL DEF Spec, RetryIsDelayed

-----------------------------------------------------------------------------
(* The claim in the hands of the script frontends.                          *)

JobIsLive == task \in {"queued", "running", "installing"}

\* The script thread tests the profile inside publication_mutex, and between
\* its claim and its submission the claim is its own: no live job would settle
\* it, none can promote.
ClaimantIsAlone ==
  /\ script = "testing" => ~optimized_active
  /\ script = "claimed" => compilation_claimed /\ ~optimized_active /\ ~JobIsLive

FrontendInv == FrontendTypeOK /\ LiveJobHasClaim /\ ClaimantIsAlone

\* Nothing is claimed and no task is live.
LEMMA FrontendInvInit == FrontendInit => FrontendInv
<1> SUFFICES ASSUME FrontendInit PROVE FrontendInv
  OBVIOUS
<1>1. invocations \in 0..MaxInvocations /\ next_invocation \in Nat
  BY HotnessAssumption DEF HotnessAssumption, FrontendInit
<1>2. FrontendTypeOK
  BY <1>1, Zenon DEF FrontendInit, FrontendTypeOK
<1>3. LiveJobHasClaim /\ ClaimantIsAlone
  BY DEF FrontendInit, LiveJobHasClaim, ClaimantIsAlone
<1>. QED  BY <1>2, <1>3 DEF FrontendInv

\* Every step of the script thread and of the worker keeps the claim with the job.
LEMMA FrontendInvStep == FrontendInv /\ [FrontendNext]_frontendVars => FrontendInv'
<1> SUFFICES ASSUME FrontendInv, [FrontendNext]_frontendVars PROVE FrontendInv'
  OBVIOUS
<1>1. FrontendTypeOK'
  <2>1. /\ retry_delay \in Nat /\ MaxInvocations \in Nat
        /\ invocations \in 0..MaxInvocations /\ next_invocation \in Nat
    BY HotnessAssumption DEF HotnessAssumption, FrontendInv, FrontendTypeOK
  <2>2. invocations' \in {invocations, invocations + 1} /\ invocations' <= MaxInvocations
    BY <2>1 DEF FrontendNext, frontendVars, profileVars, Call, ClaimForScript, Submit,
         SubmitFails, Cancel, Collect, Start,
         JobCompiles, JobFails, JobRearms, JobPromotes,
         Complete
  <2>3. next_invocation' \in {next_invocation, invocations + retry_delay}
    BY DEF Rearm, FrontendNext, frontendVars, profileVars, Call, ClaimForScript, Submit,
         SubmitFails, Cancel, Collect, Start,
         JobCompiles, JobFails, JobRearms, JobPromotes,
         Complete
  <2>4. invocations' \in 0..MaxInvocations /\ next_invocation' \in Nat
    BY <2>1, <2>2, <2>3
  <2>5. /\ compilation_claimed' \in BOOLEAN /\ optimized_active' \in BOOLEAN
        /\ cancelled' \in BOOLEAN
    BY Zenon DEF FrontendInv, FrontendTypeOK, FrontendNext, frontendVars, profileVars,
         CancelTicket, Call, ClaimForScript, Submit,
         SubmitFails, Cancel, Collect, Start,
         JobCompiles, JobFails, JobRearms, JobPromotes,
         Complete
  <2>6. /\ script' \in {"idle", "testing", "claimed", "collected"}
        /\ task' \in {"none", "queued", "running", "installing", "rearming", "finishing"}
    BY DEF FrontendInv, FrontendTypeOK, FrontendNext, frontendVars, profileVars,
         CancelTicket, Call, ClaimForScript, Submit,
         SubmitFails, Cancel, Collect, Start,
         JobCompiles, JobFails, JobRearms, JobPromotes,
         Complete
  <2>. QED  BY <2>4, <2>5, <2>6 DEF FrontendTypeOK
<1>2. LiveJobHasClaim' /\ ClaimantIsAlone'
  <2>0. LiveJobHasClaim /\ ClaimantIsAlone
    BY DEF FrontendInv
  <2>1. CASE Call \/ ClaimForScript
    BY <2>0, <2>1 DEF LiveJobHasClaim, ClaimantIsAlone, JobIsLive,
                      Call, ClaimForScript
  <2>2. CASE Submit \/ SubmitFails
    BY <2>0, <2>2 DEF LiveJobHasClaim, ClaimantIsAlone, JobIsLive,
                      Submit, SubmitFails, profileVars
  <2>3. CASE Cancel \/ Collect
    BY <2>0, <2>3 DEF LiveJobHasClaim, ClaimantIsAlone, JobIsLive,
                      Cancel, Collect, CancelTicket,
                      profileVars
  <2>4. CASE Start \/ JobCompiles \/ JobFails
    BY <2>0, <2>4 DEF LiveJobHasClaim, ClaimantIsAlone, JobIsLive,
                      Start, JobCompiles, JobFails,
                      profileVars
  <2>5. CASE JobRearms \/ JobPromotes \/ Complete
    BY <2>0, <2>5 DEF LiveJobHasClaim, ClaimantIsAlone, JobIsLive,
                      JobRearms, JobPromotes, Complete,
                      profileVars
  <2>6. CASE UNCHANGED frontendVars
    BY <2>0, <2>6 DEF LiveJobHasClaim, ClaimantIsAlone, JobIsLive,
                      frontendVars, profileVars
  <2>. QED  BY <2>1, <2>2, <2>3, <2>4, <2>5, <2>6 DEF FrontendNext
<1>. QED  BY <1>1, <1>2 DEF FrontendInv

\* A background job of a frontend has the claim it was submitted for until it
\* settles it, for any number of calls, cancellations, failures and
\* collections: schedule_if_hot never submits a second attempt beside it, and
\* publish_optimized or report_optimization_failure finds the claim.
THEOREM JobsKeepTheirClaim == FrontendSpec => []LiveJobHasClaim
<1>1. FrontendInv => LiveJobHasClaim
  BY DEF FrontendInv
<1>. QED  BY FrontendInvInit, FrontendInvStep, <1>1, PTL DEF FrontendSpec
=============================================================================
