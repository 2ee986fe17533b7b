----------------------------- MODULE TieredCode -----------------------------
(***************************************************************************)
(* Tier switching (src/jit/tiering.cpp): the published state of a tiered   *)
(* function, its hotness profile with the compilation claim, and the       *)
(* threads around them.  Publications and withdrawals run under            *)
(* publication_mutex, but readers load the state without it and            *)
(* report_optimization_failure changes the claim without it, so every      *)
(* store to the state, the claim and the flag is a step of its own.        *)
(*                                                                         *)
(* Compilers follow the frontends (schedule_if_hot and compile_optimized): *)
(* claim, capture the baseline generation, compile, publish_optimized with *)
(* that generation, and report a failure if anything goes wrong.           *)
(***************************************************************************)
EXTENDS HotnessProfile, FiniteSets

CONSTANTS
  Compiler, Publisher, Invoker,  \* threads, by what they do
  MaxBaselines,                  \* bound on publish_baseline calls
  MaxGeneration                  \* bound on generations

None == "none"

ASSUME TieringAssumption ==
  /\ MaxBaselines \in Nat /\ MaxGeneration \in Nat
  /\ None \notin Compiler \cup Publisher \cup Invoker
  /\ Compiler \cap Publisher = {} /\ Compiler \cap Invoker = {} /\ Publisher \cap Invoker = {}

VARIABLES
  \* TieredCode::Impl
  state,                    \* the installed immutable State
  publication_mutex,        \* the thread that holds it, or None
  promotions,
  successful_compilations,  \* HotnessProfile::Impl
  \* threads
  pc,
  seen,                     \* generation a thread captured or ran
  from,                     \* baseline a compiler compiles
  \* history
  baselines,                \* number of baselines published
  retry_after,              \* invocation count before which no retry is due
  exited                    \* generations that reported an assumption exit

hotnessVars == <<invocations, next_invocation, compilation_claimed, optimized_active,
                 successful_compilations>>
historyVars == <<baselines, retry_after, exited>>
vars == <<state, publication_mutex, promotions, hotnessVars, pc, seen, from, historyVars>>

Thread == Compiler \cup Publisher \cup Invoker

\* Impl::State.  Baselines are numbered; `source` is the baseline the active
\* code was compiled from, `fallback` the generation of the withdrawal state
\* that publish_optimized allocates in advance.
State == [baseline : Nat, source : Nat, generation : Nat,
          tier : {"kNone", "kBaseline", "kOptimized"}, fallback : Nat]

Label == {"idle", "testing", "claimed", "compiling", "promoting", "marking", "storing",
          "failing", "rearming", "resetting", "clearing", "running", "withdrawing",
          "marking_deopt"}

TypeOK ==
  /\ state \in State
  /\ publication_mutex \in Thread \cup {None}
  /\ promotions \in Nat
  /\ invocations \in Nat
  /\ next_invocation \in Nat
  /\ compilation_claimed \in BOOLEAN
  /\ optimized_active \in BOOLEAN
  /\ successful_compilations \in Nat
  /\ pc \in [Thread -> Label]
  /\ seen \in [Thread -> Nat]
  /\ from \in [Compiler -> Nat]
  /\ baselines \in Nat
  /\ retry_after \in Nat
  /\ exited \subseteq Nat

Init ==
  /\ state = [baseline |-> 0, source |-> 0, generation |-> 0, tier |-> "kNone", fallback |-> 0]
  /\ publication_mutex = None
  /\ promotions = 0
  /\ invocations = 0
  /\ next_invocation = threshold
  /\ compilation_claimed = FALSE
  /\ optimized_active = FALSE
  /\ successful_compilations = 0
  /\ pc = [p \in Thread |-> "idle"]
  /\ seen = [p \in Thread |-> 0]
  /\ from = [j \in Compiler |-> 0]
  /\ baselines = 0
  /\ retry_after = 0
  /\ exited = {}

-----------------------------------------------------------------------------
(* Helpers.                                                                 *)

\* next_generation; the wrap at 2^64 is beyond MaxGeneration.
NextGeneration(g) == g + 1

\* The state that publish_baseline builds.
BaselineState(b, g) ==
  [baseline |-> b, source |-> b, generation |-> g, tier |-> "kBaseline", fallback |-> 0]

\* Mutant: the withdrawal state reuses the generation it was promoted from.
OptimizedStateStaleFallback(s, source) ==
  [baseline |-> s.baseline, source |-> source, generation |-> NextGeneration(s.generation),
   tier |-> "kOptimized", fallback |-> s.generation]

\* The state that publish_optimized builds over s, with its fallback.
OptimizedState(s, source) ==
  [baseline |-> s.baseline, source |-> source, generation |-> NextGeneration(s.generation),
   tier |-> "kOptimized", fallback |-> NextGeneration(NextGeneration(s.generation))]

Lock(p) == publication_mutex = None /\ publication_mutex' = p
Unlock(p) == publication_mutex = p /\ publication_mutex' = None
Goto(p, l) == pc' = [pc EXCEPT ![p] = l]

-----------------------------------------------------------------------------
(* publish_baseline.                                                        *)

PublishBaseline(p) ==
  /\ pc[p] = "idle"
  /\ baselines < MaxBaselines
  /\ state.generation < MaxGeneration
  /\ Lock(p)
  /\ baselines' = baselines + 1
  /\ state' = BaselineState(baselines + 1, NextGeneration(state.generation))
  /\ Goto(p, "resetting")
  /\ UNCHANGED <<promotions, hotnessVars, seen, from, retry_after, exited>>

\* reset_for_baseline: counters, thresholds and the claim.
ResetForBaseline(p) ==
  /\ pc[p] = "resetting"
  /\ invocations' = 0
  /\ next_invocation' = threshold
  /\ compilation_claimed' = FALSE
  /\ retry_after' = 0
  /\ Goto(p, "clearing")
  /\ UNCHANGED <<state, publication_mutex, promotions, optimized_active,
                 successful_compilations, seen, from, baselines, exited>>

\* reset_for_baseline: the flag; then the mutex is released.
ClearOptimizedActive(p) ==
  /\ pc[p] = "clearing"
  /\ Unlock(p)
  /\ optimized_active' = FALSE
  /\ Goto(p, "idle")
  /\ UNCHANGED <<state, promotions, invocations, next_invocation, compilation_claimed,
                 successful_compilations, seen, from, historyVars>>

-----------------------------------------------------------------------------
(* A compiler: schedule_if_hot, then the job.                               *)

\* try_begin_optimization: the mutex, the tier and hot() ...
TryBegin(j) ==
  /\ pc[j] = "idle"
  /\ Lock(j)
  /\ state.tier = "kBaseline"
  /\ Hot
  /\ Goto(j, "testing")
  /\ UNCHANGED <<state, promotions, hotnessVars, seen, from, historyVars>>

\* ... and the compare-exchange on the claim.
Claim(j) ==
  /\ pc[j] = "testing"
  /\ Unlock(j)
  /\ IF compilation_claimed
     THEN /\ Goto(j, "idle")
          /\ UNCHANGED compilation_claimed
     ELSE /\ Goto(j, "claimed")
          /\ compilation_claimed' = TRUE
  /\ UNCHANGED <<state, promotions, invocations, next_invocation, optimized_active,
                 successful_compilations, seen, from, baselines, retry_after, exited>>

\* snapshot(): the generation and baseline to compile, or give the claim up.
Capture(j) ==
  /\ pc[j] = "claimed"
  /\ IF state.tier = "kBaseline"
     THEN /\ seen' = [seen EXCEPT ![j] = state.generation]
          /\ from' = [from EXCEPT ![j] = state.baseline]
          /\ Goto(j, "compiling")
     ELSE /\ Goto(j, "failing")
          /\ UNCHANGED <<seen, from>>
  /\ UNCHANGED <<state, publication_mutex, promotions, hotnessVars, historyVars>>

\* Compilation fails or is cancelled, a check of publish_optimized on the new
\* code alone fails, or its allocation throws.
CompileFails(j) ==
  /\ pc[j] = "compiling"
  /\ Goto(j, "failing")
  /\ UNCHANGED <<state, publication_mutex, promotions, hotnessVars, seen, from, historyVars>>

\* Mutant: the generation is not compared.
GenerationUnchecked(j) == state.tier # "kNone"

\* publish_optimized's test of the captured generation.
GenerationMatches(j) == state.tier # "kNone" /\ state.generation = seen[j]

\* publish_optimized takes the mutex: reject, or count the promotion.
PublishOptimized(j) ==
  /\ pc[j] = "compiling"
  /\ state.generation < MaxGeneration
  /\ IF GenerationMatches(j)
     THEN /\ Lock(j)
          /\ promotions' = promotions + 1
          /\ Goto(j, "promoting")
     ELSE /\ publication_mutex = None
          /\ UNCHANGED <<publication_mutex, promotions>>
          /\ Goto(j, "failing")
  /\ UNCHANGED <<state, hotnessVars, seen, from, historyVars>>

\* mark_optimized: the claim is consumed and the success counted ...
MarkOptimized(j) ==
  /\ pc[j] = "promoting"
  /\ compilation_claimed' = FALSE
  /\ successful_compilations' = IF compilation_claimed THEN successful_compilations + 1
                                                       ELSE successful_compilations
  /\ Goto(j, "marking")
  /\ UNCHANGED <<state, publication_mutex, promotions, invocations, next_invocation,
                 optimized_active, seen, from, historyVars>>

\* Mutant: the state is published before optimized_active is set.
SetOptimizedActiveLate(j) ==
  /\ pc[j] = "marking"
  /\ state' = OptimizedState(state, from[j])
  /\ Goto(j, "storing")
  /\ UNCHANGED <<publication_mutex, promotions, hotnessVars, seen, from, historyVars>>

\* ... and optimized_active set.
SetOptimizedActive(j) ==
  /\ pc[j] = "marking"
  /\ optimized_active' = TRUE
  /\ Goto(j, "storing")
  /\ UNCHANGED <<state, publication_mutex, promotions, invocations, next_invocation,
                 compilation_claimed, successful_compilations, seen, from, historyVars>>

\* The optimized state is published last.
StoreOptimized(j) ==
  /\ pc[j] = "storing"
  /\ Unlock(j)
  /\ state' = OptimizedState(state, from[j])
  /\ Goto(j, "idle")
  /\ UNCHANGED <<promotions, hotnessVars, seen, from, historyVars>>

\* report_optimization_failure, without the mutex: release the claim ...
ReportFailure(j) ==
  /\ pc[j] = "failing"
  /\ IF compilation_claimed
     THEN /\ compilation_claimed' = FALSE
          /\ retry_after' = invocations + retry_delay
          /\ Goto(j, "rearming")
     ELSE /\ Goto(j, "idle")
          /\ UNCHANGED <<compilation_claimed, retry_after>>
  /\ UNCHANGED <<state, publication_mutex, promotions, invocations, next_invocation,
                 optimized_active, successful_compilations, seen, from, baselines, exited>>

\* ... then move the threshold.
RearmAfterFailure(j) ==
  /\ pc[j] = "rearming"
  /\ Rearm
  /\ Goto(j, "idle")
  /\ UNCHANGED <<state, publication_mutex, promotions, invocations, compilation_claimed,
                 optimized_active, successful_compilations, seen, from, historyVars>>

-----------------------------------------------------------------------------
(* TieredCode::invoke (and enter_osr, which withdraws in the same way).     *)

\* record_invocation, then the state is loaded and its code runs.
Invoke(v) ==
  /\ pc[v] = "idle"
  /\ invocations < MaxInvocations
  /\ invocations' = invocations + 1
  /\ IF state.tier = "kOptimized"
     THEN Goto(v, "running") /\ seen' = [seen EXCEPT ![v] = state.generation]
     ELSE UNCHANGED <<pc, seen>>
  /\ UNCHANGED <<state, publication_mutex, promotions, next_invocation, compilation_claimed,
                 optimized_active, successful_compilations, from, historyVars>>

\* The optimized code returns normally.
InvokeOk(v) ==
  /\ pc[v] = "running"
  /\ Goto(v, "idle")
  /\ UNCHANGED <<state, publication_mutex, promotions, hotnessVars, seen, from, historyVars>>

\* It reports an invalidated assumption (is_assumption_exit).
AssumptionExit(v) ==
  /\ pc[v] = "running"
  /\ exited' = exited \cup {seen[v]}
  /\ Goto(v, "withdrawing")
  /\ UNCHANGED <<state, publication_mutex, promotions, hotnessVars, seen, from, baselines, retry_after>>

\* Mutant: any optimized tier is withdrawn.
WithdrawApplies(v) == state.tier = "kOptimized"

\* withdraw_optimized's test against the generation that ran.
OwnGeneration(v) == state.tier = "kOptimized" /\ state.generation = seen[v]

\* withdraw_optimized: install the fallback, or nothing if another thread
\* replaced the generation that this one ran.
Withdraw(v) ==
  /\ pc[v] = "withdrawing"
  /\ IF OwnGeneration(v)
     THEN /\ Lock(v)
          /\ state' = BaselineState(state.baseline, state.fallback)
          /\ Goto(v, "marking_deopt")
     ELSE /\ publication_mutex = None
          /\ UNCHANGED <<publication_mutex, state>>
          /\ Goto(v, "idle")
  /\ UNCHANGED <<promotions, hotnessVars, seen, from, historyVars>>

\* mark_deoptimized, then the mutex is released.
MarkDeoptimized(v) ==
  /\ pc[v] = "marking_deopt"
  /\ Unlock(v)
  /\ optimized_active' = FALSE
  /\ compilation_claimed' = FALSE
  /\ Rearm
  /\ Goto(v, "idle")
  /\ UNCHANGED <<state, promotions, invocations, successful_compilations, seen, from,
                 historyVars>>

-----------------------------------------------------------------------------
PublisherStep(p) == PublishBaseline(p) \/ ResetForBaseline(p) \/ ClearOptimizedActive(p)

CompilerStep(j) ==
  \/ TryBegin(j) \/ Claim(j) \/ Capture(j) \/ CompileFails(j)
  \/ PublishOptimized(j) \/ MarkOptimized(j) \/ SetOptimizedActive(j) \/ StoreOptimized(j)
  \/ ReportFailure(j) \/ RearmAfterFailure(j)

InvokerStep(v) ==
  Invoke(v) \/ InvokeOk(v) \/ AssumptionExit(v) \/ Withdraw(v) \/ MarkDeoptimized(v)

Next ==
  \/ \E p \in Publisher : PublisherStep(p)
  \/ \E j \in Compiler : CompilerStep(j)
  \/ \E v \in Invoker : InvokerStep(v)

Spec == Init /\ [][Next]_vars

-----------------------------------------------------------------------------
(* Properties.                                                              *)

\* Every publication and withdrawal installs a generation never installed
\* before, the preallocated fallback included: a captured generation that
\* still matches means that nothing happened in between.
GenerationsAreFresh ==
  [][state' # state => state'.generation > state.generation]_vars

\* Optimized code is active only over the baseline it was compiled from,
\* whatever publications and withdrawals happened while it was compiled.
OptimizedMatchesBaseline ==
  state.tier = "kOptimized" => state.source = state.baseline

\* "A reader that acquires the optimized state must never observe a partial
\* promotion": its promotion is counted, the flag is set and no claim is open.
PromotionIsComplete ==
  state.tier = "kOptimized" => optimized_active /\ ~compilation_claimed /\ promotions > 0

\* A late assumption exit withdraws the generation that exited and never a
\* newer optimized tier.
OnlyExitedTierIsWithdrawn ==
  [][state.tier = "kOptimized" /\ state'.baseline = state.baseline /\ state' # state
       => state.generation \in exited]_vars

\* The comment in publish_optimized: a reader never sees "optimized code with
\* zero successful builds".
OptimizedHasSuccessfulBuild ==
  state.tier = "kOptimized" => successful_compilations > 0

\* A failed compilation "clears the claim and advances both eligibility
\* thresholds by the configured retry delay": a claim that starts its test
\* after the failure was reported in full comes no earlier than the delay.
RetryIsDelayed ==
  [][\A j \in Compiler : pc[j] = "idle" /\ pc'[j] = "testing"
       => \/ invocations >= retry_after
          \/ \E k \in Compiler : pc[k] = "rearming"]_vars
=============================================================================
