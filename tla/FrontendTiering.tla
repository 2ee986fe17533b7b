-------------------------- MODULE FrontendTiering ---------------------------
(***************************************************************************)
(* How a language frontend drives tiering (frontend/quickjs/jit_module.cpp; *)
(* the Lua and PocketPy modules have the same structure): one compiled     *)
(* function, the script thread that calls, cancels and collects it, and    *)
(* the scheduler's worker.  The scheduler appears as the one live task     *)
(* that the function's identity and generation can have, and the baseline  *)
(* is published once, so the generation stands still until a promotion.    *)
(* CompilationScheduler and TieredCode model those two in full.            *)
(***************************************************************************)
EXTENDS HotnessProfile

CONSTANT AllowCancel  \* whether scripts call unijit.cancel

ASSUME FrontendAssumption == AllowCancel \in BOOLEAN

VARIABLES
  script,      \* where the script thread is
  task,        \* the live task of this identity and generation
  cancelled    \* cancellation requested from that task

profileVars == <<invocations, next_invocation, compilation_claimed, optimized_active>>
frontendVars == <<profileVars, script, task, cancelled>>

FrontendTypeOK ==
  /\ invocations \in 0..MaxInvocations
  /\ next_invocation \in Nat
  /\ compilation_claimed \in BOOLEAN
  /\ optimized_active \in BOOLEAN
  /\ script \in {"idle", "testing", "claimed", "collected"}
  /\ task \in {"none", "queued", "running", "installing", "rearming",
              "finishing"}
  /\ cancelled \in BOOLEAN

FrontendInit ==
  /\ invocations = 0
  /\ next_invocation = threshold
  /\ compilation_claimed = FALSE
  /\ optimized_active = FALSE
  /\ script = "idle"
  /\ task = "none"
  /\ cancelled = FALSE

-----------------------------------------------------------------------------
(* The script thread.                                                       *)

\* invoke_compiled_function: run the code, then schedule_if_hot, whose
\* try_begin_optimization takes publication_mutex and tests hot() ...
Call ==
  /\ script = "idle"
  /\ invocations < MaxInvocations
  /\ invocations' = invocations + 1
  /\ script' = IF ~optimized_active /\ invocations + 1 >= next_invocation
               THEN "testing" ELSE "idle"
  /\ UNCHANGED <<next_invocation, compilation_claimed, optimized_active, task, cancelled>>

\* ... and the compare-exchange on the claim.
ClaimForScript ==
  /\ script = "testing"
  /\ script' = IF compilation_claimed THEN "idle" ELSE "claimed"
  /\ compilation_claimed' = TRUE
  /\ UNCHANGED <<invocations, next_invocation, optimized_active, task, cancelled>>

\* Mutant: the claim is given up although the submission succeeded.
SubmitAndRelease ==
  /\ script = "claimed"
  /\ script' = "idle"
  /\ compilation_claimed' = FALSE
  /\ IF task = "none"
     THEN task' = "queued" /\ cancelled' = FALSE
     ELSE UNCHANGED <<task, cancelled>>
  /\ UNCHANGED <<invocations, next_invocation, optimized_active>>

\* try_submit accepts the request, or shares the live task that has the same
\* identity and generation.
Submit ==
  /\ script = "claimed"
  /\ script' = "idle"
  /\ IF task = "none"
     THEN task' = "queued" /\ cancelled' = FALSE
     ELSE UNCHANGED <<task, cancelled>>
  /\ UNCHANGED profileVars

\* There is no scheduler, the queue is full or something throws: the claim is
\* reported as failed.
SubmitFails ==
  /\ script = "claimed"
  /\ script' = "idle"
  /\ compilation_claimed' = FALSE
  /\ Rearm
  /\ UNCHANGED <<invocations, optimized_active, task, cancelled>>

\* CompilationTicket::cancel on the retained ticket: queued work is removed,
\* running work is asked to stop.
CancelTicket ==
  IF task = "queued"
  THEN task' = "none" /\ cancelled' = FALSE
  ELSE task' = task /\ cancelled' = (task # "none")

\* unijit.cancel
Cancel ==
  /\ AllowCancel
  /\ script = "idle"
  /\ CancelTicket
  /\ UNCHANGED <<profileVars, script>>

\* finalize_compiled_function
Collect ==
  /\ script = "idle"
  /\ script' = "collected"
  /\ CancelTicket
  /\ UNCHANGED profileVars

-----------------------------------------------------------------------------
(* The worker.                                                              *)

Start ==
  /\ task = "queued"
  /\ task' = "running"
  /\ UNCHANGED <<profileVars, script, cancelled>>

\* compile_optimized has its code and sees no cancellation in its last test.
JobCompiles ==
  /\ task = "running"
  /\ ~cancelled
  /\ task' = "installing"
  /\ UNCHANGED <<profileVars, script, cancelled>>

\* compile_optimized fails, sees the cancellation or cannot publish:
\* fail_optimization releases the claim ...
JobFails ==
  /\ task \in {"running", "installing"}
  /\ task' = "rearming"
  /\ compilation_claimed' = FALSE
  /\ UNCHANGED <<invocations, next_invocation, optimized_active, script, cancelled>>

\* ... then moves the threshold and returns.
JobRearms ==
  /\ task = "rearming"
  /\ task' = "finishing"
  /\ Rearm
  /\ UNCHANGED <<invocations, compilation_claimed, optimized_active, script, cancelled>>

\* compile_optimized publishes, under publication_mutex.
JobPromotes ==
  /\ task = "installing"
  /\ script # "testing"
  /\ task' = "finishing"
  /\ compilation_claimed' = FALSE
  /\ optimized_active' = TRUE
  /\ UNCHANGED <<invocations, next_invocation, script, cancelled>>

\* The worker completes the task: it leaves the identity table.
Complete ==
  /\ task = "finishing"
  /\ task' = "none"
  /\ cancelled' = FALSE
  /\ UNCHANGED <<profileVars, script>>

-----------------------------------------------------------------------------
FrontendNext ==
  \/ Call \/ ClaimForScript \/ Submit \/ SubmitFails \/ Cancel \/ Collect
  \/ Start \/ JobCompiles \/ JobFails \/ JobRearms \/ JobPromotes \/ Complete

FrontendSpec == FrontendInit /\ [][FrontendNext]_frontendVars

-----------------------------------------------------------------------------
(* Properties.                                                              *)

\* A job that is queued or still compiling has the claim it was submitted
\* for: whatever its end, publish_optimized or report_optimization_failure
\* finds a claim to settle, and no other attempt runs beside it.
LiveJobHasClaim ==
  task \in {"queued", "running", "installing"} => compilation_claimed /\ ~optimized_active

\* "A failed compilation must call report_optimization_failure()": an open
\* claim of a live function has a submission or a job that will settle it.
ClaimIsOwned ==
  compilation_claimed =>
    script \in {"claimed", "collected"} \/ task \in {"queued", "running", "installing"}
=============================================================================
