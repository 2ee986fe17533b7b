-------------------------- MODULE AssumptionRuntime -------------------------
(***************************************************************************)
(* Assumption tokens (src/runtime/assumption.cpp), the poll word of an     *)
(* execution context (include/unijit/runtime/execution_context.h) and the  *)
(* managed invocation that ties them together (CompiledFunction::invoke in *)
(* src/jit/compiler.cpp): threads run native code that depends on tokens   *)
(* while other threads invalidate them.                                    *)
(*                                                                         *)
(* A thread owns one execution context, so contexts are named by threads.  *)
(* One step is one critical section of a token's mutex, one atomic access  *)
(* to a poll word or a token's valid_ flag, or a step of thread-local work.*)
(* Native code is seen at its polls and its return; it may loop for ever.  *)
(*                                                                         *)
(* outcome, interrupted_at_poll and valid_at_return are history variables  *)
(* of the last invocation of each thread.                                  *)
(***************************************************************************)
EXTENDS Naturals, Sequences, FiniteSets

CONSTANTS
  Thread,        \* threads that invoke code, each with its context
  Token,         \* assumption tokens
  Code,          \* compiled functions
  Dependencies,  \* AssumptionSet of each function, in the order of add()
  Invalidator    \* calls of Assumption::invalidate

\* AssumptionSet::add refuses a token that is already in the set.
ASSUME DependenciesAssumption ==
  /\ Dependencies \in [Code -> Seq(Token)]
  /\ \A c \in Code : \A i, j \in DOMAIN Dependencies[c] :
       Dependencies[c][i] = Dependencies[c][j] => i = j

\* No invalidate() holds a token's mutex, or a call has no target yet.
None == "none"

ASSUME NoneAssumption == None \notin Token /\ None \notin Invalidator

VARIABLES
  \* Assumption
  valid,            \* valid_
  active_contexts,  \* contexts of the invocations that subscribed
  mutex,            \* the invalidate() inside its critical section, or None
  \* ExecutionContext
  poll_word,        \* the bits of interrupt_requested_
  exit_reason,
  \* invoke, or an interpreter, on each thread
  pc, code,
  count,            \* subscription_count_
  checked,          \* tokens re-read by first_invalid()
  outcome, interrupted_at_poll, valid_at_return,
  \* invalidate()
  ipc, target,
  to_wake           \* the rest of active_contexts_ in its loop

tokenVars == <<valid, active_contexts, mutex>>
contextVars == <<poll_word, exit_reason>>
threadVars == <<pc, code, count, checked, outcome, interrupted_at_poll, valid_at_return>>
invalidatorVars == <<ipc, target, to_wake>>
vars == <<tokenVars, contextVars, threadVars, invalidatorVars>>

\* kInterruptRequested and kDeoptimizationWakeup
Interrupt == 1
Wakeup == 2

Outcome == {"none", "ok", "interrupted", "runtime_exit", "resource_exhausted"}

TypeOK ==
  /\ valid \in [Token -> BOOLEAN]
  /\ active_contexts \in [Token -> SUBSET Thread]
  /\ mutex \in [Token -> Invalidator \cup {None}]
  /\ poll_word \in [Thread -> SUBSET {Interrupt, Wakeup}]
  /\ exit_reason \in [Thread -> {"kNone", "kSafepoint", "kRuntime"}]
  /\ pc \in [Thread -> {"idle", "activate", "native", "recheck", "release", "interpret"}]
  /\ code \in [Thread -> Code]
  /\ count \in [Thread -> Nat]
  /\ checked \in [Thread -> Nat]
  /\ \A t \in Thread : {count[t], checked[t]} \subseteq 0..Len(Dependencies[code[t]])
  /\ outcome \in [Thread -> Outcome]
  /\ interrupted_at_poll \in [Thread -> BOOLEAN]
  /\ valid_at_return \in [Thread -> BOOLEAN]
  /\ ipc \in [Invalidator -> {"idle", "waking", "waiting", "notified", "done"}]
  /\ target \in [Invalidator -> Token \cup {None}]
  /\ to_wake \in [Invalidator -> SUBSET Thread]

Init ==
  /\ valid = [a \in Token |-> TRUE]
  /\ active_contexts = [a \in Token |-> {}]
  /\ mutex = [a \in Token |-> None]
  /\ poll_word = [t \in Thread |-> {}]
  /\ exit_reason = [t \in Thread |-> "kNone"]
  /\ pc = [t \in Thread |-> "idle"]
  /\ code \in [Thread -> Code]
  /\ count = [t \in Thread |-> 0]
  /\ checked = [t \in Thread |-> 0]
  /\ outcome = [t \in Thread |-> "none"]
  /\ interrupted_at_poll = [t \in Thread |-> FALSE]
  /\ valid_at_return = [t \in Thread |-> FALSE]
  /\ ipc = [i \in Invalidator |-> "idle"]
  /\ target = [i \in Invalidator |-> None]
  /\ to_wake = [i \in Invalidator |-> {}]

-----------------------------------------------------------------------------
(* The poll word.                                                           *)

\* Mutant: the whole word is cleared instead of one bit.
ClearPollWord(word) == {}

\* Mutant: the wake bit is never cleared.
KeepPollWord(word) == word

\* clear_deoptimization_wakeup: fetch_and(~kDeoptimizationWakeup)
ClearWakeup(word) == word \ {Wakeup}

\* exit_poll_requested
ExitPollRequested(t) == poll_word[t] # {}

\* request_interrupt, by any thread
RequestInterrupt(t) ==
  /\ poll_word' = [poll_word EXCEPT ![t] = @ \cup {Interrupt}]
  /\ UNCHANGED <<tokenVars, exit_reason, threadVars, invalidatorVars>>

\* clear_interrupt, by any thread
ClearInterrupt(t) ==
  /\ poll_word' = [poll_word EXCEPT ![t] = @ \ {Interrupt}]
  /\ UNCHANGED <<tokenVars, exit_reason, threadVars, invalidatorVars>>

-----------------------------------------------------------------------------
(* CompiledFunction::invoke.                                                *)

\* The dependency list of the function that thread t runs.
Deps(t) == Dependencies[code[t]]

\* finish_invocation
Finish(reason) ==
  CASE reason = "kNone" -> "ok"
    [] reason = "kSafepoint" -> "interrupted"
    [] reason = "kRuntime" -> "runtime_exit"

\* Entry: stale diagnostics and a stale wake bit are cleared, an interrupt
\* request is not.
Invoke(t, c) ==
  /\ pc[t] = "idle"
  /\ code' = [code EXCEPT ![t] = c]
  /\ exit_reason' = [exit_reason EXCEPT ![t] = "kNone"]
  /\ poll_word' = [poll_word EXCEPT ![t] = ClearWakeup(@)]
  /\ pc' = [pc EXCEPT ![t] = IF Dependencies[c] = <<>> THEN "native" ELSE "activate"]
  /\ outcome' = [outcome EXCEPT ![t] = "none"]
  /\ interrupted_at_poll' = [interrupted_at_poll EXCEPT ![t] = FALSE]
  /\ valid_at_return' = [valid_at_return EXCEPT ![t] = FALSE]
  /\ UNCHANGED <<tokenVars, count, checked, invalidatorVars>>

\* One round of the AssumptionActivation constructor: Assumption::subscribe on
\* the next dependency.  It succeeds, finds the token invalid (the invocation
\* becomes a runtime exit at that site), or runs out of memory.
Subscribe(t) ==
  /\ pc[t] = "activate"
  /\ LET a == Deps(t)[count[t] + 1]
     IN  /\ mutex[a] = None
         /\ \/ /\ valid[a]
               /\ active_contexts' = [active_contexts EXCEPT ![a] = @ \cup {t}]
               /\ count' = [count EXCEPT ![t] = @ + 1]
               /\ pc' = [pc EXCEPT ![t] = IF count[t] + 1 = Len(Deps(t)) THEN "native" ELSE @]
               /\ UNCHANGED <<outcome, exit_reason>>
            \/ /\ valid[a]
               /\ outcome' = [outcome EXCEPT ![t] = "resource_exhausted"]
               /\ pc' = [pc EXCEPT ![t] = "release"]
               /\ UNCHANGED <<active_contexts, count, exit_reason>>
            \/ /\ ~valid[a]
               /\ exit_reason' = [exit_reason EXCEPT ![t] = "kRuntime"]
               /\ outcome' = [outcome EXCEPT ![t] = "runtime_exit"]
               /\ pc' = [pc EXCEPT ![t] = "release"]
               /\ UNCHANGED <<active_contexts, count>>
  /\ UNCHANGED <<valid, mutex, poll_word, code, checked, interrupted_at_poll,
                 valid_at_return, invalidatorVars>>

\* Native code is left: a function without dependencies finishes, any other
\* goes through the re-check of its tokens.
LeaveNative(t, reason) ==
  /\ exit_reason' = [exit_reason EXCEPT ![t] = reason]
  /\ interrupted_at_poll' = [interrupted_at_poll EXCEPT
       ![t] = reason = "kSafepoint" /\ Interrupt \in poll_word[t]]
  /\ valid_at_return' = [valid_at_return EXCEPT
       ![t] = \A i \in DOMAIN Deps(t) : valid[Deps(t)[i]]]
  /\ IF Deps(t) = <<>>
     THEN /\ pc' = [pc EXCEPT ![t] = "idle"]
          /\ outcome' = [outcome EXCEPT ![t] = Finish(reason)]
     ELSE /\ pc' = [pc EXCEPT ![t] = "recheck"]
          /\ UNCHANGED outcome
  /\ UNCHANGED <<tokenVars, poll_word, code, count, checked, invalidatorVars>>

\* A generated safepoint finds a nonzero poll word.
NativePoll(t) ==
  /\ pc[t] = "native"
  /\ ExitPollRequested(t)
  /\ LeaveNative(t, "kSafepoint")

\* Native code returns, or one of its guards fails.
NativeReturn(t) ==
  /\ pc[t] = "native"
  /\ \E reason \in {"kNone", "kRuntime"} : LeaveNative(t, reason)

\* Mutant: the re-check stops at the first dependency.
RecheckFirstOnly(t) ==
  /\ pc[t] = "recheck"
  /\ pc' = [pc EXCEPT ![t] = "release"]
  /\ IF valid[Deps(t)[1]]
     THEN /\ outcome' = [outcome EXCEPT ![t] = Finish(exit_reason[t])]
          /\ UNCHANGED <<poll_word, exit_reason>>
     ELSE /\ poll_word' = [poll_word EXCEPT ![t] = ClearWakeup(@)]
          /\ exit_reason' = [exit_reason EXCEPT ![t] = "kRuntime"]
          /\ outcome' = [outcome EXCEPT ![t] = "runtime_exit"]
  /\ UNCHANGED <<tokenVars, code, count, checked, interrupted_at_poll, valid_at_return,
                 invalidatorVars>>

\* first_invalid() reads one more token; the invocation finishes with the
\* first invalid one as its exit, or with what native code reported.
Recheck(t) ==
  /\ pc[t] = "recheck"
  /\ LET a == Deps(t)[checked[t] + 1]
     IN  \/ /\ ~valid[a]
            /\ poll_word' = [poll_word EXCEPT ![t] = ClearWakeup(@)]
            /\ exit_reason' = [exit_reason EXCEPT ![t] = "kRuntime"]
            /\ outcome' = [outcome EXCEPT ![t] = "runtime_exit"]
            /\ pc' = [pc EXCEPT ![t] = "release"]
            /\ checked' = [checked EXCEPT ![t] = 0]
         \/ /\ valid[a]
            /\ checked[t] + 1 < Len(Deps(t))
            /\ checked' = [checked EXCEPT ![t] = @ + 1]
            /\ UNCHANGED <<poll_word, exit_reason, outcome, pc>>
         \/ /\ valid[a]
            /\ checked[t] + 1 = Len(Deps(t))
            /\ outcome' = [outcome EXCEPT ![t] = Finish(exit_reason[t])]
            /\ pc' = [pc EXCEPT ![t] = "release"]
            /\ checked' = [checked EXCEPT ![t] = 0]
            /\ UNCHANGED <<poll_word, exit_reason>>
  /\ UNCHANGED <<tokenVars, code, count, interrupted_at_poll, valid_at_return,
                 invalidatorVars>>

\* Mutant: unsubscribe forgets quiesced_.notify_all().
UnsubscribeSilently(t) ==
  /\ pc[t] = "release"
  /\ count[t] > 0
  /\ LET a == Deps(t)[count[t]]
     IN  /\ mutex[a] = None
         /\ active_contexts' = [active_contexts EXCEPT ![a] = @ \ {t}]
  /\ count' = [count EXCEPT ![t] = @ - 1]
  /\ UNCHANGED <<valid, mutex, contextVars, pc, code, checked, outcome,
                 interrupted_at_poll, valid_at_return, invalidatorVars>>

\* One round of ~AssumptionActivation: Assumption::unsubscribe, last
\* subscription first; the last context to leave notifies quiesced_.
Unsubscribe(t) ==
  /\ pc[t] = "release"
  /\ count[t] > 0
  /\ LET a == Deps(t)[count[t]]
     IN  /\ mutex[a] = None
         /\ active_contexts' = [active_contexts EXCEPT ![a] = @ \ {t}]
         /\ ipc' = [i \in Invalidator |->
              IF ipc[i] = "waiting" /\ target[i] = a /\ active_contexts[a] \subseteq {t}
              THEN "notified" ELSE ipc[i]]
  /\ count' = [count EXCEPT ![t] = @ - 1]
  /\ UNCHANGED <<valid, mutex, contextVars, pc, code, checked, outcome,
                 interrupted_at_poll, valid_at_return, target, to_wake>>

\* invoke returns.
InvokeReturn(t) ==
  /\ pc[t] = "release"
  /\ count[t] = 0
  /\ pc' = [pc EXCEPT ![t] = "idle"]
  /\ UNCHANGED <<tokenVars, contextVars, code, count, checked, outcome,
                 interrupted_at_poll, valid_at_return, invalidatorVars>>

-----------------------------------------------------------------------------
(* Interpretation with a context: only the exit diagnostics are cleared.    *)

Interpret(t) ==
  /\ pc[t] = "idle"
  /\ pc' = [pc EXCEPT ![t] = "interpret"]
  /\ exit_reason' = [exit_reason EXCEPT ![t] = "kNone"]
  /\ outcome' = [outcome EXCEPT ![t] = "none"]
  /\ interrupted_at_poll' = [interrupted_at_poll EXCEPT ![t] = FALSE]
  /\ UNCHANGED <<tokenVars, poll_word, code, count, checked, valid_at_return,
                 invalidatorVars>>

\* The interpreter reaches a safepoint and finds a nonzero poll word.
InterpreterPoll(t) ==
  /\ pc[t] = "interpret"
  /\ ExitPollRequested(t)
  /\ exit_reason' = [exit_reason EXCEPT ![t] = "kSafepoint"]
  /\ outcome' = [outcome EXCEPT ![t] = "interrupted"]
  /\ interrupted_at_poll' = [interrupted_at_poll EXCEPT ![t] = Interrupt \in poll_word[t]]
  /\ pc' = [pc EXCEPT ![t] = "idle"]
  /\ UNCHANGED <<tokenVars, poll_word, code, count, checked, valid_at_return,
                 invalidatorVars>>

InterpreterReturn(t) ==
  /\ pc[t] = "interpret"
  /\ outcome' = [outcome EXCEPT ![t] = "ok"]
  /\ pc' = [pc EXCEPT ![t] = "idle"]
  /\ UNCHANGED <<tokenVars, contextVars, code, count, checked, interrupted_at_poll,
                 valid_at_return, invalidatorVars>>

-----------------------------------------------------------------------------
(* Assumption::invalidate.                                                  *)

\* Lock and exchange: from here valid() is false for every reader.
Invalidate(i, a) ==
  /\ ipc[i] = "idle"
  /\ mutex[a] = None
  /\ mutex' = [mutex EXCEPT ![a] = i]
  /\ valid' = [valid EXCEPT ![a] = FALSE]
  /\ target' = [target EXCEPT ![i] = a]
  /\ to_wake' = [to_wake EXCEPT ![i] = active_contexts[a]]
  /\ ipc' = [ipc EXCEPT ![i] = "waking"]
  /\ UNCHANGED <<active_contexts, contextVars, threadVars>>

\* Mutant: the contexts are not woken.
WakeContextNot(i, t) ==
  /\ ipc[i] = "waking"
  /\ t \in to_wake[i]
  /\ to_wake' = [to_wake EXCEPT ![i] = @ \ {t}]
  /\ UNCHANGED <<tokenVars, contextVars, threadVars, ipc, target>>

\* The loop: request_deoptimization_wakeup on one context, mutex held.
WakeContext(i, t) ==
  /\ ipc[i] = "waking"
  /\ t \in to_wake[i]
  /\ poll_word' = [poll_word EXCEPT ![t] = @ \cup {Wakeup}]
  /\ to_wake' = [to_wake EXCEPT ![i] = @ \ {t}]
  /\ UNCHANGED <<tokenVars, exit_reason, threadVars, ipc, target>>

\* Mutant: invalidate does not wait for active invocations.
InvalidateNoWait(i) ==
  /\ ipc[i] = "waking"
  /\ to_wake[i] = {}
  /\ ipc' = [ipc EXCEPT ![i] = "done"]
  /\ mutex' = [mutex EXCEPT ![target[i]] = None]
  /\ UNCHANGED <<valid, active_contexts, contextVars, threadVars, target, to_wake>>

\* quiesced_.wait: return if nothing is active, else sleep; either way the
\* mutex is released.
InvalidateWait(i) ==
  /\ ipc[i] = "waking"
  /\ to_wake[i] = {}
  /\ ipc' = [ipc EXCEPT ![i] = IF active_contexts[target[i]] = {} THEN "done" ELSE "waiting"]
  /\ mutex' = [mutex EXCEPT ![target[i]] = None]
  /\ UNCHANGED <<valid, active_contexts, contextVars, threadVars, target, to_wake>>

\* Woken by a notification or spuriously: test the predicate again.
InvalidateResume(i) ==
  /\ ipc[i] = "notified"
  /\ mutex[target[i]] = None
  /\ ipc' = [ipc EXCEPT ![i] = IF active_contexts[target[i]] = {} THEN "done" ELSE "waiting"]
  /\ UNCHANGED <<tokenVars, contextVars, threadVars, target, to_wake>>

SpuriousWakeup(i) ==
  /\ ipc[i] = "waiting"
  /\ ipc' = [ipc EXCEPT ![i] = "notified"]
  /\ UNCHANGED <<tokenVars, contextVars, threadVars, target, to_wake>>

-----------------------------------------------------------------------------
ManagedStep(t) ==
  Subscribe(t) \/ NativePoll(t) \/ Recheck(t) \/ Unsubscribe(t) \/ InvokeReturn(t)

ThreadStep(t) ==
  \/ \E c \in Code : Invoke(t, c)
  \/ ManagedStep(t)
  \/ NativeReturn(t)
  \/ Interpret(t) \/ InterpreterPoll(t) \/ InterpreterReturn(t)

InvalidatorStep(i) ==
  \/ \E t \in Thread : WakeContext(i, t)
  \/ InvalidateWait(i) \/ InvalidateResume(i)

Next ==
  \/ \E t \in Thread : ThreadStep(t) \/ RequestInterrupt(t) \/ ClearInterrupt(t)
  \/ \E i \in Invalidator :
       \/ \E a \in Token : Invalidate(i, a)
       \/ InvalidatorStep(i) \/ SpuriousWakeup(i)

Spec == Init /\ [][Next]_vars

\* Threads run, and native code that loops reaches its safepoints; it is not
\* assumed to return.
Fairness ==
  /\ \A t \in Thread : WF_vars(ManagedStep(t))
  /\ \A i \in Invalidator : WF_vars(InvalidatorStep(i))

FairSpec == Spec /\ Fairness

-----------------------------------------------------------------------------
(* Properties.                                                              *)

\* "After invalidate() returns, no managed invocation using that token remains
\* in native code": the embedder may now mutate what the token protected.
Quiescence ==
  \A i \in Invalidator, t \in Thread :
    ipc[i] = "done" /\ pc[t] = "native" => \A j \in DOMAIN Deps(t) : Deps(t)[j] # target[i]

\* A successful result was computed while every assumption held up to the
\* native return: the re-check after entry() catches any earlier invalidation
\* (CompiledFunction::invoke, first_invalid).
OkResultWasValid ==
  \A t \in Thread : outcome[t] = "ok" /\ pc[t] = "release" => valid_at_return[t]

\* A managed invocation reports kExecutionInterrupted only when its poll saw
\* the public interrupt bit: a wake-up always ends as an assumption exit.
ManagedInterruptWasRequested ==
  \A t \in Thread : outcome[t] = "interrupted" /\ pc[t] = "release" => interrupted_at_poll[t]

\* No invalidate() sleeps without an active invocation that it has woken: each
\* of them has the wake bit set, or is past its last poll.
SleepingInvalidatorIsOwed ==
  \A i \in Invalidator : ipc[i] = "waiting" =>
    /\ active_contexts[target[i]] # {}
    /\ \A t \in active_contexts[target[i]] : pc[t] = "native" => Wakeup \in poll_word[t]

\* "It does not consume or clear a concurrent user interruption": only
\* clear_interrupt() removes the public bit from a poll word.
InterruptIsSticky ==
  [][\A t \in Thread : Interrupt \in poll_word[t] \ poll_word'[t] => ClearInterrupt(t)]_vars

\* invalidate() returns even if native code loops for ever between safepoints.
InvalidateReturns == \A i \in Invalidator : ipc[i] = "waking" ~> ipc[i] = "done"
=============================================================================
