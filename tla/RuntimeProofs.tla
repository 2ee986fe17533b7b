---------------------------- MODULE RuntimeProofs ----------------------------
(***************************************************************************)
(* The runtime (src/runtime).                                              *)
(*                                                                         *)
(* AssumptionRuntime for any threads, tokens, functions and invalidations: *)
(* quiescence after invalidate(), results computed under valid             *)
(* assumptions, wake-ups that are delivered and never taken for an         *)
(* interrupt.                                                              *)
(*                                                                         *)
(* Materialization for frames and plans of any size and shape: all or      *)
(* nothing, whichever callback fails.  Its invariant says for every place  *)
(* in the loops of materialize_frame exactly what the host has by then:    *)
(* which objects have their handles, which fields are staged and which     *)
(* slots of the frame.                                                     *)
(***************************************************************************)
EXTENDS AssumptionRuntime, Materialization, WellFoundedInduction, TLAPS

\* A context is active in a token exactly when its invocation subscribed.
SubscriptionsAreCounted ==
  \A t \in Thread, a \in Token :
    t \in active_contexts[a] <=> \E k \in 1..count[t] : Deps(t)[k] = a

\* Native code runs with every subscription, and leaves with none.
StagesAreCounted ==
  \A t \in Thread :
    /\ pc[t] \in {"idle", "interpret"} => count[t] = 0
    /\ pc[t] = "activate" => count[t] < Len(Deps(t))
    /\ pc[t] \in {"native", "recheck"} => count[t] = Len(Deps(t))
    /\ pc[t] = "recheck" => checked[t] < Len(Deps(t))
    /\ pc[t] # "recheck" => checked[t] = 0

\* The token of a started invalidate() is invalid for good.
TargetIsInvalid ==
  \A i \in Invalidator : ipc[i] # "idle" => target[i] \in Token /\ ~valid[target[i]]

\* The loop of invalidate() runs under the mutex, over contexts that cannot
\* leave before it ends.
WakerHoldsMutex ==
  \A i \in Invalidator :
    /\ ipc[i] = "waking" => /\ mutex[target[i]] = i
                            /\ to_wake[i] \subseteq active_contexts[target[i]]
    /\ ipc[i] # "waking" => to_wake[i] = {}

\* A finished invalidate() left no active context behind.
DoneIsQuiet ==
  \A i \in Invalidator : ipc[i] = "done" => active_contexts[target[i]] = {}

\* A wake bit stays set until the woken invocation has left native code.
WakeIsDelivered ==
  \A i \in Invalidator, t \in Thread :
    /\ ipc[i] # "idle"
    /\ t \in active_contexts[target[i]] \ to_wake[i]
    /\ pc[t] \in {"activate", "native"}
    => Wakeup \in poll_word[t]

\* A wake bit that native code can see comes from one of its own tokens.
WakeHasCause ==
  \A t \in Thread :
    pc[t] \in {"activate", "native"} /\ Wakeup \in poll_word[t]
      => \E k \in 1..count[t] : ~valid[Deps(t)[k]]

\* first_invalid() has yet to reach an invalid token whenever native code ran
\* past an invalidation or was stopped by a wake-up alone.
RecheckWillFind ==
  \A t \in Thread :
    /\ pc[t] = "recheck"
    /\ ~valid_at_return[t] \/ (exit_reason[t] = "kSafepoint" /\ ~interrupted_at_poll[t])
    => \E k \in checked[t]+1..Len(Deps(t)) : ~valid[Deps(t)[k]]

IInv ==
  /\ TypeOK /\ SubscriptionsAreCounted /\ StagesAreCounted /\ TargetIsInvalid
  /\ WakerHoldsMutex /\ DoneIsQuiet /\ WakeIsDelivered /\ WakeHasCause /\ RecheckWillFind
  /\ OkResultWasValid /\ ManagedInterruptWasRequested /\ SleepingInvalidatorIsOwed

\* Dependency lists are sequences of tokens.
LEMMA DepsType ==
  TypeOK => \A t \in Thread : /\ Deps(t) \in Seq(Token)
                              /\ Len(Deps(t)) \in Nat
                              /\ \A k \in 1..Len(Deps(t)) : Deps(t)[k] \in Token
BY DependenciesAssumption DEF TypeOK, Deps

\* The invariant holds while nothing is subscribed.
LEMMA IInvInit == Init => IInv
<1> SUFFICES ASSUME Init PROVE IInv
  OBVIOUS
<1>1. TypeOK
  BY DependenciesAssumption DEF Init, TypeOK, Outcome
<1>2. SubscriptionsAreCounted /\ StagesAreCounted
  BY DEF Init, SubscriptionsAreCounted, StagesAreCounted
<1>3. TargetIsInvalid /\ WakerHoldsMutex /\ DoneIsQuiet
  BY DEF Init, TargetIsInvalid, WakerHoldsMutex, DoneIsQuiet
<1>4. WakeIsDelivered /\ WakeHasCause /\ RecheckWillFind
  BY DEF Init, WakeIsDelivered, WakeHasCause, RecheckWillFind
<1>5. OkResultWasValid /\ ManagedInterruptWasRequested /\ SleepingInvalidatorIsOwed
  BY DEF Init, OkResultWasValid, ManagedInterruptWasRequested, SleepingInvalidatorIsOwed
<1>. QED  BY <1>1, <1>2, <1>3, <1>4, <1>5 DEF IInv

\* Every step of every thread and every invalidate() preserves the invariant.
LEMMA IInvStep == IInv /\ [Next]_vars => IInv'
<1> SUFFICES ASSUME IInv, [Next]_vars PROVE IInv'
  OBVIOUS
<1> USE DependenciesAssumption, NoneAssumption
        DEF tokenVars, contextVars, threadVars, invalidatorVars
<1>t. \A t \in Thread : /\ Deps(t) \in Seq(Token)
                        /\ Len(Deps(t)) \in Nat
                        /\ \A k \in 1..Len(Deps(t)) : Deps(t)[k] \in Token
  BY DepsType DEF IInv
<1>1. ASSUME NEW t \in Thread, RequestInterrupt(t) PROVE IInv'
  BY <1>t, <1>1 DEF IInv, TypeOK, RequestInterrupt, Interrupt, Wakeup, SubscriptionsAreCounted,
     StagesAreCounted, TargetIsInvalid, WakerHoldsMutex, DoneIsQuiet, WakeIsDelivered,
     WakeHasCause, RecheckWillFind, OkResultWasValid, ManagedInterruptWasRequested,
     SleepingInvalidatorIsOwed, Outcome, Deps
<1>2. ASSUME NEW t \in Thread, ClearInterrupt(t) PROVE IInv'
  BY <1>t, <1>2 DEF IInv, TypeOK, ClearInterrupt, Interrupt, Wakeup, SubscriptionsAreCounted,
     StagesAreCounted, TargetIsInvalid, WakerHoldsMutex, DoneIsQuiet, WakeIsDelivered,
     WakeHasCause, RecheckWillFind, OkResultWasValid, ManagedInterruptWasRequested,
     SleepingInvalidatorIsOwed, Outcome, Deps
<1>3. ASSUME NEW t \in Thread, NEW c \in Code, Invoke(t, c) PROVE IInv'
  <2>1. (/\ TypeOK /\ SubscriptionsAreCounted /\ StagesAreCounted /\ TargetIsInvalid
         /\ WakerHoldsMutex /\ DoneIsQuiet /\ WakeIsDelivered /\ WakeHasCause
         /\ RecheckWillFind /\ OkResultWasValid /\ ManagedInterruptWasRequested)'
    BY <1>t, <1>3 DEF IInv, TypeOK, Invoke, ClearWakeup, Wakeup, SubscriptionsAreCounted,
       StagesAreCounted, TargetIsInvalid, WakerHoldsMutex, DoneIsQuiet, WakeIsDelivered,
       WakeHasCause, RecheckWillFind, OkResultWasValid, ManagedInterruptWasRequested, Outcome,
       Deps
  <2>2. SleepingInvalidatorIsOwed'
    BY <1>t, <1>3 DEF IInv, TypeOK, Invoke, SleepingInvalidatorIsOwed, SubscriptionsAreCounted,
       StagesAreCounted, TargetIsInvalid, ClearWakeup, Wakeup, Deps
  <2>. QED  BY <2>1, <2>2 DEF IInv
<1>4. ASSUME NEW t \in Thread, Subscribe(t) PROVE IInv'
  <2> DEFINE a == Deps(t)[count[t] + 1]
  <2>1. /\ pc[t] = "activate" /\ count[t] \in Nat /\ count[t] < Len(Deps(t)) /\ checked[t] = 0
        /\ a \in Token /\ mutex[a] = None
        /\ UNCHANGED <<valid, mutex, poll_word, code, checked, interrupted_at_poll,
                       valid_at_return, ipc, target, to_wake>>
    BY <1>t, <1>4 DEF IInv, TypeOK, StagesAreCounted, Subscribe
  <2>2. CASE /\ valid[a]
             /\ active_contexts' = [active_contexts EXCEPT ![a] = @ \cup {t}]
             /\ count' = [count EXCEPT ![t] = @ + 1]
             /\ pc' = [pc EXCEPT ![t] = IF count[t] + 1 = Len(Deps(t)) THEN "native" ELSE @]
             /\ UNCHANGED <<outcome, exit_reason>>
    <3>1. TypeOK'
      BY <1>t, <2>1, <2>2 DEF IInv, TypeOK, Outcome, StagesAreCounted, Deps
    <3>2. SubscriptionsAreCounted'
      <4> SUFFICES ASSUME NEW u \in Thread, NEW b \in Token
                   PROVE  u \in active_contexts'[b] <=> \E k \in 1..count'[u] : Deps(u)[k] = b
        BY <2>1 DEF SubscriptionsAreCounted, Deps
      <4>1. u \in active_contexts[b] <=> \E k \in 1..count[u] : Deps(u)[k] = b
        BY DEF IInv, SubscriptionsAreCounted
      <4>2. CASE u # t
        BY <2>1, <2>2, <4>1, <4>2 DEF IInv, TypeOK
      <4>3. CASE u = t
        <5>1. u \in active_contexts'[b] <=> u \in active_contexts[b] \/ b = a
          BY <2>1, <2>2, <4>3 DEF IInv, TypeOK
        <5>2. 1..count'[u] = (1..count[u]) \cup {count[t] + 1}
          BY <2>1, <2>2, <4>3 DEF IInv, TypeOK
        <5>. QED  BY <4>1, <4>3, <5>1, <5>2
      <4>. QED  BY <4>2, <4>3
    <3>3. StagesAreCounted'
      BY <1>t, <2>1, <2>2 DEF IInv, TypeOK, StagesAreCounted, Deps
    <3>4. TargetIsInvalid'
      BY <1>t, <2>1, <2>2 DEF IInv, TypeOK, TargetIsInvalid, Deps
    <3>5. WakerHoldsMutex'
      BY <1>t, <2>1, <2>2 DEF IInv, TypeOK, WakerHoldsMutex, TargetIsInvalid, Deps
    <3>6. DoneIsQuiet'
      BY <1>t, <2>1, <2>2 DEF IInv, TypeOK, DoneIsQuiet, TargetIsInvalid, Deps
    <3>7. WakeIsDelivered'
      BY <1>t, <2>1, <2>2 DEF IInv, TypeOK, WakeIsDelivered, TargetIsInvalid, StagesAreCounted,
         Deps
    <3>8. WakeHasCause'
      BY <1>t, <2>1, <2>2 DEF IInv, TypeOK, WakeHasCause, StagesAreCounted, Deps
    <3>9. RecheckWillFind'
      BY <1>t, <2>1, <2>2 DEF IInv, TypeOK, RecheckWillFind, StagesAreCounted, Deps
    <3>10. OkResultWasValid'
      BY <1>t, <2>1, <2>2 DEF IInv, TypeOK, OkResultWasValid, StagesAreCounted, Deps
    <3>11. ManagedInterruptWasRequested'
      BY <1>t, <2>1, <2>2 DEF IInv, TypeOK, ManagedInterruptWasRequested, StagesAreCounted, Deps
    <3>12. SleepingInvalidatorIsOwed'
      <4> SUFFICES ASSUME NEW i \in Invalidator, ipc[i] = "waiting"
                   PROVE  /\ active_contexts'[target[i]] # {}
                          /\ \A u \in active_contexts'[target[i]] :
                               pc'[u] = "native" => Wakeup \in poll_word[u]
        BY <2>1 DEF SleepingInvalidatorIsOwed
      <4>1. target[i] \in Token /\ target[i] # a /\ to_wake[i] = {}
        BY <2>1, <2>2 DEF IInv, TargetIsInvalid, WakerHoldsMutex
      <4>2. active_contexts'[target[i]] = active_contexts[target[i]]
        BY <2>2, <4>1 DEF IInv, TypeOK
      <4>3. \A u \in Thread : pc'[u] = "native" => pc[u] \in {"activate", "native"}
        BY <2>1, <2>2 DEF IInv, TypeOK
      <4>. QED
        BY <4>1, <4>2, <4>3 DEF IInv, TypeOK, SleepingInvalidatorIsOwed, WakeIsDelivered
    <3>. QED  BY <3>1, <3>2, <3>3, <3>4, <3>5, <3>6, <3>7, <3>8, <3>9, <3>10, <3>11, <3>12 DEF IInv
  <2>3. CASE /\ outcome' \in {[outcome EXCEPT ![t] = "resource_exhausted"],
                              [outcome EXCEPT ![t] = "runtime_exit"]}
             /\ exit_reason' \in {exit_reason, [exit_reason EXCEPT ![t] = "kRuntime"]}
             /\ pc' = [pc EXCEPT ![t] = "release"]
             /\ UNCHANGED <<active_contexts, count>>
    <3>1. TypeOK'
      <4>1. outcome' \in [Thread -> Outcome]
        BY <2>3 DEF IInv, TypeOK, Outcome
      <4>2. exit_reason' \in [Thread -> {"kNone", "kSafepoint", "kRuntime"}]
        BY <2>3 DEF IInv, TypeOK
      <4>. QED  BY <2>1, <2>3, <4>1, <4>2 DEF IInv, TypeOK
    <3>2. (SubscriptionsAreCounted /\ StagesAreCounted)'
      BY <1>t, <2>1, <2>3 DEF IInv, TypeOK, SubscriptionsAreCounted, StagesAreCounted, Deps
    <3>3. (TargetIsInvalid /\ WakerHoldsMutex /\ DoneIsQuiet)'
      BY <1>t, <2>1, <2>3 DEF IInv, TypeOK, TargetIsInvalid, WakerHoldsMutex, DoneIsQuiet, Deps
    <3>4. (WakeIsDelivered /\ WakeHasCause /\ RecheckWillFind)'
      BY <1>t, <2>1, <2>3 DEF IInv, TypeOK, WakeIsDelivered, WakeHasCause, RecheckWillFind,
         TargetIsInvalid, WakerHoldsMutex, StagesAreCounted, SubscriptionsAreCounted, Deps
    <3>5. (OkResultWasValid /\ ManagedInterruptWasRequested /\ SleepingInvalidatorIsOwed)'
      BY <1>t, <2>1, <2>3 DEF IInv, TypeOK, OkResultWasValid, ManagedInterruptWasRequested,
         SleepingInvalidatorIsOwed, RecheckWillFind, StagesAreCounted, WakeIsDelivered,
         WakerHoldsMutex, TargetIsInvalid, Deps
    <3>. QED  BY <3>1, <3>2, <3>3, <3>4, <3>5 DEF IInv
  <2>. QED  BY <1>4, <2>2, <2>3 DEF Subscribe
<1>5. ASSUME NEW t \in Thread, NativePoll(t) PROVE IInv'
  <2>1. TypeOK'
    BY <1>t, <1>5 DEF IInv, TypeOK, NativePoll, LeaveNative, Finish, ExitPollRequested,
       Interrupt, Wakeup, Outcome, StagesAreCounted, Deps
  <2>2. (SubscriptionsAreCounted /\ StagesAreCounted)'
    BY <1>t, <1>5 DEF IInv, TypeOK, NativePoll, LeaveNative, Finish, ExitPollRequested,
       Interrupt, Wakeup, SubscriptionsAreCounted, StagesAreCounted, Deps
  <2>3. (TargetIsInvalid /\ WakerHoldsMutex /\ DoneIsQuiet)'
    BY <1>t, <1>5 DEF IInv, TypeOK, NativePoll, LeaveNative, Finish, ExitPollRequested,
       Interrupt, Wakeup, TargetIsInvalid, WakerHoldsMutex, DoneIsQuiet, Deps
  <2>4. WakeIsDelivered'
    BY <1>t, <1>5 DEF IInv, TypeOK, NativePoll, LeaveNative, Finish, ExitPollRequested,
       Interrupt, Wakeup, WakeIsDelivered, TargetIsInvalid, WakerHoldsMutex, StagesAreCounted,
       SubscriptionsAreCounted, Deps
  <2>5. WakeHasCause'
    <3>1. /\ UNCHANGED <<poll_word, count, valid, code>>
          /\ \A u \in Thread : pc'[u] \in {"activate", "native"} => pc[u] \in {"activate", "native"}
      BY <1>5 DEF IInv, TypeOK, NativePoll, LeaveNative, ExitPollRequested, Deps
    <3>. QED  BY <3>1 DEF IInv, WakeHasCause, Deps
  <2>6. RecheckWillFind'
    <3> SUFFICES ASSUME NEW u \in Thread, pc'[u] = "recheck",
                        \/ ~valid_at_return'[u]
                        \/ exit_reason'[u] = "kSafepoint" /\ ~interrupted_at_poll'[u]
                 PROVE  \E k \in checked[u]+1..Len(Deps(u)) : ~valid[Deps(u)[k]]
      BY <1>5 DEF NativePoll, LeaveNative, ExitPollRequested, RecheckWillFind, Deps
    <3>1. CASE u # t
      BY <1>5, <3>1 DEF IInv, TypeOK, NativePoll, LeaveNative, ExitPollRequested,
         RecheckWillFind, Deps
    <3>2. CASE u = t
      <4>1. checked[t] = 0 /\ count[t] = Len(Deps(t))
        BY <1>5 DEF NativePoll, IInv, StagesAreCounted
      <4>2. CASE ~valid_at_return'[u]
        BY <1>5, <1>t, <3>2, <4>1, <4>2 DEF IInv, TypeOK, NativePoll, LeaveNative,
           ExitPollRequested, Deps
      <4>3. CASE exit_reason'[u] = "kSafepoint" /\ ~interrupted_at_poll'[u]
        <5>1. poll_word[t] \subseteq {Interrupt, Wakeup} /\ poll_word[t] # {}
          BY <1>5 DEF IInv, TypeOK, NativePoll, ExitPollRequested
        <5>2. interrupted_at_poll'[t] = (Interrupt \in poll_word[t])
          BY <1>5 DEF IInv, TypeOK, NativePoll, LeaveNative
        <5>3. Wakeup \in poll_word[t]
          BY <3>2, <4>3, <5>1, <5>2
        <5>. QED  BY <1>5, <3>2, <4>1, <5>3 DEF IInv, WakeHasCause, NativePoll
      <4>. QED  BY <4>2, <4>3
    <3>. QED  BY <3>1, <3>2
  <2>7. (OkResultWasValid /\ ManagedInterruptWasRequested /\ SleepingInvalidatorIsOwed)'
    BY <1>t, <1>5 DEF IInv, TypeOK, NativePoll, LeaveNative, Finish, ExitPollRequested,
       Interrupt, Wakeup, OkResultWasValid, ManagedInterruptWasRequested,
       SleepingInvalidatorIsOwed, RecheckWillFind, StagesAreCounted, WakeIsDelivered,
       WakerHoldsMutex, TargetIsInvalid, Deps
  <2>. QED  BY <2>1, <2>2, <2>3, <2>4, <2>5, <2>6, <2>7 DEF IInv
<1>6. ASSUME NEW t \in Thread, NativeReturn(t) PROVE IInv'
  <2>1. (/\ SubscriptionsAreCounted /\ StagesAreCounted /\ TargetIsInvalid /\ WakerHoldsMutex
         /\ DoneIsQuiet /\ WakeIsDelivered /\ OkResultWasValid
         /\ ManagedInterruptWasRequested /\ SleepingInvalidatorIsOwed)'
    BY <1>t, <1>6 DEF IInv, TypeOK, NativeReturn, LeaveNative, Finish, SubscriptionsAreCounted,
       StagesAreCounted, TargetIsInvalid, WakerHoldsMutex, DoneIsQuiet, WakeIsDelivered,
       OkResultWasValid, ManagedInterruptWasRequested, SleepingInvalidatorIsOwed,
       RecheckWillFind, Deps
  <2>2. TypeOK'
    <3>1. PICK reason \in {"kNone", "kRuntime"} : LeaveNative(t, reason)
      BY <1>6 DEF NativeReturn
    <3>. QED  BY <3>1 DEF IInv, TypeOK, LeaveNative, Finish, Outcome, Deps
  <2>3. WakeHasCause'
    <3>1. /\ UNCHANGED <<poll_word, count, valid, code>>
          /\ \A u \in Thread : pc'[u] \in {"activate", "native"} => pc[u] \in {"activate", "native"}
      BY <1>6 DEF IInv, TypeOK, NativeReturn, LeaveNative, Deps
    <3>. QED  BY <3>1 DEF IInv, WakeHasCause, Deps
  <2>4. RecheckWillFind'
    <3> SUFFICES ASSUME NEW u \in Thread, pc'[u] = "recheck",
                        \/ ~valid_at_return'[u]
                        \/ exit_reason'[u] = "kSafepoint" /\ ~interrupted_at_poll'[u]
                 PROVE  \E k \in checked[u]+1..Len(Deps(u)) : ~valid[Deps(u)[k]]
      BY <1>6 DEF NativeReturn, LeaveNative, RecheckWillFind, Deps
    <3>1. CASE u # t
      BY <1>6, <3>1 DEF IInv, TypeOK, NativeReturn, LeaveNative, RecheckWillFind, Deps
    <3>2. CASE u = t
      <4>1. checked[t] = 0 /\ count[t] = Len(Deps(t))
        BY <1>6 DEF NativeReturn, IInv, StagesAreCounted
      <4>2. CASE ~valid_at_return'[u]
        BY <1>6, <1>t, <3>2, <4>1, <4>2 DEF IInv, TypeOK, NativeReturn, LeaveNative, Deps
      <4>3. exit_reason'[u] # "kSafepoint"
        BY <1>6, <3>2 DEF IInv, TypeOK, NativeReturn, LeaveNative
      <4>. QED  BY <4>2, <4>3
    <3>. QED  BY <3>1, <3>2
  <2>. QED  BY <2>1, <2>2, <2>3, <2>4 DEF IInv
<1>7. ASSUME NEW t \in Thread, Recheck(t) PROVE IInv'
  <2>1. TypeOK'
    <3>0. pc[t] = "recheck" /\ checked[t] \in Nat /\ checked[t] < Len(Deps(t))
      BY <1>7 DEF IInv, TypeOK, StagesAreCounted, Recheck
    <3>1. CASE /\ poll_word' = [poll_word EXCEPT ![t] = ClearWakeup(@)]
               /\ exit_reason' = [exit_reason EXCEPT ![t] = "kRuntime"]
               /\ outcome' = [outcome EXCEPT ![t] = "runtime_exit"]
               /\ pc' = [pc EXCEPT ![t] = "release"]
               /\ checked' = [checked EXCEPT ![t] = 0]
      BY <1>t, <1>7, <3>0, <3>1 DEF IInv, TypeOK, Outcome, Recheck, ClearWakeup, Deps
    <3>2. CASE /\ checked[t] + 1 < Len(Deps(t))
               /\ checked' = [checked EXCEPT ![t] = @ + 1]
               /\ UNCHANGED <<poll_word, exit_reason, outcome, pc>>
      BY <1>t, <1>7, <3>0, <3>2 DEF IInv, TypeOK, Recheck, Deps
    <3>3. CASE /\ outcome' = [outcome EXCEPT ![t] = Finish(exit_reason[t])]
               /\ pc' = [pc EXCEPT ![t] = "release"]
               /\ checked' = [checked EXCEPT ![t] = 0]
               /\ UNCHANGED <<poll_word, exit_reason>>
      <4>1. Finish(exit_reason[t]) \in Outcome
        BY DEF IInv, TypeOK, Finish, Outcome
      <4>. QED  BY <1>t, <1>7, <3>0, <3>3, <4>1 DEF IInv, TypeOK, Recheck, Deps
    <3>. QED  BY <1>7, <3>1, <3>2, <3>3 DEF Recheck
  <2>2. (SubscriptionsAreCounted /\ StagesAreCounted)'
    BY <1>t, <1>7 DEF IInv, TypeOK, Recheck, ClearWakeup, Finish, Wakeup,
       SubscriptionsAreCounted, StagesAreCounted, Deps
  <2>3. (TargetIsInvalid /\ WakerHoldsMutex /\ DoneIsQuiet)'
    BY <1>t, <1>7 DEF IInv, TypeOK, Recheck, ClearWakeup, Finish, Wakeup, TargetIsInvalid,
       WakerHoldsMutex, DoneIsQuiet, Deps
  <2>4. WakeIsDelivered'
    BY <1>t, <1>7 DEF IInv, TypeOK, Recheck, ClearWakeup, Finish, Wakeup, WakeIsDelivered,
       TargetIsInvalid, WakerHoldsMutex, StagesAreCounted, SubscriptionsAreCounted, Deps
  <2>5. WakeHasCause'
    BY <1>t, <1>7 DEF IInv, TypeOK, Recheck, ClearWakeup, Finish, Wakeup, WakeHasCause,
       TargetIsInvalid, WakerHoldsMutex, StagesAreCounted, SubscriptionsAreCounted, Deps
  <2>6. RecheckWillFind'
    BY <1>t, <1>7 DEF IInv, TypeOK, Recheck, ClearWakeup, Finish, Wakeup, RecheckWillFind,
       WakeHasCause, StagesAreCounted, Deps
  <2>7. OkResultWasValid'
    BY <1>t, <1>7 DEF IInv, TypeOK, Recheck, ClearWakeup, Finish, Wakeup, OkResultWasValid,
       RecheckWillFind, StagesAreCounted, Deps
  <2>8. ManagedInterruptWasRequested'
    BY <1>t, <1>7 DEF IInv, TypeOK, Recheck, ClearWakeup, Finish, Wakeup,
       ManagedInterruptWasRequested, RecheckWillFind, StagesAreCounted, Deps
  <2>9. SleepingInvalidatorIsOwed'
    BY <1>t, <1>7 DEF IInv, TypeOK, Recheck, ClearWakeup, Finish, Wakeup,
       SleepingInvalidatorIsOwed, WakeIsDelivered, WakerHoldsMutex, TargetIsInvalid, Deps
  <2>. QED  BY <2>1, <2>2, <2>3, <2>4, <2>5, <2>6, <2>7, <2>8, <2>9 DEF IInv
<1>8. ASSUME NEW t \in Thread, Unsubscribe(t) PROVE IInv'
  BY <1>t, <1>8 DEF IInv, TypeOK, Unsubscribe, SubscriptionsAreCounted, StagesAreCounted,
     TargetIsInvalid, WakerHoldsMutex, DoneIsQuiet, WakeIsDelivered, WakeHasCause,
     RecheckWillFind, OkResultWasValid, ManagedInterruptWasRequested, SleepingInvalidatorIsOwed,
     Outcome, Deps
<1>9. ASSUME NEW t \in Thread, InvokeReturn(t) PROVE IInv'
  BY <1>t, <1>9 DEF IInv, TypeOK, InvokeReturn, SubscriptionsAreCounted, StagesAreCounted,
     TargetIsInvalid, WakerHoldsMutex, DoneIsQuiet, WakeIsDelivered, WakeHasCause,
     RecheckWillFind, OkResultWasValid, ManagedInterruptWasRequested, SleepingInvalidatorIsOwed,
     Outcome, Deps
<1>10. ASSUME NEW t \in Thread, Interpret(t) PROVE IInv'
  BY <1>t, <1>10 DEF IInv, TypeOK, Interpret, SubscriptionsAreCounted, StagesAreCounted,
     TargetIsInvalid, WakerHoldsMutex, DoneIsQuiet, WakeIsDelivered, WakeHasCause,
     RecheckWillFind, OkResultWasValid, ManagedInterruptWasRequested, SleepingInvalidatorIsOwed,
     Outcome, Deps
<1>11. ASSUME NEW t \in Thread, InterpreterPoll(t) PROVE IInv'
  BY <1>t, <1>11 DEF IInv, TypeOK, InterpreterPoll, SubscriptionsAreCounted, StagesAreCounted,
     TargetIsInvalid, WakerHoldsMutex, DoneIsQuiet, WakeIsDelivered, WakeHasCause,
     RecheckWillFind, OkResultWasValid, ManagedInterruptWasRequested, SleepingInvalidatorIsOwed,
     Outcome, Deps
<1>12. ASSUME NEW t \in Thread, InterpreterReturn(t) PROVE IInv'
  BY <1>t, <1>12 DEF IInv, TypeOK, InterpreterReturn, SubscriptionsAreCounted, StagesAreCounted,
     TargetIsInvalid, WakerHoldsMutex, DoneIsQuiet, WakeIsDelivered, WakeHasCause,
     RecheckWillFind, OkResultWasValid, ManagedInterruptWasRequested, SleepingInvalidatorIsOwed,
     Outcome, Deps
<1>13. ASSUME NEW i \in Invalidator, NEW a \in Token, Invalidate(i, a) PROVE IInv'
  <2>1. (/\ TypeOK /\ SubscriptionsAreCounted /\ StagesAreCounted /\ TargetIsInvalid
         /\ WakerHoldsMutex /\ DoneIsQuiet /\ WakeIsDelivered /\ OkResultWasValid
         /\ ManagedInterruptWasRequested /\ SleepingInvalidatorIsOwed)'
    BY <1>t, <1>13 DEF IInv, TypeOK, Invalidate, SubscriptionsAreCounted, StagesAreCounted,
       TargetIsInvalid, WakerHoldsMutex, DoneIsQuiet, WakeIsDelivered, OkResultWasValid,
       ManagedInterruptWasRequested, SleepingInvalidatorIsOwed, Outcome, RecheckWillFind, Deps
  <2>2. WakeHasCause'
    <3>1. /\ UNCHANGED <<poll_word, count, pc, code>>
          /\ \A b \in Token : ~valid[b] => ~valid'[b]
          /\ \A u \in Thread : count[u] \in 0..Len(Deps(u))
      BY <1>13 DEF IInv, TypeOK, Invalidate, Deps
    <3>. QED  BY <1>t, <3>1 DEF IInv, WakeHasCause, Deps
  <2>3. RecheckWillFind'
    <3>1. /\ UNCHANGED <<exit_reason, interrupted_at_poll, valid_at_return, checked, pc, code>>
          /\ \A b \in Token : ~valid[b] => ~valid'[b]
          /\ \A u \in Thread : checked[u] \in Nat
      BY <1>13 DEF IInv, TypeOK, Invalidate, Deps
    <3>. QED  BY <1>t, <3>1 DEF IInv, RecheckWillFind, Deps
  <2>. QED  BY <2>1, <2>2, <2>3 DEF IInv
<1>14. ASSUME NEW i \in Invalidator, NEW t \in Thread, WakeContext(i, t) PROVE IInv'
  <2>1. TypeOK'
    BY <1>t, <1>14 DEF IInv, TypeOK, WakeContext, Interrupt, Wakeup, Outcome, StagesAreCounted,
       Deps
  <2>2. SubscriptionsAreCounted'
    BY <1>t, <1>14 DEF IInv, TypeOK, WakeContext, Interrupt, Wakeup, SubscriptionsAreCounted,
       StagesAreCounted, Deps
  <2>3. StagesAreCounted'
    BY <1>t, <1>14 DEF IInv, TypeOK, WakeContext, Interrupt, Wakeup, StagesAreCounted, Deps
  <2>4. (TargetIsInvalid /\ WakerHoldsMutex /\ DoneIsQuiet)'
    BY <1>t, <1>14 DEF IInv, TypeOK, WakeContext, Interrupt, Wakeup, TargetIsInvalid,
       WakerHoldsMutex, DoneIsQuiet, Deps
  <2>5. (WakeIsDelivered /\ RecheckWillFind)'
    BY <1>t, <1>14 DEF IInv, TypeOK, WakeContext, Interrupt, Wakeup, WakeIsDelivered,
       RecheckWillFind, TargetIsInvalid, WakerHoldsMutex, StagesAreCounted,
       SubscriptionsAreCounted, WakeHasCause, Deps
  <2>6. WakeHasCause'
    <3>1. t \in active_contexts[target[i]] /\ target[i] \in Token /\ ~valid[target[i]]
      BY <1>14 DEF IInv, TypeOK, WakeContext, WakerHoldsMutex, TargetIsInvalid
    <3>2. PICK k \in 1..count[t] : Deps(t)[k] = target[i]
      BY <3>1 DEF IInv, SubscriptionsAreCounted
    <3>3. \A u \in Thread \ {t} : poll_word'[u] = poll_word[u]
      BY <1>14 DEF IInv, TypeOK, WakeContext
    <3>. QED  BY <1>14, <3>1, <3>2, <3>3 DEF IInv, WakeContext, WakeHasCause, Deps
  <2>7. (OkResultWasValid /\ ManagedInterruptWasRequested /\ SleepingInvalidatorIsOwed)'
    BY <1>t, <1>14 DEF IInv, TypeOK, WakeContext, Interrupt, Wakeup, OkResultWasValid,
       ManagedInterruptWasRequested, SleepingInvalidatorIsOwed, RecheckWillFind,
       StagesAreCounted, WakeIsDelivered, WakerHoldsMutex, TargetIsInvalid, Deps
  <2>. QED  BY <2>1, <2>2, <2>3, <2>4, <2>5, <2>6, <2>7 DEF IInv
<1>15. ASSUME NEW i \in Invalidator, InvalidateWait(i) PROVE IInv'
  <2>1. (/\ TypeOK /\ SubscriptionsAreCounted /\ StagesAreCounted /\ TargetIsInvalid
         /\ WakerHoldsMutex /\ DoneIsQuiet /\ WakeIsDelivered /\ WakeHasCause
         /\ RecheckWillFind /\ OkResultWasValid /\ ManagedInterruptWasRequested)'
    BY <1>t, <1>15 DEF IInv, TypeOK, InvalidateWait, SubscriptionsAreCounted, StagesAreCounted,
       TargetIsInvalid, WakerHoldsMutex, DoneIsQuiet, WakeIsDelivered, WakeHasCause,
       RecheckWillFind, OkResultWasValid, ManagedInterruptWasRequested, Outcome, Deps
  <2>2. SleepingInvalidatorIsOwed'
    <3> SUFFICES ASSUME NEW j \in Invalidator, ipc'[j] = "waiting"
                 PROVE  /\ active_contexts[target[j]] # {}
                        /\ \A u \in active_contexts[target[j]] :
                             pc[u] = "native" => Wakeup \in poll_word[u]
      BY <1>15 DEF InvalidateWait, SleepingInvalidatorIsOwed, Deps
    <3>1. CASE j # i
      BY <1>15, <3>1 DEF IInv, TypeOK, InvalidateWait, SleepingInvalidatorIsOwed
    <3>2. CASE j = i
      <4>1. active_contexts[target[i]] # {} /\ to_wake[i] = {} /\ ipc[i] # "idle"
        BY <1>15, <3>2 DEF IInv, TypeOK, InvalidateWait, WakerHoldsMutex
      <4>2. active_contexts[target[i]] \subseteq Thread
        BY <4>1 DEF IInv, TypeOK, TargetIsInvalid
      <4>. QED  BY <3>2, <4>1, <4>2 DEF IInv, WakeIsDelivered
    <3>. QED  BY <3>1, <3>2
  <2>. QED  BY <2>1, <2>2 DEF IInv
<1>16. ASSUME NEW i \in Invalidator, InvalidateResume(i) PROVE IInv'
  <2>1. (/\ TypeOK /\ SubscriptionsAreCounted /\ StagesAreCounted /\ TargetIsInvalid
         /\ WakerHoldsMutex /\ DoneIsQuiet /\ WakeIsDelivered /\ WakeHasCause
         /\ RecheckWillFind /\ OkResultWasValid /\ ManagedInterruptWasRequested)'
    BY <1>t, <1>16 DEF IInv, TypeOK, InvalidateResume, SubscriptionsAreCounted,
       StagesAreCounted, TargetIsInvalid, WakerHoldsMutex, DoneIsQuiet, WakeIsDelivered,
       WakeHasCause, RecheckWillFind, OkResultWasValid, ManagedInterruptWasRequested, Outcome,
       Deps
  <2>2. SleepingInvalidatorIsOwed'
    <3> SUFFICES ASSUME NEW j \in Invalidator, ipc'[j] = "waiting"
                 PROVE  /\ active_contexts[target[j]] # {}
                        /\ \A u \in active_contexts[target[j]] :
                             pc[u] = "native" => Wakeup \in poll_word[u]
      BY <1>16 DEF InvalidateResume, SleepingInvalidatorIsOwed, Deps
    <3>1. CASE j # i
      BY <1>16, <3>1 DEF IInv, TypeOK, InvalidateResume, SleepingInvalidatorIsOwed
    <3>2. CASE j = i
      <4>1. active_contexts[target[i]] # {} /\ to_wake[i] = {} /\ ipc[i] # "idle"
        BY <1>16, <3>2 DEF IInv, TypeOK, InvalidateResume, WakerHoldsMutex
      <4>2. active_contexts[target[i]] \subseteq Thread
        BY <4>1 DEF IInv, TypeOK, TargetIsInvalid
      <4>. QED  BY <3>2, <4>1, <4>2 DEF IInv, WakeIsDelivered
    <3>. QED  BY <3>1, <3>2
  <2>. QED  BY <2>1, <2>2 DEF IInv
<1>17. ASSUME NEW i \in Invalidator, SpuriousWakeup(i) PROVE IInv'
  BY <1>t, <1>17 DEF IInv, TypeOK, SpuriousWakeup, SubscriptionsAreCounted, StagesAreCounted,
     TargetIsInvalid, WakerHoldsMutex, DoneIsQuiet, WakeIsDelivered, WakeHasCause,
     RecheckWillFind, OkResultWasValid, ManagedInterruptWasRequested, SleepingInvalidatorIsOwed,
     Outcome, Deps
<1>18. CASE UNCHANGED vars
  BY <1>18 DEF vars, IInv, TypeOK, SubscriptionsAreCounted, StagesAreCounted, TargetIsInvalid,
     WakerHoldsMutex, DoneIsQuiet, WakeIsDelivered, WakeHasCause, RecheckWillFind,
     OkResultWasValid, ManagedInterruptWasRequested, SleepingInvalidatorIsOwed, Deps
<1>. QED  BY <1>1, <1>2, <1>3, <1>4, <1>5, <1>6, <1>7, <1>8, <1>9, <1>10, <1>11, <1>12, <1>13,
            <1>14, <1>15, <1>16, <1>17, <1>18 DEF Next, ThreadStep, ManagedStep, InvalidatorStep

\* After invalidate() has returned no invocation that depends on the token is
\* in native code; successful results were computed under valid assumptions;
\* a wake-up never surfaces as an interrupt; and a sleeping invalidate() has
\* woken every invocation it waits for.
THEOREM InvalidationIsSafe ==
  Spec => [](/\ TypeOK /\ Quiescence /\ OkResultWasValid
             /\ ManagedInterruptWasRequested /\ SleepingInvalidatorIsOwed)
<1>1. IInv => Quiescence
  <2> SUFFICES ASSUME IInv, NEW i \in Invalidator, NEW t \in Thread,
                      ipc[i] = "done", pc[t] = "native",
                      NEW k \in DOMAIN Deps(t), Deps(t)[k] = target[i]
               PROVE  FALSE
    BY DEF Quiescence
  <2>1. k \in 1..count[t] /\ target[i] \in Token
    BY DepsType DEF IInv, StagesAreCounted, TargetIsInvalid
  <2>2. t \in active_contexts[target[i]]
    BY <2>1 DEF IInv, SubscriptionsAreCounted
  <2>. QED  BY <2>2 DEF IInv, DoneIsQuiet
<1>2. IInv => /\ TypeOK /\ OkResultWasValid
              /\ ManagedInterruptWasRequested /\ SleepingInvalidatorIsOwed
  BY DEF IInv
<1>. QED  BY IInvInit, IInvStep, <1>1, <1>2, PTL DEF Spec

\* invoke() returns ok only when every assumption of the function still held
\* as its native code returned.
THEOREM OkResultsWereValid == Spec => []OkResultWasValid
BY InvalidationIsSafe, PTL

\* A managed invocation reports an interrupt only if the host requested one:
\* the wake bit of an invalidation, which shares the poll word, never surfaces.
THEOREM ManagedInterruptsWereRequested == Spec => []ManagedInterruptWasRequested
BY InvalidationIsSafe, PTL

\* invalidate() sleeps only while a subscribed context is left, and every one
\* of them that runs native code has its wake bit set: no wake-up is lost
\* between the predicate of the condition variable and the subscriptions.
THEOREM SleepingInvalidatorsAreOwed == Spec => []SleepingInvalidatorIsOwed
BY InvalidationIsSafe, PTL

\* Only clear_interrupt() removes a user's interrupt request from a poll word.
THEOREM InterruptsAreKept == Spec => InterruptIsSticky
<1>1. TypeOK /\ [Next]_vars =>
        [\A t \in Thread : Interrupt \in poll_word[t] \ poll_word'[t] => ClearInterrupt(t)]_vars
  <2> SUFFICES ASSUME TypeOK, Next, NEW u \in Thread, Interrupt \in poll_word[u] \ poll_word'[u]
               PROVE  ClearInterrupt(u)
    BY DEF vars, contextVars
  <2>1. \A t \in Thread : ClearInterrupt(t) => t = u
    BY DEF TypeOK, ClearInterrupt
  <2>2. ASSUME NEW t \in Thread, ThreadStep(t) PROVE FALSE
    BY <2>2 DEF TypeOK, ThreadStep, ManagedStep, Invoke, Subscribe, NativePoll, NativeReturn,
       LeaveNative, Recheck, Unsubscribe, InvokeReturn, Interpret, InterpreterPoll,
       InterpreterReturn, ClearWakeup, Interrupt, Wakeup, contextVars
  <2>3. ASSUME NEW t \in Thread, RequestInterrupt(t) PROVE FALSE
    BY <2>3 DEF TypeOK, RequestInterrupt
  <2>4. ASSUME NEW i \in Invalidator, NEW a \in Token, Invalidate(i, a) PROVE FALSE
    BY <2>4 DEF Invalidate, contextVars
  <2>5. ASSUME NEW i \in Invalidator, InvalidatorStep(i) \/ SpuriousWakeup(i) PROVE FALSE
    BY <2>5 DEF TypeOK, InvalidatorStep, WakeContext, InvalidateWait, InvalidateResume,
       SpuriousWakeup, contextVars
  <2>. QED  BY <2>1, <2>2, <2>3, <2>4, <2>5 DEF Next
<1>2. IInv => TypeOK
  BY DEF IInv
<1>. QED  BY IInvInit, IInvStep, <1>1, <1>2, PTL DEF Spec, InterruptIsSticky

-----------------------------------------------------------------------------
(* Materialization.                                                         *)

CONSTANTS Site, Slot, Id, Word, Type, Source, Operand

RecoveredValue == [slot : Slot, type : Type, value : Word]
Frame == [site : Site, values : Seq(RecoveredValue)]
MaterializationInput == [source : Source, type : Type, of : Operand]
ObjectRecipe == [id : Id, destination_slot : Slot, fields : Seq(MaterializationInput)]
Plan == [site : Site, recipes : Seq(ObjectRecipe)]

\* One call of materialize_frame, with any frame and any plan.
MaterializationInit == transaction = NoTransaction /\ host = IdleHost
MaterializationNext == (\E frame \in Frame, plan \in Plan : Materialize(frame, plan)) \/ Callback
MaterializationSpec == MaterializationInit /\ [][MaterializationNext]_materializationVars

-----------------------------------------------------------------------------
(* How far a place in the loops is.                                         *)

\* A callback that the loops make.
Place(call) ==
  \/ call = At("begin", 0, 0)
  \/ \E i \in DOMAIN transaction.recipes : call = At("allocate", i, 0)
  \/ \E i \in DOMAIN transaction.recipes : \E k \in DOMAIN transaction.recipes[i].fields :
       call = At("store", i, k)
  \/ \E i \in 1..OutputSize : call = At("store_frame", i, 0)
  \/ call = At("commit", 0, 0)

\* Object i has its handle when the call is made.
HasHandle(call, i) == call.name # "begin" /\ (call.name = "allocate" => i < call.index)

\* Field k of object i has been stored.
IsStored(call, i, k) ==
  /\ call.name \notin {"begin", "allocate"}
  /\ call.name = "store" => i < call.index \/ (i = call.index /\ k < call.field)

\* Slot i of the output has been stored.
IsInFrame(call, i) ==
  call.name \in {"store_frame", "commit"} /\ (call.name = "store_frame" => i < call.index)

HandleCount(call) ==
  IF call.name = "begin" THEN 0
  ELSE IF call.name = "allocate" THEN call.index - 1 ELSE Len(transaction.recipes)

Fields ==
  {p \in Nat \X Nat : p[1] \in DOMAIN transaction.recipes /\ p[2] \in DOMAIN transaction.recipes[p[1]].fields}

-----------------------------------------------------------------------------
(* The invariant.                                                           *)

\* What the host has staged before the call.
Staged(call, handle) ==
  [objects |-> {StoredField(handle, p[1], p[2]) : p \in {q \in Fields : IsStored(call, q[1], q[2])}},
   frame |-> {Output(handle, i) : i \in {j \in 1..OutputSize : IsInFrame(call, j)}}]

\* Every field names something that exists.
FieldsResolve ==
  \A i \in DOMAIN transaction.recipes : \A k \in DOMAIN transaction.recipes[i].fields :
    LET input == transaction.recipes[i].fields[k]
    IN /\ input.source = "kObject" => \E o \in DOMAIN transaction.recipes : transaction.recipes[o].id = input.of
       /\ input.source \notin {"kObject", "kConstant"} =>
            \E v \in ToSet(transaction.values) : v.slot = input.of

\* In the middle of a transaction.
OpenInv ==
  /\ Place(transaction.call)
  /\ FieldsResolve
  /\ transaction.handles = [i \in DOMAIN transaction.recipes |->
                              IF HasHandle(transaction.call, i) THEN 100 + i ELSE 0]
  /\ host = [allocated |-> HandleCount(transaction.call),
             staged |-> Staged(transaction.call, transaction.handles),
             published |-> Nothing, rollbacks |-> 0]

TransactionIsTyped ==
  /\ transaction = [status |-> transaction.status, site |-> transaction.site,
                    values |-> transaction.values, recipes |-> transaction.recipes,
                    handles |-> transaction.handles, call |-> transaction.call]
  /\ transaction.status \in {"none", "refused", "open", "ok", "failed"}
  /\ transaction.values \in Seq(RecoveredValue)
  /\ transaction.recipes \in Seq(ObjectRecipe)

PlaceInv == TransactionIsTyped /\ MaterializationIsAtomic /\ (transaction.status = "open" => OpenInv)

-----------------------------------------------------------------------------
(* The loops.                                                               *)

\* A nonempty set of numbers has a least element.
LEMMA LeastElement ==
  ASSUME NEW S \in SUBSET Nat, S # {}
  PROVE  Min(S) \in S /\ \A y \in S : Min(S) <= y
<1> DEFINE R == OpToRel(<, Nat)
<1>1. IsWellFoundedOn(R, Nat)
  BY NatLessThanWellFounded
<1> HIDE DEF R
<1>2. PICK m \in S : \A k \in S : ~(<<k, m>> \in R)
  BY <1>1, WFMin
<1>3. \A k \in S : m <= k
  <2> SUFFICES ASSUME NEW k \in S, k < m PROVE FALSE
    BY <1>2
  <2>1. <<k, m>> \in R
    BY <1>2 DEF R, OpToRel
  <2>. QED  BY <1>2, <2>1
<1>. QED  BY <1>2, <1>3 DEF Min

\* Objects, fields and values are counted from 1.
LEMMA Sizes ==
  ASSUME TransactionIsTyped
  PROVE  /\ Len(transaction.recipes) \in Nat /\ Len(transaction.values) \in Nat
         /\ DOMAIN transaction.recipes = 1..Len(transaction.recipes)
         /\ DOMAIN transaction.values = 1..Len(transaction.values)
         /\ OutputSize \in Nat /\ OutputSize = Len(transaction.values) + Len(transaction.recipes)
         /\ \A i \in DOMAIN transaction.recipes :
              /\ Len(transaction.recipes[i].fields) \in Nat
              /\ DOMAIN transaction.recipes[i].fields = 1..Len(transaction.recipes[i].fields)
              /\ transaction.recipes[i].fields = <<>> <=> Len(transaction.recipes[i].fields) = 0
<1>1. transaction.recipes \in Seq(ObjectRecipe) /\ transaction.values \in Seq(RecoveredValue)
  BY DEF TransactionIsTyped
<1>2. ASSUME NEW S PROVE \A s \in Seq(S) : /\ Len(s) \in Nat /\ DOMAIN s = 1..Len(s)
                                           /\ s = <<>> <=> Len(s) = 0
                                           /\ \A i \in DOMAIN s : s[i] \in S
  OBVIOUS
<1>3. \A r \in ObjectRecipe : r.fields \in Seq(MaterializationInput)
  BY DEF ObjectRecipe
<1>4. /\ Len(transaction.recipes) \in Nat /\ DOMAIN transaction.recipes = 1..Len(transaction.recipes)
      /\ \A i \in DOMAIN transaction.recipes : transaction.recipes[i] \in ObjectRecipe
  BY <1>1, <1>2
<1>5. Len(transaction.values) \in Nat /\ DOMAIN transaction.values = 1..Len(transaction.values)
  BY <1>1, <1>2
<1>6. ASSUME NEW i \in DOMAIN transaction.recipes
      PROVE  /\ Len(transaction.recipes[i].fields) \in Nat
             /\ DOMAIN transaction.recipes[i].fields = 1..Len(transaction.recipes[i].fields)
             /\ transaction.recipes[i].fields = <<>> <=> Len(transaction.recipes[i].fields) = 0
  <2>1. transaction.recipes[i].fields \in Seq(MaterializationInput)
    BY <1>3, <1>4
  <2>. QED  BY <1>2, <2>1
<1>7. OutputSize \in Nat /\ OutputSize = Len(transaction.values) + Len(transaction.recipes)
  <2> DEFINE n == Len(transaction.recipes)
             m == Len(transaction.values)
  <2>1. OutputSize = m + n /\ m \in Nat /\ n \in Nat
    BY <1>4, <1>5 DEF OutputSize
  <2> HIDE DEF n, m
  <2>2. OutputSize \in Nat
    BY <2>1
  <2>. QED  BY <2>1, <2>2 DEF n, m
<1>. QED  BY <1>4, <1>5, <1>6, <1>7

\* The frame loop starts at its first slot, or there is none and commit is next.
LEMMA FrameFromPlace ==
  ASSUME TransactionIsTyped, NEW i \in Nat, i >= 1, i <= OutputSize + 1
  PROVE  /\ Place(FrameFrom(i))
         /\ FrameFrom(i).name \in {"store_frame", "commit"}
         /\ \A j \in 1..OutputSize : IsInFrame(FrameFrom(i), j) <=> j < i
<1>1. OutputSize \in Nat
  BY Sizes
<1>2. CASE i <= OutputSize
  BY <1>1, <1>2 DEF FrameFrom, Place, At, IsInFrame
<1>3. CASE ~(i <= OutputSize)
  BY <1>1, <1>3 DEF FrameFrom, Place, At, IsInFrame
<1>. QED  BY <1>2, <1>3

\* The store loops: after field k of object i (or from the start, 0 and 0)
\* everything up to that field is stored, nothing behind it, and no slot.
LEMMA StoreAfterPlace ==
  ASSUME TransactionIsTyped, NEW i \in Nat, NEW k \in Nat,
         \/ i = 0 /\ k = 0
         \/ i \in DOMAIN transaction.recipes /\ k \in DOMAIN transaction.recipes[i].fields
  PROVE  LET next == StoreAfter(i, k)
         IN /\ Place(next)
            /\ next.name \in {"store", "store_frame", "commit"}
            /\ \A p \in Fields : IsStored(next, p[1], p[2]) <=> (p[1] < i \/ (p[1] = i /\ p[2] <= k))
            /\ \A j \in 1..OutputSize : ~IsInFrame(next, j)
<1> DEFINE n == Len(transaction.recipes)
           size(a) == Len(transaction.recipes[a].fields)
           later == {j \in DOMAIN transaction.recipes : j > i /\ transaction.recipes[j].fields # <<>>}
           next == StoreAfter(i, k)
<1>1. /\ n \in Nat /\ DOMAIN transaction.recipes = 1..n /\ OutputSize \in Nat
      /\ \A a \in 1..n : /\ size(a) \in Nat /\ DOMAIN transaction.recipes[a].fields = 1..size(a)
                         /\ transaction.recipes[a].fields = <<>> <=> size(a) = 0
  BY Sizes
<1>2. next = IF i > 0 /\ k < size(i) THEN At("store", i, k + 1)
             ELSE IF later # {} THEN At("store", Min(later), 1)
             ELSE FrameFrom(1)
  BY DEF StoreAfter
<1>3. \/ i = 0 /\ k = 0
      \/ i \in 1..n /\ k \in 1..size(i)
  BY <1>1
<1>4. later = {j \in 1..n : j > i /\ size(j) # 0}
  BY <1>1
<1>5. \A p \in Fields : p[1] \in 1..n /\ p[2] \in 1..size(p[1])
  BY <1>1 DEF Fields
<1>6. \A a \in 1..n : \A b \in 1..size(a) : Place(At("store", a, b))
  BY <1>1 DEF Place
<1> HIDE DEF n, size, next, later
<1>7. CASE i > 0 /\ k < size(i)
  <2>1. next = At("store", i, k + 1) /\ i \in 1..n /\ k + 1 \in 1..size(i)
    BY <1>1, <1>2, <1>3, <1>7
  <2>2. Place(next)
    BY <1>6, <2>1
  <2>3. next.name = "store" /\ next.index = i /\ next.field = k + 1
    BY <2>1 DEF At
  <2>4. \A p \in Fields : IsStored(next, p[1], p[2]) <=> (p[1] < i \/ (p[1] = i /\ p[2] <= k))
    BY <1>5, <2>3 DEF IsStored
  <2>. QED  BY <2>2, <2>3, <2>4 DEF IsInFrame, next
<1>8. CASE ~(i > 0 /\ k < size(i)) /\ later # {}
  <2> DEFINE m == Min(later)
  <2>1. m \in later /\ \A j \in later : m <= j
    <3>1. later \in SUBSET Nat
      BY <1>1, <1>4
    <3>. QED  BY <1>8, <3>1, LeastElement
  <2>2. next = At("store", m, 1)
    BY <1>2, <1>8
  <2> HIDE DEF m
  <2>3. m \in 1..n /\ m > i /\ 1 \in 1..size(m)
    BY <1>1, <1>4, <2>1
  <2>4. Place(next)
    BY <1>6, <2>2, <2>3
  <2>5. next.name = "store" /\ next.index = m /\ next.field = 1
    BY <2>2 DEF At
  <2>6. ASSUME NEW p \in Fields
        PROVE  IsStored(next, p[1], p[2]) <=> (p[1] < i \/ (p[1] = i /\ p[2] <= k))
    <3>1. p[1] \in 1..n /\ p[2] \in 1..size(p[1]) /\ size(p[1]) \in Nat
      BY <1>1, <1>5
    <3>2. IsStored(next, p[1], p[2]) <=> p[1] < m
      BY <2>3, <2>5, <3>1 DEF IsStored
    <3>3. p[1] > i => p[1] \in later
      BY <1>4, <3>1
    <3>4. p[1] < m <=> p[1] <= i
      BY <2>1, <2>3, <3>1, <3>3
    <3>5. p[1] = i => p[2] <= k
      BY <1>3, <1>8, <3>1
    <3>. QED  BY <3>1, <3>2, <3>4, <3>5
  <2>. QED  BY <2>4, <2>5, <2>6 DEF IsInFrame, next
<1>9. CASE ~(i > 0 /\ k < size(i)) /\ later = {}
  <2>1. next = FrameFrom(1)
    BY <1>2, <1>9
  <2>2. /\ Place(next) /\ next.name \in {"store_frame", "commit"}
        /\ \A j \in 1..OutputSize : ~IsInFrame(next, j)
    BY <1>1, <2>1, FrameFromPlace
  <2>3. ASSUME NEW p \in Fields
        PROVE  IsStored(next, p[1], p[2]) <=> (p[1] < i \/ (p[1] = i /\ p[2] <= k))
    <3>1. p[1] \in 1..n /\ p[2] \in 1..size(p[1]) /\ size(p[1]) \in Nat
      BY <1>1, <1>5
    <3>2. IsStored(next, p[1], p[2])
      BY <2>2 DEF IsStored
    <3>3. ~(p[1] > i)
      BY <1>4, <1>9, <3>1
    <3>4. p[1] = i => p[2] <= k
      BY <1>3, <1>9, <3>1
    <3>. QED  BY <3>1, <3>2, <3>3, <3>4
  <2>. QED  BY <2>2, <2>3 DEF next
<1>. QED  BY <1>7, <1>8, <1>9

\* The allocation loop: the objects before i have their handles.
LEMMA AllocateFromPlace ==
  ASSUME TransactionIsTyped, NEW i \in Nat, i >= 1, i <= Len(transaction.recipes) + 1
  PROVE  LET next == AllocateFrom(i)
         IN /\ Place(next)
            /\ next.name \notin {"begin"}
            /\ \A j \in DOMAIN transaction.recipes : HasHandle(next, j) <=> j < i
            /\ HandleCount(next) = i - 1
            /\ \A p \in Fields : ~IsStored(next, p[1], p[2])
            /\ \A j \in 1..OutputSize : ~IsInFrame(next, j)
<1> DEFINE n == Len(transaction.recipes)
           next == AllocateFrom(i)
<1>1. n \in Nat /\ DOMAIN transaction.recipes = 1..n
  BY Sizes
<1>2. next = IF i <= n THEN At("allocate", i, 0) ELSE StoreAfter(0, 0)
  BY DEF AllocateFrom
<1>3. HandleCount(next) = IF next.name = "begin" THEN 0
                          ELSE IF next.name = "allocate" THEN next.index - 1 ELSE n
  BY DEF HandleCount
<1>4. i <= n + 1
  OBVIOUS
<1> HIDE DEF n, next
<1>5. CASE i <= n
  <2>1. next = At("allocate", i, 0) /\ i \in DOMAIN transaction.recipes
    BY <1>1, <1>2, <1>5
  <2>2. Place(next)
    BY <2>1 DEF Place
  <2>3. next.name = "allocate" /\ next.index = i
    BY <2>1 DEF At
  <2>4. HandleCount(next) = i - 1
    BY <1>3, <2>3
  <2>. QED  BY <2>2, <2>3, <2>4 DEF next, HasHandle, IsStored, IsInFrame
<1>6. CASE ~(i <= n)
  <2>1. i = n + 1 /\ next = StoreAfter(0, 0)
    BY <1>1, <1>2, <1>4, <1>6
  <2>2. /\ Place(next) /\ next.name \in {"store", "store_frame", "commit"}
        /\ \A p \in Fields : IsStored(next, p[1], p[2]) <=> (p[1] < 0 \/ (p[1] = 0 /\ p[2] <= 0))
        /\ \A j \in 1..OutputSize : ~IsInFrame(next, j)
    BY <2>1, StoreAfterPlace
  <2>3. \A p \in Fields : p[1] \in Nat /\ p[1] # 0
    BY <1>1 DEF Fields
  <2>4. \A p \in Fields : ~IsStored(next, p[1], p[2])
    BY <2>2, <2>3
  <2>5. HandleCount(next) = i - 1
    BY <1>1, <1>3, <2>1, <2>2
  <2>6. \A j \in DOMAIN transaction.recipes : HasHandle(next, j) /\ j < i
    BY <1>1, <2>1, <2>2 DEF HasHandle
  <2>. QED  BY <2>2, <2>4, <2>5, <2>6 DEF next
<1>. QED  BY <1>5, <1>6

\* The next place is one call further: it counts the call that was made, and
\* nothing else.
LEMMA FollowingAdvances ==
  ASSUME TransactionIsTyped, NEW call, Place(call), call.name # "commit"
  PROVE  LET next == Following(call)
         IN /\ Place(next)
            /\ \A j \in DOMAIN transaction.recipes :
                 HasHandle(next, j) <=> HasHandle(call, j) \/ (call.name = "allocate" /\ j = call.index)
            /\ HandleCount(next) = IF call.name = "allocate" THEN call.index ELSE HandleCount(call)
            /\ \A p \in Fields :
                 IsStored(next, p[1], p[2]) <=>
                   IsStored(call, p[1], p[2]) \/ (call.name = "store" /\ p = <<call.index, call.field>>)
            /\ \A j \in 1..OutputSize :
                 IsInFrame(next, j) <=> IsInFrame(call, j) \/ (call.name = "store_frame" /\ j = call.index)
<1> DEFINE n == Len(transaction.recipes)
           next == Following(call)
<1>1. n \in Nat /\ DOMAIN transaction.recipes = 1..n /\ OutputSize \in Nat
  BY Sizes
<1>2. \A p \in Fields : p = <<p[1], p[2]>> /\ p[1] \in Nat /\ p[2] \in Nat
  BY DEF Fields
<1>3. CASE call = At("begin", 0, 0)
  <2>1. call.name = "begin"
    BY <1>3 DEF At
  <2>2. next = AllocateFrom(1)
    BY <2>1 DEF Following
  <2>3. 1 <= n + 1
    BY <1>1
  <2>4. /\ Place(next) /\ \A j \in DOMAIN transaction.recipes : HasHandle(next, j) <=> j < 1
        /\ HandleCount(next) = 1 - 1
        /\ \A p \in Fields : ~IsStored(next, p[1], p[2])
        /\ \A j \in 1..OutputSize : ~IsInFrame(next, j)
    BY <2>2, <2>3, AllocateFromPlace
  <2> HIDE DEF n, next
  <2>5. HandleCount(call) = 0
    BY <2>1 DEF HandleCount
  <2>6. \A j \in DOMAIN transaction.recipes : ~HasHandle(next, j) /\ ~HasHandle(call, j)
    BY <1>1, <2>1, <2>4 DEF HasHandle
  <2>7. \A p \in Fields : ~IsStored(call, p[1], p[2])
    BY <2>1 DEF IsStored
  <2>8. \A j \in 1..OutputSize : ~IsInFrame(call, j)
    BY <2>1 DEF IsInFrame
  <2>. QED  BY <2>1, <2>4, <2>5, <2>6, <2>7, <2>8 DEF next

<1>4. CASE \E i \in DOMAIN transaction.recipes : call = At("allocate", i, 0)
  <2>1. PICK i \in DOMAIN transaction.recipes : call = At("allocate", i, 0)
    BY <1>4
  <2>2. call.name = "allocate" /\ call.index = i
    BY <2>1 DEF At
  <2>3. next = AllocateFrom(i + 1)
    BY <2>2 DEF Following
  <2>4. i + 1 \in Nat /\ i + 1 >= 1 /\ i + 1 <= n + 1 /\ i + 1 - 1 = i /\ i \in Nat
    BY <1>1
  <2>5. /\ Place(next) /\ \A j \in DOMAIN transaction.recipes : HasHandle(next, j) <=> j < i + 1
        /\ HandleCount(next) = i + 1 - 1
        /\ \A p \in Fields : ~IsStored(next, p[1], p[2])
        /\ \A j \in 1..OutputSize : ~IsInFrame(next, j)
    BY <2>3, <2>4, AllocateFromPlace
  <2> HIDE DEF n, next
  <2>6. \A j \in DOMAIN transaction.recipes : HasHandle(next, j) <=> HasHandle(call, j) \/ j = i
    BY <1>1, <2>2, <2>5 DEF HasHandle
  <2>7. \A p \in Fields : ~IsStored(call, p[1], p[2])
    BY <2>2 DEF IsStored
  <2>8. \A j \in 1..OutputSize : ~IsInFrame(call, j)
    BY <2>2 DEF IsInFrame
  <2>9. HandleCount(next) = i
    BY <2>4, <2>5
  <2>. QED  BY <2>2, <2>5, <2>6, <2>7, <2>8, <2>9 DEF next
<1>5. CASE \E i \in DOMAIN transaction.recipes : \E k \in DOMAIN transaction.recipes[i].fields :
             call = At("store", i, k)
  <2>0. PICK i \in DOMAIN transaction.recipes : \E k \in DOMAIN transaction.recipes[i].fields :
          call = At("store", i, k)
    BY <1>5
  <2>1. PICK k \in DOMAIN transaction.recipes[i].fields : call = At("store", i, k)
    BY <2>0
  <2>2. call.name = "store" /\ call.index = i /\ call.field = k
    BY <2>1 DEF At
  <2>3. next = StoreAfter(i, k)
    BY <2>2 DEF Following
  <2>4. i \in Nat /\ k \in Nat
    <3>1. DOMAIN transaction.recipes[i].fields = 1..Len(transaction.recipes[i].fields)
      BY Sizes
    <3>. QED  BY <1>1, <3>1
  <2>5. /\ Place(next) /\ next.name \in {"store", "store_frame", "commit"}
        /\ \A p \in Fields : IsStored(next, p[1], p[2]) <=> (p[1] < i \/ (p[1] = i /\ p[2] <= k))
        /\ \A j \in 1..OutputSize : ~IsInFrame(next, j)
    BY <2>3, <2>4, StoreAfterPlace
  <2>6. HandleCount(next) = HandleCount(call)
    BY <2>2, <2>5 DEF HandleCount
  <2> HIDE DEF n, next
  <2>7. ASSUME NEW p \in Fields
        PROVE  IsStored(next, p[1], p[2]) <=> IsStored(call, p[1], p[2]) \/ p = <<i, k>>
    <3>1. p = <<i, k>> <=> p[1] = i /\ p[2] = k
      BY <1>2
    <3>2. IsStored(call, p[1], p[2]) <=> (p[1] < i \/ (p[1] = i /\ p[2] < k))
      BY <2>2 DEF IsStored
    <3>. QED  BY <1>2, <2>4, <2>5, <3>1, <3>2
  <2>8. \A j \in DOMAIN transaction.recipes : HasHandle(next, j) /\ HasHandle(call, j)
    BY <2>2, <2>5 DEF HasHandle
  <2>9. \A j \in 1..OutputSize : ~IsInFrame(call, j)
    BY <2>2 DEF IsInFrame
  <2>. QED  BY <2>2, <2>5, <2>6, <2>7, <2>8, <2>9 DEF next
<1>6. CASE \E i \in 1..OutputSize : call = At("store_frame", i, 0)
  <2>1. PICK i \in 1..OutputSize : call = At("store_frame", i, 0)
    BY <1>6
  <2>2. call.name = "store_frame" /\ call.index = i
    BY <2>1 DEF At
  <2>3. next = FrameFrom(i + 1)
    BY <2>2 DEF Following
  <2>4. i + 1 \in Nat /\ i + 1 >= 1 /\ i + 1 <= OutputSize + 1
    BY <1>1
  <2>5. /\ Place(next) /\ next.name \in {"store_frame", "commit"}
        /\ \A j \in 1..OutputSize : IsInFrame(next, j) <=> j < i + 1
    BY <2>3, <2>4, FrameFromPlace
  <2>6. HandleCount(next) = HandleCount(call)
    BY <2>2, <2>5 DEF HandleCount
  <2> HIDE DEF n, next
  <2>7. \A p \in Fields : IsStored(next, p[1], p[2]) /\ IsStored(call, p[1], p[2])
    BY <2>2, <2>5 DEF IsStored
  <2>8. \A j \in DOMAIN transaction.recipes : HasHandle(next, j) /\ HasHandle(call, j)
    BY <2>2, <2>5 DEF HasHandle
  <2>9. \A j \in 1..OutputSize : IsInFrame(next, j) <=> IsInFrame(call, j) \/ j = i
    BY <1>1, <2>2, <2>5 DEF IsInFrame
  <2>. QED  BY <2>2, <2>5, <2>6, <2>7, <2>8, <2>9 DEF next
<1>7. CASE call = At("commit", 0, 0)
  BY <1>7 DEF At
<1>. QED  BY <1>3, <1>4, <1>5, <1>6, <1>7 DEF Place

-----------------------------------------------------------------------------
(* The steps.                                                               *)

\* Nothing but the plan and the frame decides what a place means.
LEMMA SamePlan ==
  ASSUME transaction'.recipes = transaction.recipes, transaction'.values = transaction.values
  PROVE  /\ OutputSize' = OutputSize
         /\ Fields' = Fields
         /\ FieldsResolve' <=> FieldsResolve
         /\ Place(transaction.call)' <=> Place(transaction'.call)
         /\ HandleCount(transaction.call)' = HandleCount(transaction'.call)
         /\ Staged(transaction.call, transaction.handles)' = Staged(transaction'.call, transaction'.handles)
<1>1. OutputSize' = OutputSize
  BY DEF OutputSize
<1>2. Fields' = Fields
  BY DEF Fields
<1>3. FieldsResolve' <=> FieldsResolve
  BY DEF FieldsResolve
<1>4. Place(transaction.call)' <=> Place(transaction'.call)
  BY <1>1 DEF Place
<1>5. HandleCount(transaction.call)' = HandleCount(transaction'.call)
  BY DEF HandleCount
<1>6. Staged(transaction.call, transaction.handles)' = Staged(transaction'.call, transaction'.handles)
  BY <1>1, <1>2 DEF Staged, StoredField, Contents, Output
<1>. QED  BY <1>1, <1>2, <1>3, <1>4, <1>5, <1>6

\* A call other than commit that succeeds: the host has what the next place says.
LEMMA AnswerStages ==
  ASSUME TransactionIsTyped, OpenInv, transaction.call.name # "commit"
  PROVE  LET call == transaction.call
             next == Following(call)
         IN /\ Allocated(call) = [i \in DOMAIN transaction.recipes |-> IF HasHandle(next, i) THEN 100 + i ELSE 0]
            /\ Answered(call) = [allocated |-> HandleCount(next), staged |-> Staged(next, Allocated(call)),
                                 published |-> Nothing, rollbacks |-> 0]
<1> DEFINE call == transaction.call
           next == Following(call)
           handle == transaction.handles
<1>1. /\ Place(call) /\ call.name # "commit"
      /\ handle = [i \in DOMAIN transaction.recipes |-> IF HasHandle(call, i) THEN 100 + i ELSE 0]
      /\ host = [allocated |-> HandleCount(call), staged |-> Staged(call, handle),
                 published |-> Nothing, rollbacks |-> 0]
  BY DEF OpenInv
<1>2. /\ \A j \in DOMAIN transaction.recipes :
           HasHandle(next, j) <=> HasHandle(call, j) \/ (call.name = "allocate" /\ j = call.index)
      /\ HandleCount(next) = IF call.name = "allocate" THEN call.index ELSE HandleCount(call)
      /\ \A p \in Fields :
           IsStored(next, p[1], p[2]) <=>
             IsStored(call, p[1], p[2]) \/ (call.name = "store" /\ p = <<call.index, call.field>>)
      /\ \A j \in 1..OutputSize :
           IsInFrame(next, j) <=> IsInFrame(call, j) \/ (call.name = "store_frame" /\ j = call.index)
  BY <1>1, FollowingAdvances
<1>3. Allocated(call) = IF call.name = "allocate"
                        THEN [handle EXCEPT ![call.index] = 100 + host.allocated + 1] ELSE handle
  BY DEF Allocated
<1>4. Staged(call, handle) =
        [objects |-> {StoredField(handle, p[1], p[2]) : p \in {q \in Fields : IsStored(call, q[1], q[2])}},
         frame |-> {Output(handle, i) : i \in {j \in 1..OutputSize : IsInFrame(call, j)}}]
  BY DEF Staged
<1>5. Staged(next, Allocated(call)) =
        [objects |-> {StoredField(Allocated(call), p[1], p[2]) : p \in {q \in Fields : IsStored(next, q[1], q[2])}},
         frame |-> {Output(Allocated(call), i) : i \in {j \in 1..OutputSize : IsInFrame(next, j)}}]
  BY DEF Staged
<1>6. HandleCount(call) = IF call.name = "begin" THEN 0
                          ELSE IF call.name = "allocate" THEN call.index - 1 ELSE Len(transaction.recipes)
  BY DEF HandleCount
<1>7. Answered(call) =
        CASE call.name = "allocate" -> [host EXCEPT !.allocated = @ + 1]
          [] call.name = "store" ->
               [host EXCEPT !.staged = [objects |-> host.staged.objects \cup {StoredField(handle, call.index, call.field)},
                                        frame |-> host.staged.frame]]
          [] call.name = "store_frame" ->
               [host EXCEPT !.staged = [objects |-> host.staged.objects,
                                        frame |-> host.staged.frame \cup {Output(handle, call.index)}]]
          [] OTHER -> host
  BY <1>1 DEF Answered
<1>8. DOMAIN transaction.recipes \subseteq Nat
  BY Sizes
<1>9. /\ call.name = "allocate" => call.index \in DOMAIN transaction.recipes
      /\ call.name = "store" => <<call.index, call.field>> \in Fields
      /\ call.name = "store_frame" => call.index \in 1..OutputSize
      /\ call.name \in {"begin", "allocate", "store", "store_frame"}
  <2>1. \A i \in DOMAIN transaction.recipes : DOMAIN transaction.recipes[i].fields \subseteq Nat
    BY Sizes
  <2>2. \A i \in DOMAIN transaction.recipes : \A k \in DOMAIN transaction.recipes[i].fields : <<i, k>> \in Fields
    BY <1>8, <2>1 DEF Fields
  <2>3. \/ call.name = "begin"
        \/ call.name = "allocate" /\ call.index \in DOMAIN transaction.recipes
        \/ /\ call.name = "store"
           /\ \E i \in DOMAIN transaction.recipes : \E k \in DOMAIN transaction.recipes[i].fields :
                call.index = i /\ call.field = k
        \/ call.name = "store_frame" /\ call.index \in 1..OutputSize
    <3>1. \A name, i, k : At(name, i, k).name = name /\ At(name, i, k).index = i /\ At(name, i, k).field = k
      BY DEF At
    <3> HIDE DEF call
    <3>. QED  BY <1>1, <3>1 DEF Place
  <2> HIDE DEF call
  <2>. QED  BY <2>2, <2>3
<1> HIDE DEF call, next, handle
<1>10. CASE call.name = "begin"
  <2>1. Allocated(call) = handle /\ Answered(call) = host
    BY <1>3, <1>7, <1>10
  <2>2. Staged(next, handle) = Staged(call, handle)
    BY <1>2, <1>4, <1>5, <1>10, <2>1
  <2>3. \A j \in DOMAIN transaction.recipes : HasHandle(next, j) <=> HasHandle(call, j)
    BY <1>2, <1>10
  <2>. QED  BY <1>1, <1>2, <1>10, <2>1, <2>2, <2>3 DEF call, next
<1>11. CASE call.name = "allocate"
  <2>1. call.index \in DOMAIN transaction.recipes /\ call.index \in Nat /\ HandleCount(call) = call.index - 1
    BY <1>6, <1>8, <1>9, <1>11
  <2>2. host.allocated = call.index - 1
    BY <1>1, <2>1
  <2>3. Allocated(call) = [handle EXCEPT ![call.index] = 100 + call.index]
    <3>1. 100 + host.allocated + 1 = 100 + call.index
      BY <2>1, <2>2
    <3>. QED  BY <1>3, <1>11, <3>1
  <2>4. Allocated(call) = [i \in DOMAIN transaction.recipes |-> IF HasHandle(next, i) THEN 100 + i ELSE 0]
    BY <1>1, <1>2, <1>11, <2>1, <2>3
  <2>5. \A q \in Fields : ~IsStored(next, q[1], q[2]) /\ ~IsStored(call, q[1], q[2])
    BY <1>2, <1>11 DEF IsStored
  <2>6. \A j \in 1..OutputSize : ~IsInFrame(next, j) /\ ~IsInFrame(call, j)
    BY <1>2, <1>11 DEF IsInFrame
  <2>7. Staged(next, Allocated(call)) = [objects |-> {}, frame |-> {}]
    BY <1>5, <2>5, <2>6
  <2>8. Staged(call, handle) = [objects |-> {}, frame |-> {}]
    BY <1>4, <2>5, <2>6
  <2>9. Answered(call) = [host EXCEPT !.allocated = call.index]
    BY <1>1, <1>7, <1>11, <2>1, <2>2
  <2>10. Answered(call) = [allocated |-> call.index, staged |-> Staged(call, handle),
                           published |-> Nothing, rollbacks |-> 0]
    BY <1>1, <2>9
  <2>. QED  BY <1>2, <1>11, <2>4, <2>7, <2>8, <2>10 DEF call, next
<1>12. CASE call.name = "store"
  <2>1. Allocated(call) = handle
    BY <1>3, <1>12
  <2> DEFINE this == <<call.index, call.field>>
             done == {q \in Fields : IsStored(call, q[1], q[2])}
  <2>2. {q \in Fields : IsStored(next, q[1], q[2])} = done \cup {this}
    BY <1>2, <1>9, <1>12
  <2>3. this[1] = call.index /\ this[2] = call.field
    OBVIOUS
  <2> HIDE DEF this, done
  <2>4. {StoredField(handle, p[1], p[2]) : p \in done \cup {this}}
          = {StoredField(handle, p[1], p[2]) : p \in done} \cup {StoredField(handle, call.index, call.field)}
    BY <2>3
  <2>5. {j \in 1..OutputSize : IsInFrame(next, j)} = {j \in 1..OutputSize : IsInFrame(call, j)}
    BY <1>2, <1>12
  <2>6. Staged(next, handle) =
          [objects |-> host.staged.objects \cup {StoredField(handle, call.index, call.field)},
           frame |-> host.staged.frame]
    <3>1. /\ host.staged.objects = {StoredField(handle, p[1], p[2]) : p \in done}
          /\ host.staged.frame = {Output(handle, i) : i \in {j \in 1..OutputSize : IsInFrame(call, j)}}
      <4>1. host.staged = Staged(call, handle)
        BY <1>1
      <4>. QED  BY <1>4, <4>1 DEF done
    <3>. QED  BY <1>5, <2>1, <2>2, <2>4, <2>5, <3>1
  <2>7. Answered(call) = [host EXCEPT !.staged = Staged(next, handle)]
    BY <1>7, <1>12, <2>6
  <2>8. Answered(call) = [allocated |-> HandleCount(call), staged |-> Staged(next, handle),
                          published |-> Nothing, rollbacks |-> 0]
    BY <1>1, <2>7
  <2>9. \A j \in DOMAIN transaction.recipes : HasHandle(next, j) <=> HasHandle(call, j)
    BY <1>2, <1>12
  <2>. QED  BY <1>1, <1>2, <1>12, <2>1, <2>8, <2>9 DEF call, next
<1>13. CASE call.name = "store_frame"
  <2>1. Allocated(call) = handle
    BY <1>3, <1>13
  <2> DEFINE done == {j \in 1..OutputSize : IsInFrame(call, j)}
  <2>2. {j \in 1..OutputSize : IsInFrame(next, j)} = done \cup {call.index}
    BY <1>2, <1>9, <1>13
  <2>3. {q \in Fields : IsStored(next, q[1], q[2])} = {q \in Fields : IsStored(call, q[1], q[2])}
    BY <1>2, <1>13
  <2> HIDE DEF done
  <2>4. {Output(handle, i) : i \in done \cup {call.index}}
          = {Output(handle, i) : i \in done} \cup {Output(handle, call.index)}
    OBVIOUS
  <2>5. Staged(next, handle) =
          [objects |-> host.staged.objects,
           frame |-> host.staged.frame \cup {Output(handle, call.index)}]
    <3>1. /\ host.staged.objects = {StoredField(handle, p[1], p[2]) : p \in {q \in Fields : IsStored(call, q[1], q[2])}}
          /\ host.staged.frame = {Output(handle, i) : i \in done}
      <4>1. host.staged = Staged(call, handle)
        BY <1>1
      <4>. QED  BY <1>4, <4>1 DEF done
    <3>. QED  BY <1>5, <2>1, <2>2, <2>3, <2>4, <3>1
  <2>6. Answered(call) = [host EXCEPT !.staged = Staged(next, handle)]
    BY <1>7, <1>13, <2>5
  <2>7. Answered(call) = [allocated |-> HandleCount(call), staged |-> Staged(next, handle),
                          published |-> Nothing, rollbacks |-> 0]
    BY <1>1, <2>6
  <2>8. \A j \in DOMAIN transaction.recipes : HasHandle(next, j) <=> HasHandle(call, j)
    BY <1>2, <1>13
  <2>. QED  BY <1>1, <1>2, <1>13, <2>1, <2>7, <2>8 DEF call, next
<1>. QED  BY <1>9, <1>10, <1>11, <1>12, <1>13

\* At commit every object has its handle, and everything is staged.
PublishedAll ==
  /\ transaction.handles = [i \in DOMAIN transaction.recipes |-> 100 + i]
  /\ host.published = [objects |-> {StoredField(transaction.handles, p[1], p[2]) : p \in Fields},
                       frame |-> {Output(transaction.handles, i) : i \in 1..OutputSize}]

\* The lookups of object_indices and frame.find succeed in a plan that was
\* accepted, and what was stored is what the recipe says.
LEMMA CellsAreFields ==
  ASSUME FieldsResolve, NEW handle, DOMAIN handle = DOMAIN transaction.recipes,
         NEW i \in DOMAIN transaction.recipes, NEW k \in DOMAIN transaction.recipes[i].fields
  PROVE  IsField(handle, StoredField(handle, i, k), i, k)
<1> DEFINE input == transaction.recipes[i].fields[k]
           cell == StoredField(handle, i, k)
<1>1. cell[1] = handle[i] /\ cell[2] = k /\ cell[3] = Contents(handle, input)
  BY DEF StoredField
<1>2. /\ input.source = "kObject" => \E o \in DOMAIN transaction.recipes : transaction.recipes[o].id = input.of
      /\ input.source \notin {"kObject", "kConstant"} =>
           \E v \in ToSet(transaction.values) : v.slot = input.of
  BY DEF FieldsResolve
<1>3. IsField(handle, cell, i, k) <=>
        /\ cell[1] = handle[i]
        /\ cell[2] = k
        /\ CASE input.source = "kObject" ->
                  \E o \in DOMAIN handle : transaction.recipes[o].id = input.of /\ cell[3] = handle[o]
             [] input.source = "kConstant" -> cell[3] = input.of
             [] OTHER -> \E v \in ToSet(transaction.values) : v.slot = input.of /\ cell[3] = v.value
  BY DEF IsField
<1> HIDE DEF input, cell
<1>4. CASE input.source = "kObject"
  <2> DEFINE o == object_index(transaction.recipes, input.of)
  <2>1. o \in DOMAIN transaction.recipes /\ transaction.recipes[o].id = input.of
    BY <1>2, <1>4 DEF object_index
  <2>2. cell[3] = handle[o]
    BY <1>1, <1>4 DEF Contents
  <2> HIDE DEF o
  <2>. QED  BY <1>1, <1>3, <1>4, <2>1, <2>2 DEF cell
<1>5. CASE input.source = "kConstant"
  <2>1. cell[3] = input.of
    BY <1>1, <1>5 DEF Contents
  <2>. QED  BY <1>1, <1>3, <1>5, <2>1 DEF cell
<1>6. CASE input.source \notin {"kObject", "kConstant"}
  <2> DEFINE v == find(transaction.values, input.of)
  <2>1. v \in ToSet(transaction.values) /\ v.slot = input.of
    BY <1>2, <1>6 DEF find
  <2>2. cell[3] = v.value
    BY <1>1, <1>6 DEF Contents
  <2> HIDE DEF v
  <2>. QED  BY <1>1, <1>3, <1>6, <2>1, <2>2 DEF cell
<1>. QED  BY <1>4, <1>5, <1>6

\* What is published then is the whole frame.
LEMMA PublishedIsComplete == TransactionIsTyped /\ FieldsResolve /\ PublishedAll => FrameIsComplete
<1> SUFFICES ASSUME TransactionIsTyped, FieldsResolve, PublishedAll PROVE FrameIsComplete
  OBVIOUS
<1> DEFINE n == Len(transaction.recipes)
           m == Len(transaction.values)
           handle == transaction.handles
<1>1. /\ n \in Nat /\ m \in Nat /\ OutputSize = m + n
      /\ DOMAIN transaction.recipes = 1..n /\ DOMAIN transaction.values = 1..m
  BY Sizes
<1>2. /\ handle = [i \in 1..n |-> 100 + i]
      /\ host.published.objects = {StoredField(handle, p[1], p[2]) : p \in Fields}
      /\ host.published.frame = {Output(handle, i) : i \in 1..(m + n)}
  BY <1>1 DEF PublishedAll
<1>3. \A i : Output(handle, i) = IF i <= m
                                 THEN <<transaction.values[i].slot, transaction.values[i].value>>
                                 ELSE <<transaction.recipes[i - m].destination_slot, handle[i - m]>>
  BY DEF Output
<1>4. ToSet(transaction.values) = {transaction.values[i] : i \in 1..m}
  BY <1>1 DEF ToSet
<1>f. \A p \in Fields : p[1] \in DOMAIN transaction.recipes /\ p[2] \in DOMAIN transaction.recipes[p[1]].fields
  BY DEF Fields
<1>g. ASSUME NEW i \in DOMAIN transaction.recipes, NEW k \in DOMAIN transaction.recipes[i].fields
      PROVE  <<i, k>> \in Fields
  <2>1. i \in Nat /\ k \in Nat
    BY Sizes
  <2>. QED  BY <2>1 DEF Fields
<1>h. FrameIsComplete <=>
        \E h \in [DOMAIN transaction.recipes -> 101..100 + n] :
          /\ \A i, j \in DOMAIN h : h[i] = h[j] => i = j
          /\ \A i \in DOMAIN h : \A k \in DOMAIN transaction.recipes[i].fields :
               \E cell \in host.published.objects : IsField(h, cell, i, k)
          /\ \A cell \in host.published.objects :
               \E i \in DOMAIN h : \E k \in DOMAIN transaction.recipes[i].fields : IsField(h, cell, i, k)
          /\ host.published.frame =
               {<<v.slot, v.value>> : v \in ToSet(transaction.values)}
               \cup {<<transaction.recipes[i].destination_slot, h[i]>> : i \in DOMAIN h}
  BY DEF FrameIsComplete
<1> HIDE DEF n, m, handle
<1>5. handle \in [DOMAIN transaction.recipes -> 101..100 + n] /\ DOMAIN handle = DOMAIN transaction.recipes
  BY <1>1, <1>2
<1>6. \A i, j \in DOMAIN handle : handle[i] = handle[j] => i = j
  BY <1>1, <1>2
<1>7. ASSUME NEW i \in DOMAIN handle, NEW k \in DOMAIN transaction.recipes[i].fields
      PROVE  \E cell \in host.published.objects : IsField(handle, cell, i, k)
  <2>1. IsField(handle, StoredField(handle, i, k), i, k)
    BY <1>5, CellsAreFields
  <2>2. StoredField(handle, i, k) \in host.published.objects
    <3>1. <<i, k>> \in Fields /\ <<i, k>>[1] = i /\ <<i, k>>[2] = k
      BY <1>5, <1>g
    <3>. QED  BY <1>2, <3>1
  <2>. QED  BY <2>1, <2>2
<1>8. ASSUME NEW cell \in host.published.objects
      PROVE  \E i \in DOMAIN handle : \E k \in DOMAIN transaction.recipes[i].fields : IsField(handle, cell, i, k)
  <2>1. PICK p \in Fields : cell = StoredField(handle, p[1], p[2])
    BY <1>2
  <2>2. p[1] \in DOMAIN transaction.recipes /\ p[2] \in DOMAIN transaction.recipes[p[1]].fields
    BY <1>f
  <2>3. IsField(handle, cell, p[1], p[2])
    BY <1>5, <2>1, <2>2, CellsAreFields
  <2>. QED  BY <1>5, <2>2, <2>3
<1>9. host.published.frame =
        {<<v.slot, v.value>> : v \in ToSet(transaction.values)}
        \cup {<<transaction.recipes[i].destination_slot, handle[i]>> : i \in DOMAIN handle}
  <2> DEFINE V == {<<v.slot, v.value>> : v \in ToSet(transaction.values)}
             O == {<<transaction.recipes[i].destination_slot, handle[i]>> : i \in DOMAIN handle}
  <2>1. ASSUME NEW i \in 1..(m + n) PROVE Output(handle, i) \in V \cup O
    <3>1. CASE i <= m
      <4>1. i \in 1..m
        BY <1>1, <3>1
      <4>2. transaction.values[i] \in ToSet(transaction.values)
        BY <1>4, <4>1
      <4>. QED  BY <1>3, <3>1, <4>2
    <3>2. CASE ~(i <= m)
      <4>1. i - m \in DOMAIN handle
        BY <1>1, <1>5, <3>2
      <4>. QED  BY <1>3, <3>2, <4>1
    <3>. QED  BY <3>1, <3>2
  <2>2. ASSUME NEW x \in V PROVE \E i \in 1..(m + n) : x = Output(handle, i)
    <3>1. PICK v \in ToSet(transaction.values) : x = <<v.slot, v.value>>
      OBVIOUS
    <3>2. PICK i \in 1..m : v = transaction.values[i]
      BY <1>4, <3>1
    <3>3. i \in 1..(m + n) /\ i <= m
      BY <1>1, <3>2
    <3>. QED  BY <1>3, <3>1, <3>2, <3>3
  <2>3. ASSUME NEW x \in O PROVE \E i \in 1..(m + n) : x = Output(handle, i)
    <3>1. PICK o \in 1..n : x = <<transaction.recipes[o].destination_slot, handle[o]>>
      BY <1>1, <1>5
    <3>2. m + o \in 1..(m + n) /\ ~(m + o <= m) /\ m + o - m = o
      BY <1>1, <3>1
    <3> DEFINE i == m + o
    <3>3. Output(handle, i) = IF i <= m
                              THEN <<transaction.values[i].slot, transaction.values[i].value>>
                              ELSE <<transaction.recipes[i - m].destination_slot, handle[i - m]>>
      BY <1>3
    <3>4. i \in 1..(m + n) /\ ~(i <= m) /\ i - m = o
      BY <1>1, <3>1
    <3> HIDE DEF i
    <3>. QED  BY <3>1, <3>3, <3>4
  <2> HIDE DEF V, O
  <2>4. host.published.frame = V \cup O
    BY <1>2, <2>1, <2>2, <2>3
  <2>. QED  BY <2>4 DEF V, O
<1>. QED  BY <1>5, <1>6, <1>7, <1>8, <1>9, <1>h

\* A call that succeeds, commit aside, moves the transaction one place on.
LEMMA CallSucceeds ==
  ASSUME PlaceInv, transaction.status = "open", transaction.call.name # "commit",
         host' = Answered(transaction.call),
         transaction' = [transaction EXCEPT !.status = "open", !.handles = Allocated(transaction.call),
                                            !.call = Following(transaction.call)]
  PROVE  PlaceInv'
<1> DEFINE call == transaction.call
           next == Following(call)
<1>1. TransactionIsTyped /\ OpenInv
  BY DEF PlaceInv
<1>2. /\ transaction'.status = "open" /\ transaction'.recipes = transaction.recipes
      /\ transaction'.values = transaction.values /\ transaction'.handles = Allocated(call)
      /\ transaction'.call = next
      /\ transaction' = [status |-> transaction'.status, site |-> transaction'.site,
                         values |-> transaction'.values, recipes |-> transaction'.recipes,
                         handles |-> transaction'.handles, call |-> transaction'.call]
  BY <1>1 DEF TransactionIsTyped
<1>3. TransactionIsTyped'
  BY <1>1, <1>2 DEF TransactionIsTyped
<1>4. /\ Allocated(call) = [i \in DOMAIN transaction.recipes |-> IF HasHandle(next, i) THEN 100 + i ELSE 0]
      /\ Answered(call) = [allocated |-> HandleCount(next), staged |-> Staged(next, Allocated(call)),
                           published |-> Nothing, rollbacks |-> 0]
  BY <1>1, AnswerStages
<1>5. Place(next)
  BY <1>1, FollowingAdvances DEF OpenInv
<1> HIDE DEF next, call
<1>6. OpenInv'
  <2>1. /\ FieldsResolve' <=> FieldsResolve
        /\ Place(transaction.call)' <=> Place(transaction'.call)
        /\ HandleCount(transaction.call)' = HandleCount(transaction'.call)
        /\ Staged(transaction.call, transaction.handles)' = Staged(transaction'.call, transaction'.handles)
    BY <1>2, SamePlan
  <2>2. FieldsResolve' /\ Place(transaction.call)'
    BY <1>1, <1>2, <1>5, <2>1 DEF OpenInv
  <2>3. transaction'.handles = [i \in DOMAIN transaction'.recipes |->
                                  IF HasHandle(transaction'.call, i) THEN 100 + i ELSE 0]
    BY <1>2, <1>4
  <2>4. host' = [allocated |-> HandleCount(transaction.call)',
                 staged |-> Staged(transaction.call, transaction.handles)',
                 published |-> Nothing, rollbacks |-> 0]
    BY <1>2, <1>4, <2>1 DEF call
  <2>5. HasHandle(transaction.call, 1)' <=> HasHandle(transaction'.call, 1)
    BY DEF HasHandle
  <2>. QED  BY <2>2, <2>3, <2>4 DEF OpenInv, HasHandle, Nothing
<1>7. MaterializationIsAtomic'
  <2>1. host'.published = Nothing /\ Nothing' = Nothing
    BY <1>4 DEF Nothing, call
  <2>. QED  BY <1>2, <2>1 DEF MaterializationIsAtomic
<1>. QED  BY <1>3, <1>6, <1>7 DEF PlaceInv

\* commit publishes everything that the loops have staged.
LEMMA CommitSucceeds ==
  ASSUME PlaceInv, transaction.status = "open", transaction.call.name = "commit",
         host' = Answered(transaction.call),
         transaction' = [transaction EXCEPT !.status = "ok", !.handles = Allocated(transaction.call),
                                            !.call = Following(transaction.call)]
  PROVE  PlaceInv'
<1> DEFINE call == transaction.call
           handle == transaction.handles
<1>1. TransactionIsTyped /\ OpenInv
  BY DEF PlaceInv
<1>2. Allocated(call) = handle
  BY DEF Allocated
<1>3. /\ transaction'.status = "ok" /\ transaction'.recipes = transaction.recipes
      /\ transaction'.values = transaction.values /\ transaction'.handles = handle
      /\ transaction' = [status |-> transaction'.status, site |-> transaction'.site,
                         values |-> transaction'.values, recipes |-> transaction'.recipes,
                         handles |-> transaction'.handles, call |-> transaction'.call]
  BY <1>1, <1>2 DEF TransactionIsTyped
<1>4. TransactionIsTyped'
  BY <1>1, <1>3 DEF TransactionIsTyped
<1>5. FieldsResolve'
  BY <1>1, <1>3, SamePlan DEF OpenInv
<1>6. handle = [i \in DOMAIN transaction.recipes |-> 100 + i]
  <2>1. \A i : HasHandle(call, i)
    BY DEF HasHandle
  <2>2. handle = [i \in DOMAIN transaction.recipes |-> IF HasHandle(call, i) THEN 100 + i ELSE 0]
    BY <1>1 DEF OpenInv
  <2>. QED  BY <2>1, <2>2
<1>7. host = [allocated |-> HandleCount(call), staged |-> Staged(call, handle),
              published |-> Nothing, rollbacks |-> 0]
  BY <1>1 DEF OpenInv
<1>8. Staged(call, handle) = [objects |-> {StoredField(handle, p[1], p[2]) : p \in Fields},
                              frame |-> {Output(handle, i) : i \in 1..OutputSize}]
  <2>1. \A i, k : IsStored(call, i, k) /\ IsInFrame(call, i)
    BY DEF IsStored, IsInFrame
  <2>2. {q \in Fields : IsStored(call, q[1], q[2])} = Fields
    BY <2>1
  <2>3. {j \in 1..OutputSize : IsInFrame(call, j)} = 1..OutputSize
    BY <2>1
  <2>. QED  BY <2>2, <2>3 DEF Staged
<1>9. host' = [host EXCEPT !.published = host.staged, !.staged = Nothing]
  BY DEF Answered
<1> HIDE DEF call, handle
<1>10. host'.published = Staged(call, handle) /\ host'.staged = Nothing /\ host'.rollbacks = 0
  BY <1>7, <1>9
<1>11. PublishedAll'
  <2>1. Fields' = Fields /\ OutputSize' = OutputSize
    BY <1>3, SamePlan
  <2>2. {StoredField(transaction.handles, p[1], p[2]) : p \in Fields}' = {StoredField(handle, p[1], p[2]) : p \in Fields}
    <3>1. transaction'.recipes = transaction.recipes /\ transaction'.values = transaction.values
      BY <1>3
    <3>2. {StoredField(transaction.handles, p[1], p[2]) : p \in Fields}'
            = {StoredField(transaction'.handles, p[1], p[2]) : p \in Fields}
      BY <2>1, <3>1 DEF StoredField, Contents
    <3>3. transaction'.handles = handle
      BY <1>3
    <3>. QED  BY <3>2, <3>3
  <2>3. {Output(transaction.handles, i) : i \in 1..OutputSize}' = {Output(handle, i) : i \in 1..OutputSize}
    BY <1>3, <2>1 DEF Output
  <2>4. transaction'.handles = [i \in DOMAIN transaction'.recipes |-> 100 + i]
    BY <1>3, <1>6
  <2>. QED  BY <1>8, <1>10, <2>2, <2>3, <2>4 DEF PublishedAll
<1>12. FrameIsComplete'
  BY <1>4, <1>5, <1>11, PublishedIsComplete, PTL
<1>13. MaterializationIsAtomic'
  BY <1>3, <1>10, <1>12 DEF MaterializationIsAtomic, Nothing
<1>. QED  BY <1>3, <1>4, <1>13 DEF PlaceInv

\* Whichever call fails, rollback_failure leaves nothing behind.
LEMMA CallFails ==
  ASSUME PlaceInv, transaction.status = "open",
         host' = rollback_failure(transaction.call),
         transaction' = [transaction EXCEPT !.status = "failed"]
  PROVE  PlaceInv'
<1>1. TransactionIsTyped /\ OpenInv
  BY DEF PlaceInv
<1>2. transaction'.status = "failed" /\ TransactionIsTyped'
  BY <1>1 DEF TransactionIsTyped
<1>3. host = [allocated |-> HandleCount(transaction.call),
              staged |-> Staged(transaction.call, transaction.handles),
              published |-> Nothing, rollbacks |-> 0]
  BY <1>1 DEF OpenInv
<1>4. host' = [host EXCEPT !.staged = Nothing, !.allocated = 0, !.rollbacks = @ + 1]
  BY DEF rollback_failure, RolledBack
<1>5. host'.published = Nothing /\ host'.staged = Nothing /\ host'.rollbacks = 1
  BY <1>3, <1>4
<1>. QED  BY <1>2, <1>5 DEF PlaceInv, MaterializationIsAtomic, Nothing

\* A plan that is accepted resolves every field, and opens the loops with
\* nothing at the host; any other call does not reach it.
LEMMA MaterializeOpens ==
  ASSUME PlaceInv, NEW frame \in Frame, NEW plan \in Plan, Materialize(frame, plan)
  PROVE  PlaceInv'
<1> DEFINE opened(status) ==
             [status |-> status, site |-> frame.site, values |-> frame.values, recipes |-> plan.recipes,
              handles |-> [i \in DOMAIN plan.recipes |-> 0], call |-> At("begin", 0, 0)]
<1>1. PICK status \in {"open", "refused"} :
        /\ status = "open" => Materializable(frame, plan)
        /\ transaction' = opened(status)
  BY DEF Materialize
<1>2. host' = host /\ host = IdleHost
  BY DEF Materialize, PlaceInv, MaterializationIsAtomic
<1>3. frame.values \in Seq(RecoveredValue) /\ plan.recipes \in Seq(ObjectRecipe)
  BY DEF Frame, Plan
<1>4. /\ transaction'.status = status /\ transaction'.values = frame.values /\ transaction'.recipes = plan.recipes
      /\ transaction'.handles = [i \in DOMAIN plan.recipes |-> 0] /\ transaction'.call = At("begin", 0, 0)
      /\ transaction' = [status |-> transaction'.status, site |-> transaction'.site,
                         values |-> transaction'.values, recipes |-> transaction'.recipes,
                         handles |-> transaction'.handles, call |-> transaction'.call]
  BY <1>1
<1>5. TransactionIsTyped'
  BY <1>3, <1>4 DEF TransactionIsTyped
<1>6. MaterializationIsAtomic'
  BY <1>2, <1>4 DEF MaterializationIsAtomic, IdleHost, Nothing
<1>7. ASSUME status = "open" PROVE OpenInv'
  <2>1. Materializable(frame, plan)
    BY <1>1, <1>7
  <2>2. FieldsResolve'
    <3> SUFFICES ASSUME NEW i \in DOMAIN plan.recipes, NEW k \in DOMAIN plan.recipes[i].fields
                 PROVE  LET input == plan.recipes[i].fields[k]
                        IN /\ input.source = "kObject" => \E o \in DOMAIN plan.recipes : plan.recipes[o].id = input.of
                           /\ input.source \notin {"kObject", "kConstant"} =>
                                \E v \in ToSet(frame.values) : v.slot = input.of
      BY <1>4 DEF FieldsResolve
    <3> DEFINE recipe == plan.recipes[i]
               input == recipe.fields[k]
    <3>1. recipe \in ToSet(plan.recipes) /\ input \in ToSet(recipe.fields)
      BY DEF ToSet
    <3>2. WellFormed(recipe)
      BY <2>1, <3>1 DEF Materializable, validate_plan
    <3>3. input.source \in {"kRecoveredSlot", "kConstant", "kObject"}
      BY <3>1, <3>2 DEF WellFormed
    <3>4. input.source = "kObject" => \E other \in ToSet(plan.recipes) : other.id = input.of
      BY <2>1, <3>1 DEF Materializable, validate_plan
    <3>5. input.source = "kRecoveredSlot" => \E v \in ToSet(frame.values) : v.slot = input.of
      BY <2>1, <3>1 DEF Materializable
    <3>6. \A other \in ToSet(plan.recipes) : \E o \in DOMAIN plan.recipes : other = plan.recipes[o]
      BY DEF ToSet
    <3> HIDE DEF recipe, input
    <3>7. input.source = "kObject" => \E o \in DOMAIN plan.recipes : plan.recipes[o].id = input.of
      BY <3>4, <3>6
    <3>8. input.source \notin {"kObject", "kConstant"} => \E v \in ToSet(frame.values) : v.slot = input.of
      BY <3>3, <3>5
    <3>. QED  BY <3>7, <3>8 DEF recipe, input
  <2>3. transaction'.call.name = "begin"
    BY <1>4 DEF At
  <2>4. Place(transaction.call)'
    BY <1>4 DEF Place, At
  <2>5. \A i, k : /\ ~HasHandle(transaction'.call, i) /\ ~IsStored(transaction'.call, i, k)
                  /\ ~IsInFrame(transaction'.call, i)
    BY <2>3 DEF HasHandle, IsStored, IsInFrame
  <2>6. transaction'.handles = [i \in DOMAIN transaction'.recipes |->
                                  IF HasHandle(transaction'.call, i) THEN 100 + i ELSE 0]
    BY <1>4, <2>5
  <2>7. Staged(transaction.call, transaction.handles)' = Nothing
    BY <2>3 DEF Staged, Nothing, IsStored, IsInFrame
  <2>8. HandleCount(transaction.call)' = 0
    BY <2>3 DEF HandleCount
  <2>9. host' = [allocated |-> HandleCount(transaction.call)',
                 staged |-> Staged(transaction.call, transaction.handles)',
                 published |-> Nothing, rollbacks |-> 0]
    BY <1>2, <2>7, <2>8 DEF IdleHost
  <2>. QED  BY <2>2, <2>4, <2>6, <2>9 DEF OpenInv, HasHandle, Nothing
<1>. QED  BY <1>4, <1>5, <1>6, <1>7 DEF PlaceInv

\* Before materialize_frame is called nothing has happened.
LEMMA PlaceInvInit == MaterializationInit => PlaceInv
<1> SUFFICES ASSUME MaterializationInit PROVE PlaceInv
  OBVIOUS
<1>1. transaction.status = "none" /\ host = IdleHost
  BY DEF MaterializationInit, NoTransaction
<1>2. TransactionIsTyped
  BY DEF MaterializationInit, NoTransaction, TransactionIsTyped
<1>. QED  BY <1>1, <1>2 DEF PlaceInv, MaterializationIsAtomic

\* Every step keeps the invariant.
LEMMA PlaceInvStep == PlaceInv /\ [MaterializationNext]_materializationVars => PlaceInv'
<1> SUFFICES ASSUME PlaceInv, [MaterializationNext]_materializationVars PROVE PlaceInv'
  OBVIOUS
<1>1. ASSUME NEW frame \in Frame, NEW plan \in Plan, Materialize(frame, plan) PROVE PlaceInv'
  BY <1>1, MaterializeOpens
<1>2. CASE Callback
  <2> DEFINE call == transaction.call
  <2>1. transaction.status = "open"
    BY <1>2 DEF Callback
  <2>2. CASE /\ host' = Answered(call)
             /\ transaction' = [transaction EXCEPT
                  !.status = IF call.name = "commit" THEN "ok" ELSE "open",
                  !.handles = Allocated(call),
                  !.call = Following(call)]
    <3>1. CASE call.name = "commit"
      BY <2>1, <2>2, <3>1, CommitSucceeds
    <3>2. CASE call.name # "commit"
      BY <2>1, <2>2, <3>2, CallSucceeds
    <3>. QED  BY <3>1, <3>2
  <2>3. CASE host' = rollback_failure(call) /\ transaction' = [transaction EXCEPT !.status = "failed"]
    BY <2>1, <2>3, CallFails
  <2>. QED  BY <1>2, <2>2, <2>3 DEF Callback
<1>3. CASE UNCHANGED materializationVars
  <2>1. transaction' = transaction /\ host' = host
    BY <1>3 DEF materializationVars
  <2>2. TransactionIsTyped'
    BY <2>1 DEF PlaceInv, TransactionIsTyped
  <2>3. MaterializationIsAtomic'
    BY <2>1 DEF PlaceInv, MaterializationIsAtomic, FrameIsComplete, IsField, Nothing, IdleHost
  <2>4. transaction.status = "open" => OpenInv'
    <3> SUFFICES ASSUME OpenInv PROVE OpenInv'
      BY DEF PlaceInv
    <3>1. /\ FieldsResolve' <=> FieldsResolve
          /\ Place(transaction.call)' <=> Place(transaction'.call)
          /\ HandleCount(transaction.call)' = HandleCount(transaction'.call)
          /\ Staged(transaction.call, transaction.handles)' = Staged(transaction'.call, transaction'.handles)
      BY <2>1, SamePlan
    <3>. QED  BY <2>1, <3>1 DEF OpenInv, HasHandle, Nothing
  <2>. QED  BY <2>1, <2>2, <2>3, <2>4 DEF PlaceInv
<1>. QED  BY <1>1, <1>2, <1>3 DEF MaterializationNext

\* materialize_frame is all or nothing for every frame and every plan, whichever
\* callback fails: a published frame has the rebuilt values and one object for
\* each recipe, cycles included, a failure leaves nothing behind and is rolled
\* back exactly once, and a plan that does not fit never reaches the host.
THEOREM FramesAreAllOrNothing == MaterializationSpec => []MaterializationIsAtomic
<1>1. PlaceInv => MaterializationIsAtomic
  BY DEF PlaceInv
<1>. QED  BY <1>1, PlaceInvInit, PlaceInvStep, PTL DEF MaterializationSpec
=============================================================================
