-------------------------- MODULE ManagedInvocation --------------------------
(***************************************************************************)
(* What a managed invocation (CompiledFunction::invoke in                  *)
(* src/jit/compiler.cpp) binds to its execution context, and who keeps     *)
(* that alive: fast-call tables that other threads replace meanwhile,      *)
(* patch cells, and the mappings of the functions a table points to        *)
(* (src/jit/executable_memory.cpp).  Helpers called from native code may   *)
(* invoke again on the same context.                                       *)
(*                                                                         *)
(* A thread owns one context.  A function is destroyed, and its mapping    *)
(* released, when nothing refers to it any more, so being alive is a       *)
(* matter of who refers to what (Held) and not a variable.  A table never  *)
(* changes, so it is its contents.                                         *)
(***************************************************************************)
EXTENDS Naturals, Sequences, FiniteSets, SequencesExt

CONSTANTS
  Thread,        \* threads that invoke
  Binder,        \* threads that bind and clear fast calls
  Caller,        \* compiled functions that stay cached
  Target,        \* compiled functions whose handles come and go
  fast_calls,    \* the signatures of each function's fast calls
  patch_cells,   \* functions with patch cells
  assumptions,   \* functions with assumptions
  signature,     \* the signature of each function
  MaxDepth       \* bound on nested invocations

\* "none" is what the model writes for a null pointer and a free mutex.
ASSUME FunctionsAssumption ==
  /\ Caller \cap Target = {}
  /\ "none" \notin Caller \cup Target \cup Binder
  /\ DOMAIN fast_calls = Caller \cup Target /\ DOMAIN signature = Caller \cup Target
  /\ patch_cells \subseteq Caller \cup Target
  /\ assumptions \subseteq Caller \cup Target
  /\ \A f \in Caller \cup Target : fast_calls[f] \in Seq({signature[g] : g \in Caller \cup Target})

Function == Caller \cup Target
NoFunction == "none"
NoTable == [entries |-> <<>>, leases |-> <<>>]

VARIABLES
  mapping,   \* the pages of each function
  handles,   \* functions that a handle, or the cache, refers to
  current,   \* fast_call_targets of each function
  mutex,     \* who holds each function's fast_call_mutex
  binder,    \* bind_fast_call or clear_fast_call of each binder
  stack,     \* the invocations of each thread, outermost first
  context,   \* what each context has bound
  requested  \* history: the last completed bind or clear of each call
vars == <<mapping, handles, current, mutex, binder, stack, context, requested>>

NoUpdate == [function |-> NoFunction, index |-> 0, target |-> NoFunction, table |-> NoTable]
Unbound(f) == [i \in DOMAIN fast_calls[f] |-> NoFunction]

\* Callers are compiled, with nothing bound.
Init ==
  /\ mapping = [f \in Function |-> IF f \in Caller THEN "executable" ELSE "unmapped"]
  /\ handles = Caller
  /\ current = [f \in Function |-> [entries |-> Unbound(f), leases |-> Unbound(f)]]
  /\ mutex = [f \in Function |-> NoFunction]
  /\ binder = [b \in Binder |-> NoUpdate]
  /\ stack = [t \in Thread |-> <<>>]
  /\ context = [t \in Thread |-> [patch_cells |-> NoFunction, fast_call_entries |-> NoTable]]
  /\ requested = [f \in Function |-> Unbound(f)]

-----------------------------------------------------------------------------
(***************************************************************************)
(* Shared ownership.                                                       *)
(***************************************************************************)

\* A table is kept by its function, by every invocation that loaded it, and by
\* the update that copies it.
TableHeld(table) ==
  \/ \E f \in Function : current[f] = table
  \/ \E b \in Binder : binder[b].table = table
  \/ \E t \in Thread : \E k \in DOMAIN stack[t] : stack[t][k].fast_call_targets = table

Leased(table) == ToSet(table.leases)

\* A function is kept by a handle, by the leases of a table, and by a bind.
Held(f) ==
  \/ f \in handles
  \/ \E b \in Binder : binder[b].target = f \/ f \in Leased(binder[b].table)
  \/ \E g \in Function : f \in Leased(current[g])
  \/ \E t \in Thread : \E k \in DOMAIN stack[t] : f \in Leased(stack[t][k].fast_call_targets)

\* native_entry and requires_context: what may be called without a context.
ContextFree(f) == fast_calls[f] = <<>> /\ f \notin patch_cells \cup assumptions

-----------------------------------------------------------------------------
(***************************************************************************)
(* ExecutableMemory::publish.                                              *)
(***************************************************************************)

\* Pages are mapped writable and filled.
Map(f) ==
  /\ mapping[f] = "unmapped"
  /\ mapping' = [mapping EXCEPT ![f] = "writable"]
  /\ UNCHANGED <<handles, current, mutex, binder, stack, context, requested>>

\* They become executable and the compiler hands the function out, or the call
\* fails and they are unmapped.
Protect(f) ==
  /\ mapping[f] = "writable"
  /\ \/ mapping' = [mapping EXCEPT ![f] = "executable"] /\ handles' = handles \cup {f}
     \/ mapping' = [mapping EXCEPT ![f] = "unmapped"] /\ UNCHANGED handles
  /\ UNCHANGED <<current, mutex, binder, stack, context, requested>>

\* The cache evicts the function, or the last handle outside it goes.
DropHandle(f) ==
  /\ f \in handles \cap Target
  /\ handles' = handles \ {f}
  /\ UNCHANGED <<mapping, current, mutex, binder, stack, context, requested>>

-----------------------------------------------------------------------------
(***************************************************************************)
(* bind_fast_call and clear_fast_call (a bind of no function).             *)
(***************************************************************************)

Fits(f, index, g) ==
  /\ g # f /\ g \in handles /\ mapping[g] # "unmapped"
  /\ ContextFree(g)
  /\ signature[g] = fast_calls[f][index]

\* A variant without the mutex.
LockNothing(b, f, index, g) ==
  /\ binder[b] = NoUpdate
  /\ g = NoFunction \/ Fits(f, index, g)
  /\ binder' = [binder EXCEPT ![b] = [function |-> f, index |-> index, target |-> g, table |-> current[f]]]
  /\ UNCHANGED <<mapping, handles, current, mutex, stack, context, requested>>

\* The lock is taken and the current table loaded.
Lock(b, f, index, g) ==
  /\ binder[b] = NoUpdate /\ mutex[f] = NoFunction
  /\ g = NoFunction \/ Fits(f, index, g)
  /\ mutex' = [mutex EXCEPT ![f] = b]
  /\ binder' = [binder EXCEPT ![b] = [function |-> f, index |-> index, target |-> g, table |-> current[f]]]
  /\ UNCHANGED <<mapping, handles, current, stack, context, requested>>

\* A variant whose copy does not keep the target alive.
ReplacementWithoutLease(table, index, g) == [table EXCEPT !.entries[index] = g]

\* The table with one entry and its lease replaced.
Replacement(table, index, g) ==
  [entries |-> [table.entries EXCEPT ![index] = g], leases |-> [table.leases EXCEPT ![index] = g]]

\* A copy with the change takes the place of the table; the lock is released.
Publish(b) ==
  LET update == binder[b]
  IN /\ update # NoUpdate
     /\ current' = [current EXCEPT ![update.function] = Replacement(update.table, update.index, update.target)]
     /\ requested' = [requested EXCEPT ![update.function][update.index] = update.target]
     /\ mutex' = [mutex EXCEPT ![update.function] = NoFunction]
     /\ binder' = [binder EXCEPT ![b] = NoUpdate]
     /\ UNCHANGED <<mapping, handles, stack, context>>

\* The copy cannot be allocated.
PublishOutOfMemory(b) ==
  LET update == binder[b]
  IN /\ update # NoUpdate
     /\ mutex' = [mutex EXCEPT ![update.function] = NoFunction]
     /\ binder' = [binder EXCEPT ![b] = NoUpdate]
     /\ UNCHANGED <<mapping, handles, current, stack, context, requested>>

-----------------------------------------------------------------------------
(***************************************************************************)
(* invoke.                                                                 *)
(***************************************************************************)

Top(t) == Last(stack[t])
InNative(t) == stack[t] # <<>> /\ Top(t).step = "native"

\* The table is loaded once; a call that is not bound refuses the invocation.
\* Otherwise the context's bindings are saved and replaced.  `promised` and
\* `reached` are history: the entries loaded, and the calls made.
Invoke(t, f) ==
  /\ Len(stack[t]) < MaxDepth /\ (stack[t] = <<>> \/ InNative(t))
  /\ NoFunction \notin ToSet(current[f].entries)
  /\ stack' = [stack EXCEPT ![t] = Append(@,
       [function |-> f, fast_call_targets |-> current[f],
        previous_patch_cells |-> context[t].patch_cells,
        previous_fast_call_entries |-> context[t].fast_call_entries,
        step |-> IF f \in assumptions THEN "activating" ELSE "native",
        promised |-> current[f].entries, reached |-> {}])]
  /\ context' = [context EXCEPT ![t] =
       [patch_cells |-> IF f \in patch_cells THEN f ELSE @.patch_cells,
        fast_call_entries |-> IF current[f] = NoTable THEN @.fast_call_entries ELSE current[f]]]
  /\ UNCHANGED <<mapping, handles, current, mutex, binder, requested>>

\* A variant that does not restore the fast calls.
RestoreCellsOnly(t) ==
  LET frame == Top(t)
  IN /\ stack' = [stack EXCEPT ![t] = Front(@)]
     /\ context' = [context EXCEPT
          ![t].patch_cells = IF frame.function \in patch_cells THEN frame.previous_patch_cells ELSE @]
     /\ UNCHANGED <<mapping, handles, current, mutex, binder, requested>>

\* restore_runtime_bindings, and invoke returns.
Restore(t) ==
  LET frame == Top(t)
  IN /\ stack' = [stack EXCEPT ![t] = Front(@)]
     /\ context' = [context EXCEPT ![t] =
          [patch_cells |-> IF frame.function \in patch_cells THEN frame.previous_patch_cells
                           ELSE @.patch_cells,
           fast_call_entries |-> IF frame.fast_call_targets = NoTable THEN @.fast_call_entries
                                 ELSE frame.previous_fast_call_entries]]
     /\ UNCHANGED <<mapping, handles, current, mutex, binder, requested>>

\* The assumptions are activated, or one is invalid, or memory runs out.
Activate(t) ==
  /\ stack[t] # <<>> /\ Top(t).step = "activating"
  /\ \/ /\ stack' = [stack EXCEPT ![t] = [@ EXCEPT ![Len(stack[t])].step = "native"]]
        /\ UNCHANGED <<mapping, handles, current, mutex, binder, context, requested>>
     \/ Restore(t)

\* Native code calls through the entries its context has.  A table that is gone,
\* or a function whose pages are gone or cannot be executed, is nowhere.
FastCall(t, index) ==
  LET table == context[t].fast_call_entries
      target == IF TableHeld(table) /\ index \in DOMAIN table.entries THEN table.entries[index] ELSE NoFunction
      called == IF target # NoFunction /\ Held(target) /\ mapping[target] = "executable"
                THEN target ELSE "nowhere"
  IN /\ InNative(t)
     /\ index \in DOMAIN fast_calls[Top(t).function]
     /\ stack' = [stack EXCEPT ![t] =
          [@ EXCEPT ![Len(stack[t])] = [Top(t) EXCEPT !.reached = @ \cup {<<index, called>>}]]]
     /\ UNCHANGED <<mapping, handles, current, mutex, binder, context, requested>>

\* Native code returns or leaves, and its dependencies are checked again: every
\* way out restores.
Return(t) == InNative(t) /\ Restore(t)

-----------------------------------------------------------------------------
Update(b) ==
  \/ \E f \in Caller : \E index \in DOMAIN fast_calls[f] :
       \E g \in Function \cup {NoFunction} : Lock(b, f, index, g)
  \/ Publish(b) \/ PublishOutOfMemory(b)
Invocation(t) ==
  \/ \E f \in Caller : Invoke(t, f)
  \/ Activate(t) \/ Return(t)
  \/ \E index \in UNION {DOMAIN fast_calls[f] : f \in Caller} : FastCall(t, index)

Next ==
  \/ \E f \in Target : Map(f) \/ Protect(f) \/ DropHandle(f)
  \/ \E b \in Binder : Update(b)
  \/ \E t \in Thread : Invocation(t)

Spec == Init /\ [][Next]_vars

-----------------------------------------------------------------------------
(* Properties.                                                              *)

\* "It never combines an entry pointer with another generation's lifetime
\* lease": every fast call of an invocation reaches the function that its table
\* named when the invocation began, and that function's code is there, however
\* often the call is bound and cleared and handles are dropped meanwhile.
CallsReachTheirTargets ==
  \A t \in Thread : \A k \in DOMAIN stack[t] :
    \A call \in stack[t][k].reached : call[2] = stack[t][k].promised[call[1]]

\* f is the function of the innermost of the first k frames that has patch
\* cells, or no function if none has.
InnermostCells(frames, k, f) ==
  \/ /\ f = NoFunction
     /\ \A j \in 1..k : frames[j].function \notin patch_cells
  \/ \E j \in 1..k : /\ frames[j].function = f /\ f \in patch_cells
                     /\ \A i \in j+1..k : frames[i].function \notin patch_cells

\* The same for the table of the innermost frame whose function has fast calls.
InnermostTable(frames, k, table) ==
  \/ /\ table = NoTable
     /\ \A j \in 1..k : fast_calls[frames[j].function] = <<>>
  \/ \E j \in 1..k : /\ frames[j].fast_call_targets = table
                     /\ fast_calls[frames[j].function] # <<>>
                     /\ \A i \in j+1..k : fast_calls[frames[i].function] = <<>>

\* "Restores the prior binding on every return or diagnosed-exit path": a
\* context has the bindings of the innermost invocation that brought some, and
\* none when nothing runs.
BindingsFollowInvocations ==
  \A t \in Thread :
    /\ InnermostCells(stack[t], Len(stack[t]), context[t].patch_cells)
    /\ InnermostTable(stack[t], Len(stack[t]), context[t].fast_call_entries)

\* No bind or clear is lost to another that ran beside it.
UpdatesAreKept ==
  \A f \in Function : current[f].entries = requested[f]

=============================================================================
