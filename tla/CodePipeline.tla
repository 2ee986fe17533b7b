---------------------------- MODULE CodePipeline ----------------------------
(***************************************************************************)
(* A function from its builder to its native code.  A client builds a      *)
(* program call by call, compiles it (src/jit/compiler.cpp) at some level  *)
(* for some target, and runs it; the interpreter runs the same function,   *)
(* and the function that was lowered, beside the native code, a block at a *)
(* time.  A function with blocks is entered from an interpreter's frame,   *)
(* and when a guard fails the frame is rebuilt from what the native code   *)
(* captured.  The other pieces are the modules this one extends.           *)
(***************************************************************************)
EXTENDS Compilation, Materialization

CONSTANTS MaximumBlockExecutions, Limits,
          kMaximumValues,  \* of a frame to enter with
          Recipes,   \* lists of objects to rebuild beside a frame
          Programs   \* what is built, with the frames requested and the inputs it runs with

VARIABLES phase, program, builder, compiled, inputs, source, lowered, native
pipelineVars == <<phase, program, builder, compiled, inputs, source, lowered, native>>
vars == <<pipelineVars, materializationVars>>

TargetMachines == [x86_64 |-> x86_64, aarch64 |-> aarch64, riscv64 |-> riscv64]
Chosen == Programs[program]
Straight == Chosen.kind = "straight"

\* A call with the values its operands name.
Resolved(c) ==
  LET value(i) == IF i = 0 THEN 0 ELSE builder.returned[i]
  IN [c EXCEPT !.lhs = value(@), !.rhs = value(@), !.aux = value(@),
               !.args = [i \in DOMAIN @ |-> value(@[i])], !.false_args = [i \in DOMAIN @ |-> value(@[i])]]

SlotCalls == {"create_frame_slot", "create_trusted_object", "create_patch_cell", "create_fast_call"}
straight_call(c) ==
  CASE c.method \in SlotCalls -> create_slots(builder, c)
    [] c.method = "set_return" -> set_return(builder, c.lhs)
    [] c.method = "atomic_compare_exchange" -> CompareExchange(builder, c)
    [] OTHER -> append(builder, NodeOf(builder.function, c))

EdgeTo(target, args) == IF target = 0 THEN NoEdge ELSE [target |-> target, arguments |-> args]
TerminatorMethod == [set_return |-> "kReturn", jump |-> "kJump", branch |-> "kBranch"]
control_call(c) ==
  CASE c.method \in SlotCalls -> create_slots(builder, c)
    [] c.method = "create_block" -> create_block(builder, c.types)
    [] c.method = "set_insertion_block" -> set_insertion_block(builder, c.imm)
    [] c.method \in DOMAIN TerminatorMethod ->
         set_terminator(builder, [op |-> TerminatorMethod[c.method], value |-> c.lhs,
                                  true_edge |-> EdgeTo(c.true_target, c.args),
                                  false_edge |-> EdgeTo(c.false_target, c.false_args)])
    [] c.method = "atomic_compare_exchange" -> atomic_compare_exchange(builder, c)
    [] OTHER -> append_node(builder, built_node(builder.function, c))

-----------------------------------------------------------------------------

NoInputs == [args |-> <<>>, answers |-> <<>>]
NothingCompiled == [status |-> "none", requested |-> <<>>]

Init ==
  /\ phase = "building"
  /\ program \in DOMAIN Programs
  /\ builder = [(IF Straight THEN FunctionBuilder(Chosen.types, Chosen.regions)
                 ELSE ControlFlowBuilder(Chosen.types, Chosen.regions)) EXCEPT !.refused = FALSE]
               @@ [made |-> 0]
  /\ compiled = NothingCompiled
  /\ inputs = NoInputs
  /\ source = Running /\ lowered = Running /\ native = Running
  /\ transaction = NoTransaction /\ host = IdleHost

\* The next call of the script.  A terminator or an edge that the builder refuses
\* ends the attempt.
Build ==
  /\ phase = "building" /\ builder.made < Len(Chosen.script)
  /\ \E c \in Chosen.script[builder.made + 1] :
       builder' = [(IF Straight THEN straight_call(Resolved(c)) ELSE control_call(Resolved(c))) EXCEPT !.made = @ + 1]
  /\ phase' = IF builder'.refused THEN "done" ELSE "building"
  /\ UNCHANGED <<program, compiled, inputs, source, lowered, native, materializationVars>>

\* The requested table with the values it names.
Requested(table) ==
  [i \in DOMAIN table |->
     [table[i] EXCEPT !.recovery =
        [k \in DOMAIN @ |-> IF @[k].source = "kCapturedValue" THEN [@[k] EXCEPT !.value = builder.returned[@]]
                            ELSE @[k]]]]

Compile ==
  /\ phase = "building" /\ builder.made = Len(Chosen.script)
  /\ \E table \in Chosen.requests, level \in Chosen.levels, limits \in Limits,
        name \in (IF Straight THEN {"x86_64"} ELSE DOMAIN TargetMachines) :
       LET requested == Requested(table)
       IN compiled' = compile(builder.function, requested, <<9>>,
                              [field \in DOMAIN (measured_function(builder.function)
                                                 @@ measured_metadata(builder.function, requested, <<>>)) |-> limits],
                              level, TargetMachines[name]) @@ [requested |-> requested]
  /\ phase' = IF compiled'.status = "kOk" THEN "compiled" ELSE "done"
  /\ UNCHANGED <<program, builder, inputs, source, lowered, native, materializationVars>>

-----------------------------------------------------------------------------
(* On-stack replacement (src/runtime/on_stack_replacement.cpp): the frame of *)
(* an interpreter becomes the arguments of a compiled function that is       *)
(* entered at one of its loops.                                              *)

\* The items of a frame have a slot, a type and a value, those of a plan a slot
\* and a type.
OsrFrame(site) == [entry_site |-> site, values |-> <<>>]
OsrEntryPlan(site) == [entry_site |-> site, bindings |-> <<>>]

Extends(items, item) ==
  /\ item.type \in {"kWord", "kFloat64"}
  /\ Len(items) < kMaximumValues
  /\ \A other \in ToSet(items) : other.slot # item.slot

\* OsrFrame::add and OsrEntryPlan::add_argument; what is refused is left out.
add_value(frame, item) == IF Extends(frame.values, item) THEN [frame EXCEPT !.values = Append(@, item)] ELSE frame
add_argument(plan, item) == IF Extends(plan.bindings, item) THEN [plan EXCEPT !.bindings = Append(@, item)] ELSE plan

\* OsrEntryPlan::marshal, in the order of the function's parameters.
marshal(frame, plan, parameter_types) ==
  LET found(binding) == SelectSeq(frame.values, LAMBDA item : item.slot = binding.slot /\ item.type = binding.type)
      ok == /\ frame.entry_site = plan.entry_site
            /\ Len(parameter_types) = Len(plan.bindings)
            /\ \A i \in DOMAIN plan.bindings :
                 plan.bindings[i].type = parameter_types[i] /\ found(plan.bindings[i]) # <<>>
  IN [ok |-> ok, values |-> IF ok THEN [i \in DOMAIN plan.bindings |-> found(plan.bindings[i])[1].value] ELSE <<>>]

\* The plan that enters the function at one of its loops (site 5).
EntryPlan(types) ==
  FoldLeft(LAMBDA plan, i : add_argument(plan, [slot |-> Len(types) + 1 - i, type |-> types[i]]),
           OsrEntryPlan(5), [i \in DOMAIN types |-> i])
OfferedFrame(items) == FoldLeft(add_value, OsrFrame(5), items)

\* The frames an interpreter offers at the head of a loop: its slots in another
\* order than the parameters, all of them or not.
InterpreterFrames(types, args) ==
  LET complete == [i \in DOMAIN args |-> [slot |-> i, type |-> types[Len(args) + 1 - i], value |-> args[Len(args) + 1 - i]]]
  IN {complete, Tail(complete)}

\* invoke, or enter_osr for a function with blocks.  The interpreter has the
\* values themselves.
Enter ==
  /\ phase = "compiled"
  /\ \E args \in Chosen.arguments, answers \in Chosen.answers :
     \E items \in (IF Straight THEN {<<>>} ELSE InterpreterFrames(Chosen.types, args)) :
       LET entered == IF Straight THEN [ok |-> TRUE, values |-> args]
                      ELSE marshal(OfferedFrame(items), EntryPlan(Chosen.types), Chosen.types)
       IN IF ~entered.ok
          THEN phase' = "done" /\ UNCHANGED <<inputs, source, lowered, native>>
          ELSE /\ phase' = "running"
               /\ inputs' = [args |-> args, answers |-> answers]
               /\ source' = InitialRun(builder.function, args)
               /\ lowered' = InitialRun(compiled.lowered, args)
               /\ native' = IF Straight THEN Running
                            ELSE InitialMachine(compiled.lowered, compiled.code, entered.values)
  /\ UNCHANGED <<program, builder, compiled, materializationVars>>

interpret(f, run) ==
  IF run.outcome # Running THEN run
  ELSE IF IsStraight(f) THEN evaluate(f, inputs.answers, run)
  ELSE evaluate_block(f, inputs.answers, MaximumBlockExecutions, run)

\* A block of each.
Execute ==
  /\ phase = "running"
  /\ source.outcome = Running \/ lowered.outcome = Running \/ (~Straight /\ native.run.outcome = Running)
  /\ source' = interpret(builder.function, source)
  /\ lowered' = interpret(compiled.lowered, lowered)
  /\ native' = IF Straight \/ native.run.outcome # Running THEN native
               ELSE run_native_block(compiled.lowered, compiled.code, inputs.answers, MaximumBlockExecutions, native)
  /\ UNCHANGED <<phase, program, builder, compiled, inputs, materializationVars>>

\* The frame that reconstruct_deoptimization rebuilds.
RebuiltFrame ==
  [site |-> native.run.outcome.site,
   values |-> reconstruct(compiled.table, native.run.outcome.site, inputs.args, native.run.outcome.value,
                          native.captured_values)]

\* materialize_deoptimization, for a frame that was asked for.
Deoptimize ==
  /\ phase = "running" /\ ~Straight /\ native.run.outcome.kind = "left"
  /\ Find(compiled.requested, native.run.outcome.site) # <<>>
  /\ \E recipes \in Recipes :
       Materialize(RebuiltFrame, FoldLeft(add_recipe, EmptyPlan(native.run.outcome.site), recipes))
  /\ UNCHANGED pipelineVars

HostCallback == Callback /\ UNCHANGED pipelineVars

Next == Build \/ Compile \/ Enter \/ Execute \/ Deoptimize \/ HostCallback
Spec == Init /\ [][Next]_vars

-----------------------------------------------------------------------------

\* compile never blames its own passes: a function that verifies, with frames
\* that name values available at their guards, is optimized, lowered and has its
\* captured values resolved; only limits and the client's own mistakes refuse it.
NoPassFails == compiled.status # "kCodeGenerationFailed"

\* A function that verifies never reads a value that has not been computed on
\* the path taken, and what the optimizer makes of it does not either.
ReadsAreComputed == phase = "running" => source.reads_are_computed /\ lowered.reads_are_computed

\* The optimized function asks its surroundings the same questions in the same
\* order as the one that was built, and ends the same way, block for block.
OptimizedRunMatches ==
  phase = "running" =>
    /\ lowered.trace = source.trace /\ lowered.outcome = source.outcome
    /\ lowered.executions = source.executions

\* So does the native code, whose values move between registers and slots and
\* through the parallel copies of its edges.
NativeRunMatches ==
  phase = "running" /\ ~Straight =>
    /\ native.run.trace = source.trace /\ native.run.outcome = source.outcome
    /\ native.run.executions = source.executions

\* Where native code leaves, every value of the stack map is the one computed.
CapturedValuesAreCurrent ==
  phase = "running" /\ ~Straight /\ native.run.outcome.kind = "left" =>
    \E v \in DOMAIN compiled.lowered.nodes :
      LET live == compiled.code.stack_maps[v]
      IN /\ is_runtime_exit(compiled.lowered.nodes[v].op) /\ compiled.lowered.nodes[v].imm = native.run.outcome.site
         /\ native.captured_values = [k \in DOMAIN live |-> lowered.values[live[k]]]

\* The frame rebuilt after a failed guard holds the values that the function as
\* built had there.
FrameIsRebuilt ==
  phase = "running" /\ ~Straight /\ native.run.outcome.kind = "left" =>
    \A record \in ToSet(Find(compiled.requested, native.run.outcome.site)) :
      RebuiltFrame.values
      = [i \in DOMAIN record.recovery |->
           [slot |-> record.recovery[i].slot, type |-> record.recovery[i].type,
            value |-> IF record.recovery[i].source = "kCapturedValue" THEN source.values[record.recovery[i].value]
                      ELSE source.outcome.value]]

=============================================================================
