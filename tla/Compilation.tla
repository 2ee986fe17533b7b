----------------------------- MODULE Compilation -----------------------------
(***************************************************************************)
(* Compiler::compile (src/jit/compiler.cpp): limits, verification,         *)
(* optimization, the deoptimization table and the stack maps behind it,    *)
(* and the frame that DeoptimizationTable::reconstruct                     *)
(* (src/runtime/deoptimization.cpp) rebuilds after an exit.  A straight    *)
(* function is one without blocks.  Assumptions are the sites of valid     *)
(* dependencies; the values of a frame come from an argument, a constant,  *)
(* the exit value or a captured value.                                     *)
(***************************************************************************)
EXTENDS NativeExecution

IsStraight(f) == f.blocks = <<>>

\* `value` is an argument's index, a constant, or the captured value's id.
Recovery(slot, type, source, value) ==
  [slot |-> slot, type |-> type, source |-> source, value |-> value, capture_index |-> 0]
Record(site, reason, recovery) == [site |-> site, reason |-> reason, recovery |-> recovery]
Captured(record) == SelectSeq(record.recovery, LAMBDA operation : operation.source = "kCapturedValue")
Find(table, site) == SelectSeq(table, LAMBDA record : record.site = site)
Distinct(values) == FoldLeft(LAMBDA seen, v : IF Contains(seen, v) THEN seen ELSE Append(seen, v), <<>>, values)

\* DeoptimizationTable::add: sites and slots are named once, values are scalars.
add_record(table, record) ==
  LET slots == [i \in DOMAIN record.recovery |-> record.recovery[i].slot]
  IN IF /\ Find(table, record.site) = <<>> /\ IsInjective(slots)
        /\ \A operation \in ToSet(record.recovery) :
             /\ operation.type \in {"kWord", "kFloat64"}
             /\ operation.source = "kCapturedValue" => operation.value # 0
     THEN Append(table, record) ELSE table
validate_table(table, parameter_count) ==
  \A record \in ToSet(table) : \A operation \in ToSet(record.recovery) :
    operation.source = "kArgument" => operation.value <= parameter_count

guard_value(f, site) ==
  LET guards == {v \in DOMAIN f.nodes : is_nonzero_guard(f.nodes[v].op) /\ f.nodes[v].imm = site}
  IN IF guards = {} THEN 0 ELSE Min(guards)
has_guard_site(f, site) == guard_value(f, site) # 0
has_runtime_exit_site(f, site) ==
  \E v \in DOMAIN f.nodes : is_runtime_exit(f.nodes[v].op) /\ f.nodes[v].imm = site

value_available(f, v, exit) ==
  IF IsStraight(f) THEN v \in 1..exit-1 ELSE control_value_available(f, v, exit)

prepare_optimization_exit_states(f, requested) ==
  LET state(record) == [exit |-> guard_value(f, record.site),
                        live_values |-> Distinct([i \in DOMAIN Captured(record) |-> Captured(record)[i].value])]
      states == [i \in DOMAIN requested |-> state(requested[i])]
  IN [ok |-> \A record \in ToSet(requested) : \A operation \in ToSet(Captured(record)) :
               /\ guard_value(f, record.site) # 0
               /\ value_available(f, operation.value, guard_value(f, record.site))
               /\ value_type(f, operation.value) = operation.type,
      exit_states |-> SelectSeq(states, LAMBDA s : s.live_values # <<>>)]

-----------------------------------------------------------------------------

\* The frame of a guard that nothing was requested for: its condition alone.
fallback_record(input, n) ==
  Record(n.imm, "kGuardFailed",
         <<Recovery(Len(input.parameter_types) + 1,
                    IF n.op = "kGuardWordNonzero" THEN "kWord" ELSE "kFloat64", "kExitValue", 0)>>)
assumption_record(input, site) ==
  Record(site, "kAssumptionInvalidated",
         [i \in DOMAIN input.parameter_types |-> Recovery(i, input.parameter_types[i], "kArgument", i)])
SuppliedOr(requested, site, fallback) ==
  IF Find(requested, site) = <<>> THEN fallback ELSE Find(requested, site)[1]

append_assumption_deoptimization(input, assumptions, requested, table) ==
  FoldLeft(LAMBDA t, site : add_record(t, SuppliedOr(requested, site, assumption_record(input, site))),
           table, assumptions)

\* Only the guards that are left keep a record.
prepare_deoptimization(input, lowered, requested, assumptions) ==
  LET guards == SelectSeq(lowered.nodes, LAMBDA n : is_nonzero_guard(n.op))
      kept == FoldLeft(LAMBDA t, n : IF Find(t, n.imm) # <<>> THEN t
                                     ELSE add_record(t, SuppliedOr(requested, n.imm, fallback_record(input, n))),
                       <<>>, guards)
  IN [ok |-> /\ validate_table(requested, Len(input.parameter_types))
             /\ \A record \in ToSet(requested) :
                  has_guard_site(input, record.site) \/ Contains(assumptions, record.site)
             /\ \A site \in ToSet(assumptions) :
                  /\ ~has_runtime_exit_site(input, site)
                  /\ \A record \in ToSet(Find(requested, site)) : record.reason = "kAssumptionInvalidated",
      table |-> append_assumption_deoptimization(input, assumptions, requested, kept)]

\* What becomes of one captured value.  For a control-flow function the request is
\* checked against the input once more.
requirement_status(input, lowered, record, operation, mapping) ==
  LET exit == guard_value(lowered, record.site)
      input_exit == guard_value(input, record.site)
      asked == IF IsStraight(input) THEN exit # 0
               ELSE /\ input_exit # 0 /\ value_available(input, operation.value, input_exit)
                    /\ value_type(input, operation.value) = operation.type
      kept == LET value == mapping[operation.value]
              IN /\ exit # 0 /\ value_available(lowered, value, exit)
                 /\ value_type(input, operation.value) = operation.type
                 /\ value_type(lowered, value) = operation.type
  IN IF ~asked THEN "kInvalidArgument" ELSE IF ~kept THEN "kCodeGenerationFailed" ELSE "kOk"

\* Where every captured value went; the first that did not go well gives the status.
prepare_stack_map_requirements(input, lowered, table, mapping) ==
  LET kept == SelectSeq(table, LAMBDA record : Captured(record) # <<>>)
      values(record) == Distinct([i \in DOMAIN Captured(record) |-> mapping[Captured(record)[i].value]])
      statuses == FlattenSeq([i \in DOMAIN kept |-> [k \in DOMAIN Captured(kept[i]) |->
                    requirement_status(input, lowered, kept[i], Captured(kept[i])[k], mapping)]])
  IN [status |-> Head(Append(SelectSeq(statuses, LAMBDA status : status # "kOk"), "kOk")),
      requirements |-> [site \in {kept[i].site : i \in DOMAIN kept} |-> values(Find(kept, site)[1])],
      bindings |-> [pair \in UNION {{<<record.site, operation.value>> : operation \in ToSet(Captured(record))} :
                                      record \in ToSet(kept)} |-> mapping[pair[2]]]]

\* A variant of resolve_deoptimization_captures that is off by one.
resolve_captures_early(lowered, table, bindings, stack_maps) ==
  LET site_map(site) == stack_maps[CHOOSE v \in DOMAIN lowered.nodes :
                                     is_runtime_exit(lowered.nodes[v].op) /\ lowered.nodes[v].imm = site]
      found(site, operation) == {i \in DOMAIN site_map(site) : site_map(site)[i] = bindings[<<site, operation.value>>]}
      resolved(site, operation) ==
        IF operation.source # "kCapturedValue" THEN operation
        ELSE [operation EXCEPT !.capture_index = Max({1, Min(found(site, operation)) - 1})]
  IN [ok |-> TRUE,
      table |-> [i \in DOMAIN table |->
                   [table[i] EXCEPT !.recovery = [k \in DOMAIN @ |-> resolved(table[i].site, @[k])]]]]

\* Site by site, where in the captured values an operation finds its own.
resolve_deoptimization_captures(lowered, table, bindings, stack_maps) ==
  LET site_map(site) == stack_maps[CHOOSE v \in DOMAIN lowered.nodes :
                                     is_runtime_exit(lowered.nodes[v].op) /\ lowered.nodes[v].imm = site]
      found(site, operation) == {i \in DOMAIN site_map(site) : site_map(site)[i] = bindings[<<site, operation.value>>]}
      resolved(site, operation) ==
        IF operation.source # "kCapturedValue" THEN operation
        ELSE [operation EXCEPT !.capture_index = Min(found(site, operation))]
  IN [ok |-> \A record \in ToSet(table) : \A operation \in ToSet(Captured(record)) :
               found(record.site, operation) # {},
      table |-> [i \in DOMAIN table |->
                   [table[i] EXCEPT !.recovery = [k \in DOMAIN @ |-> resolved(table[i].site, @[k])]]]]

-----------------------------------------------------------------------------
(***************************************************************************)
(* Limits on what is compiled: every count has to stay within its bound.   *)
(***************************************************************************)

Count(f, ops) == Cardinality({v \in DOMAIN f.nodes : f.nodes[v].op \in ops})
LengthSum(lengths) == FoldLeft(LAMBDA total, length : total + length, 0, lengths)
edge_arguments(terminator) ==
  CASE terminator.op = "kJump" -> Len(terminator.true_edge.arguments)
    [] terminator.op = "kBranch" -> Len(terminator.true_edge.arguments) + Len(terminator.false_edge.arguments)
    [] OTHER -> 0
ir_arguments(f) ==
  LengthSum([v \in DOMAIN f.nodes |-> IF f.nodes[v].op \in CallOps THEN Len(f.nodes[v].args) ELSE 0])
  + LengthSum([b \in DOMAIN f.blocks |-> edge_arguments(f.blocks[b].terminator)])
measured_function(f) ==
  [maximum_parameters |-> Len(f.parameter_types), maximum_ir_nodes |-> Len(f.nodes),
   maximum_cfg_blocks |-> Len(f.blocks), maximum_ir_arguments |-> ir_arguments(f),
   maximum_memory_regions |-> f.memory_region_count, maximum_memory_accesses |-> Count(f, BoundedOps),
   maximum_atomic_accesses |-> Count(f, AtomicOps), maximum_vector_constants |-> Count(f, {"kVectorConstant"}),
   maximum_vector_shuffles |-> Count(f, {"kVectorShuffle"}), maximum_vector_selects |-> Count(f, {"kVectorSelect"}),
   maximum_frame_slots |-> Len(f.frame_slots), maximum_trusted_objects |-> Len(f.trusted_objects),
   maximum_patch_cells |-> Len(f.patch_cells), maximum_fast_calls |-> Len(f.fast_calls)]
measured_metadata(f, requested, assumptions) ==
  LET unnamed == SelectSeq(assumptions, LAMBDA site : Find(requested, site) = <<>>)
  IN [maximum_stack_maps |-> Len(requested) + Len(unnamed),
      maximum_metadata_values |-> LengthSum([i \in DOMAIN requested |-> Len(requested[i].recovery)])
                                  + Len(unnamed) * Len(f.parameter_types)]
measured_stack_maps(maps) ==
  [maximum_stack_maps |-> Len(maps), maximum_metadata_values |-> LengthSum([i \in DOMAIN maps |-> Len(maps[i])])]

validate_compilation_limits(limits) == \A name \in DOMAIN limits : limits[name] # 0
WithinLimits(measured, limits) == \A name \in DOMAIN measured : measured[name] <= limits[name]

-----------------------------------------------------------------------------

Refused(f, status) == [status |-> status, lowered |-> f, mapping |-> Unmapped(f), table |-> <<>>, code |-> <<>>]

optimize(f, exit_states, level) ==
  CASE level = "kBaseline" -> [ok |-> TRUE, function |-> f, mapping |-> [v \in 0..Len(f.nodes) |-> v]]
    [] IsStraight(f) -> run_straight(f, exit_states)
    [] OTHER -> run_control_flow(f, exit_states)
verified(f) == IF IsStraight(f) THEN verify_straight(f) ELSE verify(f)
lower(f, target, requirements) ==
  IF IsStraight(f) THEN [stack_maps |-> plan_straight_stack_map_liveness(f, requirements)]
  ELSE lower_control_flow(f, target, requirements)

\* What follows code generation: the tables that go with the code.
finish(f, optimized, table, bindings, limits, code) ==
  LET lowered == optimized.function
      exits == SelectSeq([v \in DOMAIN lowered.nodes |-> v], LAMBDA v : is_runtime_exit(lowered.nodes[v].op))
      resolved == resolve_deoptimization_captures(lowered, table, bindings, code.stack_maps)
  IN IF ~WithinLimits(measured_stack_maps([i \in DOMAIN exits |-> code.stack_maps[exits[i]]]), limits)
     THEN Refused(f, "kResourceExhausted")
     ELSE IF ~resolved.ok THEN Refused(f, "kCodeGenerationFailed")
     ELSE [status |-> "kOk", lowered |-> lowered, mapping |-> optimized.mapping, table |-> resolved.table, code |-> code]

\* What follows optimization.
generate(f, optimized, deoptimization, limits, target) ==
  LET needed == prepare_stack_map_requirements(f, optimized.function, deoptimization.table, optimized.mapping)
      sites == SetToSortSeq(DOMAIN needed.requirements, <)
  IN IF ~deoptimization.ok THEN Refused(f, "kInvalidArgument")
     ELSE IF needed.status # "kOk" THEN Refused(f, needed.status)
     ELSE IF ~WithinLimits(measured_stack_maps([i \in DOMAIN sites |-> needed.requirements[sites[i]]]), limits)
     THEN Refused(f, "kResourceExhausted")
     ELSE finish(f, optimized, deoptimization.table, needed.bindings, limits,
                 lower(optimized.function, target, needed.requirements))

compile_optimized(f, optimized, requested, assumptions, limits, target) ==
  IF ~optimized.ok THEN Refused(f, "kCodeGenerationFailed")
  ELSE generate(f, optimized, prepare_deoptimization(f, optimized.function, requested, assumptions), limits, target)

compile(f, requested, assumptions, limits, level, target) ==
  LET prepared == prepare_optimization_exit_states(f, requested)
  IN IF ~validate_compilation_limits(limits) THEN Refused(f, "kInvalidArgument")
     ELSE IF ~WithinLimits(measured_function(f) @@ measured_metadata(f, requested, assumptions), limits)
     THEN Refused(f, "kResourceExhausted")
     ELSE IF ~verified(f) THEN Refused(f, "kInvalidIr")
     ELSE IF ~prepared.ok THEN Refused(f, "kInvalidArgument")
     ELSE compile_optimized(f, optimize(f, prepared.exit_states, level), requested, assumptions, limits, target)

-----------------------------------------------------------------------------

\* The frame rebuilt after an exit at `site`.
reconstruct(table, site, args, exit_value, captured_values) ==
  LET recovery == Find(table, site)[1].recovery
      value(operation) == CASE operation.source = "kArgument" -> args[operation.value]
                            [] operation.source = "kConstant" -> operation.value
                            [] operation.source = "kExitValue" -> exit_value
                            [] OTHER -> captured_values[operation.capture_index]
  IN [i \in DOMAIN recovery |->
        [slot |-> recovery[i].slot, type |-> recovery[i].type, value |-> value(recovery[i])]]

=============================================================================
