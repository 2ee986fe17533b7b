--------------------------- MODULE NativeExecution ---------------------------
(***************************************************************************)
(* The code a backend lays out for a control-flow function                 *)
(* (lower_control_flow_impl in src/jit/backend/*/lower.cpp), as moves of   *)
(* values between registers and stack slots.  What one instruction         *)
(* sequence computes is Lowering's subject; here a node computes what the  *)
(* IR says, from whatever its operands' registers and slots hold.  A cell  *)
(* holds a word, a whole vector, half of one, or nothing the program put   *)
(* there: reading that gives Noise.                                        *)
(***************************************************************************)
EXTENDS ControlFlowAllocation

CONSTANT Noise

Cell(kind, value) == [kind |-> kind, value |-> value]
Junk == Cell("junk", Noise)
Slot(m, s) == IF s \in DOMAIN m.slots THEN m.slots[s] ELSE Junk
WordIn(cell) == IF cell.kind = "word" THEN cell.value ELSE Noise
NoiseLanes(type) == [lane \in Lanes(type) |-> Noise % (lane_mask(type) + 1)]

\* Values in registers: a float or a vector fills a SIMD register.
register_value(m, type, r) ==
  CASE type = "kWord" -> WordIn(m.word[r])
    [] type = "kFloat64" -> WordIn(m.simd[r])
    [] OTHER -> IF m.simd[r].kind = "vector" THEN m.simd[r].value ELSE NoiseLanes(type)
set_register(m, type, r, value) ==
  CASE type = "kWord" -> [m EXCEPT !.word[r] = Cell("word", value)]
    [] type = "kFloat64" -> [m EXCEPT !.simd[r] = Cell("word", value)]
    [] OTHER -> [m EXCEPT !.simd[r] = Cell("vector", value)]

load_slot(m, type, s) ==
  IF is_scalar_value_type(type) THEN WordIn(Slot(m, s))
  ELSE IF Slot(m, s).kind = "low" /\ Slot(m, s+1).kind = "high" /\ Slot(m, s).value = Slot(m, s+1).value
  THEN Slot(m, s).value ELSE NoiseLanes(type)
store_slot(m, type, s, value) ==
  [m EXCEPT !.slots = IF is_scalar_value_type(type) THEN (s :> Cell("word", value)) @@ @
                      ELSE (s :> Cell("low", value) @@ (s+1) :> Cell("high", value)) @@ @]

control_value_offset(allocation, v) == allocation.stack_indices[v]

load_control(f, allocation, m, v) ==
  LET r == RegisterOf(f, allocation, v, m.run.block)
      type == f.nodes[v].type
  IN IF r # NoRegister THEN register_value(m, type, r)
     ELSE load_slot(m, type, control_value_offset(allocation, v))

\* The result goes to its register, and to its slot when it has no register or
\* another block reads it.
store_result(f, allocation, m, v, value) ==
  LET type == f.nodes[v].type
      in_register == v \in DOMAIN allocation.register_indices
      placed == IF in_register THEN set_register(m, type, allocation.register_indices[v], value) ELSE m
  IN IF ~in_register \/ v \in allocation.requires_stack
     THEN store_slot(placed, type, control_value_offset(allocation, v), value) ELSE placed

-----------------------------------------------------------------------------

save_values(f, allocation, m, values) ==
  FoldLeft(LAMBDA s, v : store_slot(s, f.nodes[v].type, control_value_offset(allocation, v),
                                    load_control(f, allocation, s, v)), m, values)
\* A variant of the spill that trusts the slots to be up to date.
spill_nothing(f, allocation, m, live) == m
spill_control_stack_map_values(f, allocation, m, live) ==
  save_values(f, allocation, m,
    SelectSeq(live, LAMBDA v : v \notin allocation.requires_stack
                               /\ RegisterOf(f, allocation, v, m.run.block) # NoRegister))
save_control_live_across_call(f, allocation, m, call) ==
  save_values(f, allocation, m, allocation.live_across_calls[call])
restore_control_live_across_call(f, allocation, m, call) ==
  FoldLeft(LAMBDA s, v : set_register(s, f.nodes[v].type, allocation.register_indices[v],
                                      load_slot(s, f.nodes[v].type, control_value_offset(allocation, v))),
           m, allocation.live_across_calls[call])
capture_control_stack_map_values(allocation, m, live) ==
  [m EXCEPT !.captured_values = [k \in DOMAIN live |-> WordIn(Slot(m, control_value_offset(allocation, live[k])))]]

\* What a called function leaves of the registers.
Clobbered(m) == [m EXCEPT !.word = [r \in DOMAIN @ |-> Junk], !.simd = [r \in DOMAIN @ |-> Junk]]

-----------------------------------------------------------------------------
(***************************************************************************)
(* Frame layout: spill slots, the temporaries of edge copies above them,   *)
(* then the frame locals.                                                  *)
(***************************************************************************)

temporary_slots(f, base, values) == reserve_slots(f, [indices |-> <<>>, next |-> base], values)
frame_slot_base(f, allocation) ==
  Max({allocation.stack_slots}
      \cup {temporary_slots(f, allocation.stack_slots, f.blocks[b].parameters).next : b \in DOMAIN f.blocks})

\* The code and its tables: the allocation and the stack maps.
lower_control_flow(f, target, requirements) ==
  LET allocation == allocate_control_flow_registers(f, target, requirements)
  IN [allocation |-> allocation, stack_maps |-> plan_control_stack_map_liveness(f, requirements),
      frame_slot_base |-> frame_slot_base(f, allocation)]

frame_locals(f, code, m) == [s \in DOMAIN f.frame_slots |-> WordIn(Slot(m, code.frame_slot_base + s - 1))]
with_frame_locals(f, code, m, values) ==
  [m EXCEPT !.slots = [s \in {code.frame_slot_base + k - 1 : k \in DOMAIN f.frame_slots} |->
                         Cell("word", values[s - code.frame_slot_base + 1])] @@ @]

\* At the entry only the frame locals have been written.
InitialMachine(f, code, args) ==
  with_frame_locals(f, code,
    [run |-> [InitialRun(f, args) EXCEPT !.values = <<>>], arguments |-> args, slots |-> <<>>,
     word |-> [r \in 0..WordRegisters-1 |-> Junk], simd |-> [r \in 0..SimdRegisters-1 |-> Junk],
     captured_values |-> <<>>],
    [s \in DOMAIN f.frame_slots |-> 0])

-----------------------------------------------------------------------------

load_operands(f, allocation, m, n) ==
  Inputs(n, [u \in Operands(n) |-> load_control(f, allocation, m, u)])

\* After the operation: a run that leaves captures the slots of its stack map.
lower_result(f, code, m, v, ran) ==
  LET left == [m EXCEPT !.run = [ran EXCEPT !.values = <<>>]]
      called == IF MayCall(f.nodes[v]) THEN Clobbered(left) ELSE left
  IN IF ran.outcome # Running
     THEN capture_control_stack_map_values(code.allocation, left, code.stack_maps[v])
     ELSE restore_control_live_across_call(f, code.allocation,
            store_result(f, code.allocation, with_frame_locals(f, code, called, ran.frame), v, ran.values[v]), v)

\* Operands are read after the live values are saved and before the call.
lower_operation(f, code, answers, m, v) ==
  lower_result(f, code, m, v,
    Performed(f, answers, [m.run EXCEPT !.frame = frame_locals(f, code, m)], v,
              load_operands(f, code.allocation, m, f.nodes[v])))
lower_node(f, code, answers, m, v) ==
  lower_operation(f, code, answers,
    save_control_live_across_call(f, code.allocation,
      spill_control_stack_map_values(f, code.allocation, m, code.stack_maps[v]), v), v)

\* A vector operation only reads its operands and writes its result.
lower_control_vector(f, allocation, m, v) ==
  store_result(f, allocation, m, v, VectorValue(f, f.nodes[v], load_operands(f, allocation, m, f.nodes[v])))

lower_instruction(f, code, answers, m, v) ==
  CASE m.run.outcome # Running -> m
    [] f.nodes[v].op = "kParameter" -> store_result(f, code.allocation, m, v, m.arguments[f.nodes[v].imm])
    [] f.nodes[v].op = "kBlockParameter" -> m
    [] f.nodes[v].op \in VectorOps -> lower_control_vector(f, code.allocation, m, v)
    [] OTHER -> lower_node(f, code, answers, m, v)

-----------------------------------------------------------------------------

\* One planned move; register -1 is the temporary of its bank.
perform_move(m, move) ==
  LET value == CASE move.source_kind = "kRegister" -> register_value(m, move.type, move.source_index)
                 [] move.source_kind = "kStack" -> load_slot(m, move.type, move.source_index)
                 [] OTHER -> register_value(m, move.type, NoRegister)
  IN set_register(m, move.type, move.destination_index, value)

copy_through_registers(f, allocation, m, edge, moves) ==
  LET parameters == f.blocks[edge.target].parameters
      temporaries == [m EXCEPT !.word = (NoRegister :> Junk) @@ @, !.simd = (NoRegister :> Junk) @@ @]
      moved == FoldLeft(perform_move, temporaries, moves)
      stored == FoldLeft(LAMBDA s, p : store_slot(s, f.nodes[p].type, control_value_offset(allocation, p),
                                         register_value(s, f.nodes[p].type, allocation.register_indices[p])),
                         moved, SelectSeq(parameters, LAMBDA p : p \in allocation.requires_stack))
  IN [stored EXCEPT !.word = Restrict(@, DOMAIN m.word), !.simd = Restrict(@, DOMAIN m.simd)]

\* Every argument is stored to a temporary slot before a parameter is loaded.
copy_through_slots(f, allocation, m, edge) ==
  LET parameters == f.blocks[edge.target].parameters
      slot == temporary_slots(f, allocation.stack_slots, parameters).indices
      stored == FoldLeftDomain(LAMBDA s, i : store_slot(s, f.nodes[parameters[i]].type, slot[parameters[i]],
                                               load_control(f, allocation, s, edge.arguments[i])), m, parameters)
  IN FoldLeft(LAMBDA s, p : store_result(f, allocation, s, p, load_slot(s, f.nodes[p].type, slot[p])),
              stored, parameters)

copy_edge_arguments(f, allocation, m, edge) ==
  LET plan == plan_control_flow_edge(f, edge, allocation, m.run.block)
      copied == IF plan.uses_registers THEN copy_through_registers(f, allocation, m, edge, plan.moves)
                ELSE copy_through_slots(f, allocation, m, edge)
  IN [copied EXCEPT !.run.block = edge.target, !.run.executions = @ + 1]

\* The condition of a branch is read before the copies of either edge.
lower_terminator(f, code, m) ==
  LET terminator == f.blocks[m.run.block].terminator
      value == load_control(f, code.allocation, m, terminator.value)
  IN IF m.run.outcome # Running THEN m
     ELSE IF terminator.op = "kReturn" THEN [m EXCEPT !.run.outcome = Returned(value)]
     ELSE copy_edge_arguments(f, code.allocation, m,
            IF terminator.op = "kJump" THEN terminator.true_edge ELSE chosen_edge(terminator, value))

\* One block of native code. Native code has no budget of block executions:
\* maximum_block_executions ends the run where the evaluator's budget ends the
\* run it is compared with.
run_native_block(f, code, answers, maximum_block_executions, m) ==
  IF m.run.executions = maximum_block_executions THEN [m EXCEPT !.run.outcome = OutOfBudget]
  ELSE lower_terminator(f, code, FoldLeft(LAMBDA s, v : lower_instruction(f, code, answers, s, v), m,
                                          f.blocks[m.run.block].instructions))

=============================================================================
