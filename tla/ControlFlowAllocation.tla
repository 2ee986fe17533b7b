------------------------ MODULE ControlFlowAllocation ------------------------
(***************************************************************************)
(* Where the values of a control-flow function live in native code: the    *)
(* per-block register allocation, the parallel moves of an edge and the    *)
(* liveness behind the stack maps (src/jit/register_allocator.cpp).        *)
(* Registers and stack slots are numbered from 0, as in the code, and      *)
(* positions in a block from 1.  A target says whether it reuses a float   *)
(* register whose last use is the operation, and whether vectors get the   *)
(* registers of floats or only the stack.  `requirements` names, by site,  *)
(* the values a deoptimized frame reads there.                             *)
(***************************************************************************)
EXTENDS Optimizer

CONSTANTS WordRegisters, SimdRegisters

ASSUME RegistersExist == WordRegisters \in Nat \ {0} /\ SimdRegisters \in Nat \ {0}

x86_64 == [reuse_final_float_lhs |-> TRUE, shared_vectors |-> TRUE]
aarch64 == [reuse_final_float_lhs |-> FALSE, shared_vectors |-> TRUE]
riscv64 == [reuse_final_float_lhs |-> FALSE, shared_vectors |-> FALSE]

register_bank(type, target) ==
  CASE type = "kWord" -> "word"
    [] type = "kFloat64" -> "simd"
    [] OTHER -> IF target.shared_vectors THEN "simd" ELSE "stack"
shares_physical_register_bank(lhs, rhs) == (lhs = "kWord") = (rhs = "kWord")

stack_slot_width(type) == IF is_vector_value_type(type) THEN 2 ELSE 1
\* A vector takes two slots and begins at an even one.
reserve_stack_slot(type, next) == IF is_vector_value_type(type) THEN next + (next % 2) ELSE next

may_call_atomic_fallback(n) ==
  n.op \in AtomicOps /\ (n.op \in {"kAtomicLoad", "kAtomicStore"} => n.access.width < 4)
MayCall(n) == n.op \in CallOps \/ may_call_atomic_fallback(n)

find_stack_map_requirement(requirements, n) ==
  IF n.op \in GuardOps \cup {"kSafepoint"} /\ n.imm \in DOMAIN requirements
  THEN ToSet(requirements[n.imm]) ELSE {}
\* What a node needs in place: its operands and what a frame rebuilt there reads.
UsesAt(f, requirements, v) ==
  Operands(f.nodes[v]) \cup find_stack_map_requirement(requirements, f.nodes[v])

-----------------------------------------------------------------------------
(***************************************************************************)
(* One pass over each block.  The terminator comes after the last          *)
(* instruction; a value that nothing in its block uses is last used where  *)
(* it is defined.                                                          *)
(***************************************************************************)

last_use(f, requirements, b) ==
  LET block == f.blocks[b]
  IN [i \in DOMAIN block.instructions |->
        Max({i} \cup {j \in DOMAIN block.instructions :
                        block.instructions[i] \in UsesAt(f, requirements, block.instructions[j])}
                \cup {Len(block.instructions) + 1 : t \in {block.instructions[i]} \cap TerminatorRoots(block.terminator)})]

expire(s, bank, instructions, last, i) ==
  LET ended == SelectSeq(s.active[bank], LAMBDA p : last[p] < i)
  IN [s EXCEPT !.free[bank] = @ \o [k \in DOMAIN ended |-> s.registers[instructions[ended[k]]]],
               !.active[bank] = SelectSeq(@, LAMBDA p : last[p] >= i)]

assign_register(f, s, bank, target, instructions, last, i) ==
  LET v == instructions[i]
      n == f.nodes[v]
      reused == {p \in ToSet(s.active[bank]) : instructions[p] = n.lhs /\ last[p] = i}
  IN IF target.reuse_final_float_lhs /\ n.op \in FloatOps \cup {"kFloatNegate"} /\ reused # {}
     THEN [s EXCEPT !.registers = (v :> s.registers[n.lhs]) @@ @,
                    !.active[bank] = Append(SelectSeq(@, LAMBDA p : p \notin reused), i)]
     ELSE IF s.free[bank] = <<>> THEN s
     ELSE [s EXCEPT !.registers = (v :> Last(s.free[bank])) @@ @,
                    !.free[bank] = Front(@), !.active[bank] = Append(@, i)]

\* What is live across a call has to be saved around it, and what is live where
\* the run may leave needs a slot to be captured from.
scan_instruction(f, s, target, instructions, last, i) ==
  LET v == instructions[i]
      n == f.nodes[v]
      active == s.active.word \o s.active.simd
      across == SelectSeq(active, LAMBDA p : last[p] > i)
      bank == register_bank(n.type, target)
      noted == [s EXCEPT
                  !.live_across_calls[v] = IF MayCall(n) THEN [k \in DOMAIN across |-> instructions[across[k]]] ELSE @,
                  !.needs_stack_slot =
                    IF is_runtime_exit(n.op) THEN @ \cup {instructions[p] : p \in {p \in ToSet(active) : last[p] >= i}}
                    ELSE @]
  IN IF bank = "stack" THEN noted
     ELSE assign_register(f, expire(noted, bank, instructions, last, i), bank, target, instructions, last, i)

scan_block(f, requirements, target, s, b) ==
  LET instructions == f.blocks[b].instructions
      last == last_use(f, requirements, b)
      fresh == [s EXCEPT !.active = [word |-> <<>>, simd |-> <<>>],
                         !.free = [word |-> [k \in 1..WordRegisters |-> WordRegisters - k],
                                   simd |-> [k \in 1..SimdRegisters |-> SimdRegisters - k]]]
  IN FoldLeftDomain(LAMBDA r, i : scan_instruction(f, r, target, instructions, last, i), fresh, instructions)

\* The values some other block than their own uses.
nonlocal_values(f, requirements) ==
  UNION {{v \in UNION {UsesAt(f, requirements, u) : u \in ToSet(f.blocks[b].instructions)}
                \cup TerminatorRoots(f.blocks[b].terminator) : Owner(f, v) # b} : b \in DOMAIN f.blocks}

reserve_slots(f, s, values) ==
  FoldLeft(LAMBDA r, v : LET slot == reserve_stack_slot(f.nodes[v].type, r.next)
                         IN [indices |-> (v :> slot) @@ r.indices, next |-> slot + stack_slot_width(f.nodes[v].type)],
           s, values)

\* Values that cross blocks have slots of their own; the other slots of a block
\* are used again by the next block.
allocate_control_flow_registers(f, target, requirements) ==
  LET ids == [v \in DOMAIN f.nodes |-> v]
      start == [registers |-> <<>>, live_across_calls |-> [v \in DOMAIN f.nodes |-> <<>>],
                needs_stack_slot |-> {}, active |-> <<>>, free |-> <<>>]
      scanned == FoldLeftDomain(LAMBDA s, b : scan_block(f, requirements, target, s, b), start, f.blocks)
      requires_stack == nonlocal_values(f, requirements)
      needs_slot == scanned.needs_stack_slot \cup UNION {ToSet(scanned.live_across_calls[v]) : v \in DOMAIN f.nodes}
      persistent == reserve_slots(f, [indices |-> <<>>, next |-> 0],
                                  SelectSeq(ids, LAMBDA v : v \in requires_stack))
      local(b) == SelectSeq(f.blocks[b].instructions,
                            LAMBDA v : /\ v \notin requires_stack
                                       /\ v \notin DOMAIN scanned.registers \/ v \in needs_slot)
      per_block == SubSeq([b \in DOMAIN f.blocks |->
                             reserve_slots(f, [indices |-> <<>>, next |-> persistent.next], local(b))],
                          1, Len(f.blocks))
  IN [register_indices |-> scanned.registers, requires_stack |-> requires_stack,
      live_across_calls |-> scanned.live_across_calls,
      stack_indices |-> FoldLeft(LAMBDA r, p : r @@ p.indices, persistent.indices, per_block),
      stack_slots |-> Max({persistent.next} \cup {per_block[b].next : b \in DOMAIN f.blocks})]

-----------------------------------------------------------------------------
(***************************************************************************)
(* The moves of an edge: parameters take their arguments all at once, so a *)
(* move waits while another one still reads its destination, and a cycle   *)
(* is broken through the temporary register (destination -1).              *)
(***************************************************************************)

NoRegister == -1
Move(kind, source, destination, type) ==
  [source_kind |-> kind, source_index |-> source, destination_index |-> destination, type |-> type]
RegisterOf(f, allocation, v, block) ==
  IF Owner(f, v) = block /\ v \in DOMAIN allocation.register_indices
  THEN allocation.register_indices[v] ELSE NoRegister

Reads(move, register, type) ==
  /\ shares_physical_register_bank(move.type, type)
  /\ move.source_kind = "kRegister" /\ move.source_index = register

edge_moves(f, edge, allocation, current_block) ==
  LET parameters == f.blocks[edge.target].parameters
      move(i) ==
        LET register == RegisterOf(f, allocation, edge.arguments[i], current_block)
            destination == allocation.register_indices[parameters[i]]
        IN IF register # NoRegister THEN Move("kRegister", register, destination, f.nodes[parameters[i]].type)
           ELSE Move("kStack", allocation.stack_indices[edge.arguments[i]], destination, f.nodes[parameters[i]].type)
  IN SelectSeq([i \in DOMAIN parameters |-> move(i)],
               LAMBDA m : ~(m.source_kind = "kRegister" /\ m.source_index = m.destination_index))

save_destination(s) ==
  LET first == Head(s.pending)
      readers == SelectSeq(s.pending, LAMBDA m : Reads(m, first.destination_index, first.type)
                                                 /\ is_vector_value_type(m.type))
      type == IF readers = <<>> THEN first.type ELSE Head(readers).type
  IN [moves |-> Append(s.moves, Move("kRegister", first.destination_index, NoRegister, type)),
      pending |-> [k \in DOMAIN s.pending |->
                     IF Reads(s.pending[k], first.destination_index, type)
                     THEN [s.pending[k] EXCEPT !.source_kind = "kTemporary", !.source_index = 0]
                     ELSE s.pending[k]]]

\* A variant of order_moves that takes the moves as they come.
moves_as_listed(s) ==
  IF s.pending = <<>> THEN s
  ELSE [moves |-> Append(s.moves, Head(s.pending)), pending |-> Tail(s.pending)]
order_moves(s) ==
  LET ready == {k \in DOMAIN s.pending :
                  \A m \in ToSet(s.pending) : ~Reads(m, s.pending[k].destination_index, s.pending[k].type)}
  IN IF s.pending = <<>> THEN s
     ELSE IF ready = {} THEN save_destination(s)
     ELSE [moves |-> Append(s.moves, s.pending[Min(ready)]), pending |-> RemoveAt(s.pending, Min(ready))]

plan_control_flow_edge(f, edge, allocation, current_block) ==
  LET parameters == f.blocks[edge.target].parameters
      type(i) == f.nodes[parameters[i]].type
      register(i) == allocation.register_indices[parameters[i]]
      uses_registers ==
        /\ ToSet(parameters) \subseteq DOMAIN allocation.register_indices
        /\ \A i, j \in DOMAIN parameters :
             i # j /\ shares_physical_register_bank(type(i), type(j)) => register(i) # register(j)
      pending == edge_moves(f, edge, allocation, current_block)
  IN IF ~uses_registers THEN [uses_registers |-> FALSE, moves |-> <<>>]
     ELSE [uses_registers |-> TRUE,
           moves |-> FoldLeft(LAMBDA s, k : order_moves(s), [moves |-> <<>>, pending |-> pending],
                              [k \in 1..2*Len(pending) |-> k]).moves]

-----------------------------------------------------------------------------
(***************************************************************************)
(* Stack maps: the values that are live where a run may leave.             *)
(***************************************************************************)

edge_live(f, edge, live_in) ==
  LET parameters == f.blocks[edge.target].parameters
  IN (live_in[edge.target] \ ToSet(parameters))
     \cup {edge.arguments[i] : i \in {i \in DOMAIN parameters : parameters[i] \in live_in[edge.target]}}
live_out(f, live_in, b) == UNION {edge_live(f, edge, live_in) : edge \in Edges(f.blocks[b].terminator)}

\* A block parameter is not defined in its block: an edge brings it in.
block_definitions(f, b) == {v \in ToSet(f.blocks[b].instructions) : f.nodes[v].op # "kBlockParameter"}
block_uses(f, requirements, b) ==
  LET instructions == f.blocks[b].instructions
      defined(i) == {instructions[j] : j \in 1..i-1} \cap block_definitions(f, b)
      returned == {f.blocks[b].terminator.value} \ {0}
  IN UNION {UsesAt(f, requirements, instructions[i]) \ defined(i) : i \in DOMAIN instructions}
     \cup (returned \ defined(Len(instructions) + 1))

live_in_blocks(f, requirements) ==
  LET uses == SubSeq([b \in DOMAIN f.blocks |-> block_uses(f, requirements, b)], 1, Len(f.blocks))
      rounds == Len(f.blocks) * Len(f.nodes)
      next(live_in) == SubSeq([b \in DOMAIN f.blocks |->
                                 uses[b] \cup (live_out(f, live_in, b) \ block_definitions(f, b))], 1, Len(f.blocks))
      grown[k \in 0..rounds] ==
        IF k = 0 THEN uses
        ELSE LET before == grown[k-1]
             IN next(before)
      stable == CHOOSE k \in 0..rounds : grown[k] = next(grown[k])
  IN grown[stable]

site_values(f, live) == SelectSeq([v \in DOMAIN f.nodes |-> v],
                                  LAMBDA v : v \in live /\ ~is_vector_value_type(f.nodes[v].type))

stack_maps_of_block(f, requirements, live_in, maps, b) ==
  LET block == f.blocks[b]
      step(s, v) ==
        LET live == (s.live \ {v}) \cup UsesAt(f, requirements, v)
        IN [live |-> live,
            maps |-> IF is_runtime_exit(f.nodes[v].op) THEN [s.maps EXCEPT ![v] = site_values(f, live)] ELSE s.maps]
      leaving == live_out(f, live_in, b) \cup ({block.terminator.value} \ {0})
  IN FoldLeft(step, [live |-> leaving, maps |-> maps], Reverse(block.instructions)).maps

plan_control_stack_map_liveness(f, requirements) ==
  LET live_in == live_in_blocks(f, requirements)
  IN FoldLeftDomain(LAMBDA maps, b : stack_maps_of_block(f, requirements, live_in, maps, b),
                    [v \in DOMAIN f.nodes |-> <<>>], f.blocks)

plan_straight_stack_map_liveness(f, requirements) ==
  LET needed(u) == IF u = f.return_value THEN Len(f.nodes) + 1
                   ELSE Max({u} \cup {v \in DOMAIN f.nodes : u \in UsesAt(f, requirements, v)})
      ends == SubSeq([u \in DOMAIN f.nodes |-> needed(u)], 1, Len(f.nodes))
  IN [v \in DOMAIN f.nodes |->
        IF is_runtime_exit(f.nodes[v].op) THEN site_values(f, {u \in 1..v-1 : ends[u] >= v}) ELSE <<>>]

=============================================================================
