------------------------------ MODULE Optimizer ------------------------------
(***************************************************************************)
(* The optimizer of src/ir/optimizer.cpp.  A straight-line function goes   *)
(* through the same pass until it no longer changes; a control-flow        *)
(* function is analysed, rebuilt and then canonicalized.  Beside the       *)
(* function both keep where each value went (0 when it is gone) and what   *)
(* every exit needs: an exit state names a guard and the values a          *)
(* deoptimized frame reads there.                                          *)
(***************************************************************************)
EXTENDS ControlFlow, StraightLine

\* A variant of HasEffect that forgets the frame locals.
HasEffectOutsideFrame(op) ==
  op \in CallOps \cup BoundedOps \cup AtomicOps \cup {"kAtomicFence", "kLoadPatchCell", "kSafepoint"}
         \cup ObjectOps \cup GuardOps
HasEffect(op) ==
  op \in CallOps \cup BoundedOps \cup AtomicOps \cup {"kAtomicFence", "kLoadPatchCell", "kSafepoint"}
         \cup FrameOps \cup ObjectOps \cup GuardOps
is_nonzero_guard(op) == op \in GuardOps

\* The folders compute on their own what the interpreters compute: one pair for
\* each form of function.  An operation they do not test for is the last one.
fold_binary(op, lhs, rhs) ==
  CASE op = "kAdd" -> Wrap(lhs + rhs)
    [] op = "kSubtract" -> Wrap(lhs - rhs)
    [] op = "kMultiply" -> Wrap(lhs * rhs)
    [] op = "kBitwiseAnd" -> BitAnd(lhs, rhs)
    [] op = "kBitwiseOr" -> BitOr(lhs, rhs)
    [] op = "kShiftLeft" /\ Signed(rhs) < 0 -> IF Wrap(-rhs) >= WordBits THEN 0 ELSE lhs \div 2^Wrap(-rhs)
    [] op = "kShiftLeft" /\ Signed(rhs) >= 0 -> IF rhs >= WordBits THEN 0 ELSE Wrap(lhs * 2^rhs)
    [] op = "kFloorDivide" -> floor_divide_word(lhs, rhs)
    [] op = "kFloorModulo" -> floor_modulo_word(lhs, rhs)
    [] op = "kLessThan" -> Truth(Signed(lhs) < Signed(rhs))
    [] op = "kLessEqual" -> Truth(Signed(lhs) <= Signed(rhs))
    [] op = "kEqual" -> Truth(lhs = rhs)
    [] op = "kNotEqual" -> Truth(lhs # rhs)
    [] OTHER -> BitXor(lhs, rhs)
fold_float_binary(op, lhs, rhs) ==
  CASE op \in FloatOps -> FloatResult(op, lhs, rhs)
    [] op = "kFloatLessThan" -> Truth(FloatLess(lhs, rhs))
    [] op = "kFloatLessEqual" -> Truth(FloatLess(lhs, rhs) \/ FloatEqual(lhs, rhs))
    [] op = "kFloatEqual" -> Truth(FloatEqual(lhs, rhs))
    [] OTHER -> Truth(~FloatEqual(lhs, rhs))
fold_unary(op, value, imm) ==
  CASE op = "kNegate" -> Wrap(0 - value)
    [] op = "kBitwiseNot" -> BitNot(value)
    [] op = "kByteSwap" -> byte_swap_word(value, imm)
    [] OTHER -> BitXor(value, SignBit)
fold_control_unary(op, value, imm) ==
  CASE op = "kNegate" -> Wrap(0 - value)
    [] op = "kBitwiseNot" -> BitNot(value)
    [] op = "kByteSwap" -> byte_swap_word(value, imm)
    [] OTHER -> BitXor(value, SignBit)
fold_control_binary(op, lhs, rhs) ==
  CASE op \in FloatOps -> FloatResult(op, lhs, rhs)
    [] op = "kFloatLessThan" -> Truth(FloatLess(lhs, rhs))
    [] op = "kFloatLessEqual" -> Truth(FloatLess(lhs, rhs) \/ FloatEqual(lhs, rhs))
    [] op = "kFloatEqual" -> Truth(FloatEqual(lhs, rhs))
    [] op = "kFloatNotEqual" -> Truth(~FloatEqual(lhs, rhs))
    [] op = "kAdd" -> Wrap(lhs + rhs)
    [] op = "kSubtract" -> Wrap(lhs - rhs)
    [] op = "kMultiply" -> Wrap(lhs * rhs)
    [] op = "kBitwiseAnd" -> BitAnd(lhs, rhs)
    [] op = "kBitwiseOr" -> BitOr(lhs, rhs)
    [] op = "kBitwiseXor" -> BitXor(lhs, rhs)
    [] op = "kShiftLeft" /\ Signed(rhs) < 0 -> IF Wrap(-rhs) >= WordBits THEN 0 ELSE lhs \div 2^Wrap(-rhs)
    [] op = "kShiftLeft" /\ Signed(rhs) >= 0 -> IF rhs >= WordBits THEN 0 ELSE Wrap(lhs * 2^rhs)
    [] op = "kFloorDivide" -> floor_divide_word(lhs, rhs)
    [] op = "kFloorModulo" -> floor_modulo_word(lhs, rhs)
    [] op = "kLessThan" -> Truth(Signed(lhs) < Signed(rhs))
    [] op = "kLessEqual" -> Truth(Signed(lhs) <= Signed(rhs))
    [] op = "kEqual" -> Truth(lhs = rhs)
    [] OTHER -> Truth(lhs # rhs)

\* What becomes of a node: a constant, another value, or the same node over the
\* values its operands became.
Constant(value) == [kind |-> "constant", value |-> value]
Same(v) == [kind |-> "same", value |-> v]
Emitted == [kind |-> "emitted", value |-> 0]

\* `known` gives the values that are constants.
try_fold_vector(f, n, known) ==
  IF Operands(n) \subseteq DOMAIN known
  THEN Constant(VectorValue(f, n, Inputs(n, known))) ELSE Emitted

cancels(f, n) == f.nodes[n.lhs].op = n.op /\ n.op # "kByteSwap"

\* When an operation on a constant is one of its operands: which operand is the
\* constant, the constant, and the operand that is the result.
AllOnes == Wrap(-1)
Identities ==
  [kAdd |-> {<<"rhs", 0, "lhs">>, <<"lhs", 0, "rhs">>}, kSubtract |-> {<<"rhs", 0, "lhs">>},
   kMultiply |-> {<<"lhs", 0, "lhs">>, <<"rhs", 0, "rhs">>, <<"lhs", 1, "rhs">>, <<"rhs", 1, "lhs">>},
   kBitwiseAnd |-> {<<"lhs", 0, "lhs">>, <<"rhs", AllOnes, "lhs">>,
                    <<"rhs", 0, "rhs">>, <<"lhs", AllOnes, "rhs">>},
   kBitwiseOr |-> {<<"lhs", AllOnes, "lhs">>, <<"rhs", 0, "lhs">>,
                   <<"rhs", AllOnes, "rhs">>, <<"lhs", 0, "rhs">>},
   kBitwiseXor |-> {<<"rhs", 0, "lhs">>, <<"lhs", 0, "rhs">>},
   kShiftLeft |-> {<<"lhs", 0, "lhs">>, <<"rhs", 0, "lhs">>}, kFloorDivide |-> {<<"rhs", 1, "lhs">>}]
control_identities == [Identities EXCEPT !.kFloorDivide = {}]

Replaced(n, known, identities) ==
  LET applying == {i \in identities[n.op] : n[i[1]] \in DOMAIN known /\ known[n[i[1]]] = i[2]}
  IN CASE n.op \notin DOMAIN identities -> Emitted
       [] n.op \in {"kBitwiseAnd", "kBitwiseOr"} /\ n.lhs = n.rhs -> Same(n.lhs)
       [] applying # {} -> Same(n[(CHOOSE i \in applying : TRUE)[3]])
       [] OTHER -> Emitted

simplify_guard(n, known) ==
  IF n.lhs \in DOMAIN known /\ ~GuardFails(n, [lhs |-> known[n.lhs]]) THEN Constant(0) ELSE Emitted
simplify_unary(f, n, known) ==
  CASE n.lhs \in DOMAIN known -> Constant(fold_unary(n.op, known[n.lhs], n.imm))
    [] cancels(f, n) -> Same(f.nodes[n.lhs].lhs)
    [] OTHER -> Emitted
simplify_float(n, known) ==
  IF {n.lhs, n.rhs} \subseteq DOMAIN known
  THEN Constant(fold_float_binary(n.op, known[n.lhs], known[n.rhs])) ELSE Emitted
simplify_word(n, known) ==
  CASE {n.lhs, n.rhs} \subseteq DOMAIN known -> Constant(fold_binary(n.op, known[n.lhs], known[n.rhs]))
    [] n.lhs = n.rhs /\ n.op \in {"kBitwiseXor", "kLessThan", "kNotEqual"} -> Constant(0)
    [] n.lhs = n.rhs /\ n.op \in {"kLessEqual", "kEqual"} -> Constant(1)
    [] OTHER -> Replaced(n, known, Identities)

simplify(f, n, known) ==
  CASE n.op = "kConstant" -> Constant(n.imm)
    [] n.op \in VectorOps -> try_fold_vector(f, n, known)
    [] n.op \in GuardOps -> simplify_guard(n, known)
    [] is_unary(n.op) -> simplify_unary(f, n, known)
    [] n.op \in FloatOps \cup FloatConditions -> simplify_float(n, known)
    [] n.op \in WordOps -> simplify_word(n, known)
    [] OTHER -> Emitted

WithKnown(known, v, decision) ==
  CASE decision.kind = "constant" -> (v :> decision.value) @@ known
    [] decision.kind = "same" /\ decision.value \in DOMAIN known -> (v :> known[decision.value]) @@ known
    [] OTHER -> known

-----------------------------------------------------------------------------

constant_of(type, value) ==
  IF is_vector_value_type(type) THEN [Node EXCEPT !.op = "kVectorConstant", !.type = type, !.lanes = value]
  ELSE [Node EXCEPT !.imm = value, !.type = type]
emitted(n, mapped) ==
  [n EXCEPT !.lhs = mapped[@], !.rhs = mapped[@], !.aux = mapped[@],
            !.args = [i \in DOMAIN @ |-> mapped[@[i]]]]
Rebuilt(n, decision, mapped) ==
  IF decision.kind = "constant" THEN constant_of(n.type, decision.value) ELSE emitted(n, mapped)

\* What is live: visited from the last value to the first, a live value makes
\* live the values that `needs` names.
LiveFrom(f, roots, needs) ==
  FoldLeft(LAMBDA live, v : IF v \in live THEN live \cup needs[v] ELSE live, roots,
           Reverse([v \in DOMAIN f.nodes |-> v]))
ExitRoots(exit_states) == UNION {ToSet(exit_states[i].live_values) : i \in DOMAIN exit_states}

\* An exit state goes with its guard; values that became one are named once.
mapped_exit_states(output, mapped, exit_states) ==
  LET kept == SelectSeq(exit_states, LAMBDA e : mapped[e.exit] # 0 /\ output.nodes[mapped[e.exit]].op \in GuardOps)
      named(values) == FoldLeft(LAMBDA seen, v : IF mapped[v] = 0 \/ Contains(seen, mapped[v]) THEN seen
                                                 ELSE Append(seen, mapped[v]), <<>>, values)
  IN [i \in DOMAIN kept |-> [exit |-> mapped[kept[i].exit], live_values |-> named(kept[i].live_values)]]

Unmapped(f) == [v \in 0..Len(f.nodes) |-> 0]
composed(mapping, next) == [v \in DOMAIN mapping |-> next[mapping[v]]]

live_values(f, exit_states) ==
  LiveFrom(f, {f.return_value} \cup {v \in DOMAIN f.nodes : HasEffect(f.nodes[v].op)} \cup ExitRoots(exit_states),
           [v \in DOMAIN f.nodes |-> Operands(f.nodes[v])])

decided_node(n, s, v, decision) ==
  LET next == [s EXCEPT !.known = WithKnown(@, v, decision),
                        !.changed = @ \/ (decision.kind # "emitted" /\ n.op \notin {"kConstant", "kVectorConstant"})]
  IN IF decision.kind = "same" THEN [next EXCEPT !.mapped[v] = s.mapped[decision.value]]
     ELSE [next EXCEPT !.builder = append(@, Rebuilt(n, decision, s.mapped)),
                       !.mapped[v] = Len(s.builder.function.nodes) + 1]
transform_node(f, s, v) == decided_node(f.nodes[v], s, v, simplify(f, f.nodes[v], s.known))

\* The function that a pass has built, with what it means for exits.
transformed(f, exit_states, done) ==
  LET output == set_return(done.builder, done.mapped[f.return_value]).function
  IN [function |-> output, mapping |-> done.mapped, changed |-> done.changed,
      exit_states |-> mapped_exit_states(output, done.mapped, exit_states)]

transform_once(f, exit_states) ==
  LET live == live_values(f, exit_states)
      first == FunctionBuilder(f.parameter_types, f.memory_region_count)
      slots == [first EXCEPT !.function.frame_slots = f.frame_slots,
                             !.function.trusted_objects = f.trusted_objects,
                             !.function.patch_cells = f.patch_cells, !.function.fast_calls = f.fast_calls]
      count == Len(f.parameter_types)
  IN transformed(f, exit_states,
       FoldLeft(LAMBDA s, v : IF v \in live THEN transform_node(f, s, v) ELSE [s EXCEPT !.changed = TRUE],
                [builder |-> slots, mapped |-> [v \in 0..Len(f.nodes) |-> IF v <= count THEN v ELSE 0],
                 known |-> <<>>, changed |-> FALSE],
                [i \in 1..Len(f.nodes)-count |-> count + i]))

-----------------------------------------------------------------------------

Failed(f) == [ok |-> FALSE, function |-> f, mapping |-> Unmapped(f)]

kMaximumCanonicalizationPasses == 8
exit_states_are_valid(f, exit_states) ==
  \A e \in ToSet(exit_states) :
    /\ e.exit \in DOMAIN f.nodes /\ is_nonzero_guard(f.nodes[e.exit].op)
    /\ \A v \in ToSet(e.live_values) : v \in 1..e.exit-1

\* The pass `next` follows `s`, unless that one changed nothing.
followed(s, next) == IF s.changed THEN [next EXCEPT !.mapping = composed(s.mapping, @)] ELSE s
passes(f, exit_states) ==
  FoldLeft(LAMBDA s, i : followed(s, transform_once(s.function, s.exit_states)),
           [function |-> f, exit_states |-> exit_states, changed |-> TRUE, mapping |-> [v \in 0..Len(f.nodes) |-> v]],
           [i \in 1..kMaximumCanonicalizationPasses |-> i])

straight_result(f, result) ==
  IF ~verify_straight(result.function) THEN Failed(f)
  ELSE [ok |-> TRUE, function |-> result.function, mapping |-> result.mapping]
run_straight(f, exit_states) ==
  IF ~verify_straight(f) \/ ~exit_states_are_valid(f, exit_states) THEN Failed(f)
  ELSE straight_result(f, passes(f, exit_states))

-----------------------------------------------------------------------------
(***************************************************************************)
(* Control-flow functions.                                                 *)
(***************************************************************************)

control_value_available(f, v, exit) ==
  LET dominators == Dominators(f)
  IN {v, exit} \subseteq DOMAIN f.nodes /\ available(f, dominators, v, Owner(f, exit), Position(f, Owner(f, exit), exit))

control_exit_states_are_valid(f, exit_states) ==
  \A e \in ToSet(exit_states) :
    /\ e.exit \in DOMAIN f.nodes /\ is_nonzero_guard(f.nodes[e.exit].op)
    /\ \A v \in ToSet(e.live_values) : control_value_available(f, v, e.exit)

\* A guard stays even when its condition is known.
control_simplify(f, n, known) ==
  LET both == {n.lhs, n.rhs} \subseteq DOMAIN known
  IN CASE n.op = "kConstant" -> Constant(n.imm)
       [] n.op \in VectorOps -> try_fold_vector(f, n, known)
       [] is_unary(n.op) /\ n.lhs \in DOMAIN known -> Constant(fold_control_unary(n.op, known[n.lhs], n.imm))
       [] is_unary(n.op) /\ cancels(f, n) -> Same(f.nodes[n.lhs].lhs)
       [] is_binary(n.op) /\ both -> Constant(fold_control_binary(n.op, known[n.lhs], known[n.rhs]))
       [] n.op \in {"kLessThan", "kNotEqual"} /\ n.lhs = n.rhs -> Constant(0)
       [] n.op \in {"kLessEqual", "kEqual"} /\ n.lhs = n.rhs -> Constant(1)
       [] n.op \in WordOps -> Replaced(n, known, control_identities)
       [] OTHER -> Emitted

\* In the order of the values, which need not be that of execution.
with_decision(s, v, decision) ==
  [made |-> Append(s.made, decision), known |-> WithKnown(s.known, v, decision)]
decisions(f) ==
  FoldLeftDomain(LAMBDA s, v : with_decision(s, v, control_simplify(f, f.nodes[v], s.known)),
                 [made |-> <<>>, known |-> <<>>], f.nodes).made

IsParameter(n) == n.op \in {"kParameter", "kBlockParameter"}
TerminatorRoots(terminator) ==
  {v \in {terminator.value} \cup UNION {ToSet(edge.arguments) : edge \in Edges(terminator)} : v # 0}

\* A variant of live_control_values that forgets what exits need.
live_without_exits(f, made, exit_states) ==
  LiveFrom(f, {v \in DOMAIN f.nodes : IsParameter(f.nodes[v]) \/ HasEffect(f.nodes[v].op)}
              \cup UNION {TerminatorRoots(f.blocks[b].terminator) : b \in DOMAIN f.blocks},
           [v \in DOMAIN f.nodes |-> CASE made[v].kind = "constant" -> {}
                                       [] made[v].kind = "same" -> {made[v].value}
                                       [] OTHER -> Operands(f.nodes[v])])
live_control_values(f, made, exit_states) ==
  LiveFrom(f, {v \in DOMAIN f.nodes : IsParameter(f.nodes[v]) \/ HasEffect(f.nodes[v].op)}
              \cup UNION {TerminatorRoots(f.blocks[b].terminator) : b \in DOMAIN f.blocks}
              \cup ExitRoots(exit_states),
           [v \in DOMAIN f.nodes |-> CASE made[v].kind = "constant" -> {}
                                       [] made[v].kind = "same" -> {made[v].value}
                                       [] OTHER -> Operands(f.nodes[v])])

\* A builder with the slots of `f` and its blocks `kept`, in order, and where
\* their parameters went.
recreated(f, kept) ==
  LET first == ControlFlowBuilder(f.parameter_types, f.memory_region_count)
      slots == [first EXCEPT !.function.frame_slots = f.frame_slots,
                             !.function.trusted_objects = f.trusted_objects,
                             !.function.patch_cells = f.patch_cells, !.function.fast_calls = f.fast_calls]
      types(b) == [i \in DOMAIN f.blocks[b].parameters |-> value_type(f, f.blocks[b].parameters[i])]
      builder == FoldLeft(LAMBDA built, b : create_block(built, types(b)), slots, Tail(kept))
      pairs == {<<k, i>> \in (DOMAIN kept) \X (DOMAIN f.nodes) : i \in DOMAIN f.blocks[kept[k]].parameters}
  IN [builder |-> builder, failed |-> FALSE, known |-> [b \in DOMAIN kept |-> <<>>],
      mapped |-> [v \in {f.blocks[kept[p[1]]].parameters[p[2]] : p \in pairs} |->
                    LET p == CHOOSE p \in pairs : f.blocks[kept[p[1]]].parameters[p[2]] = v
                    IN builder.function.blocks[p[1]].parameters[p[2]]] @@ Unmapped(f)]

NewBlock(kept, b) == CHOOSE k \in DOMAIN kept : kept[k] = b
Appended(s, block, v, n) ==
  LET builder == append_node(set_insertion_block(s.builder, block), n)
  IN [s EXCEPT !.builder = builder, !.mapped[v] = Last(builder.returned),
               !.failed = @ \/ Last(builder.returned) = 0]

mapped_edge(edge, mapped, kept) ==
  IF edge = NoEdge THEN NoEdge
  ELSE [target |-> NewBlock(kept, edge.target),
        arguments |-> [i \in DOMAIN edge.arguments |-> mapped[edge.arguments[i]]]]
Terminated(s, kept, b, terminator) ==
  LET builder == set_terminator(set_insertion_block([s.builder EXCEPT !.refused = FALSE], NewBlock(kept, b)),
                   [op |-> terminator.op, value |-> s.mapped[terminator.value],
                    true_edge |-> mapped_edge(terminator.true_edge, s.mapped, kept),
                    false_edge |-> mapped_edge(terminator.false_edge, s.mapped, kept)])
  IN [s EXCEPT !.builder = builder, !.failed = @ \/ builder.refused]

rebuild_node(f, made, s, v) ==
  IF made[v].kind = "same"
  THEN [s EXCEPT !.mapped[v] = s.mapped[made[v].value], !.failed = @ \/ s.mapped[made[v].value] = 0]
  ELSE Appended(s, Owner(f, v), v, Rebuilt(f.nodes[v], made[v], s.mapped))

rebuild_decided(f, exit_states, made) ==
  LET live == live_control_values(f, made, exit_states)
      all == [b \in DOMAIN f.blocks |-> b]
      nodes == FoldLeftDomain(LAMBDA s, v : IF v \notin live \/ IsParameter(f.nodes[v]) \/ s.failed THEN s
                                            ELSE rebuild_node(f, made, s, v), recreated(f, all), f.nodes)
  IN FoldLeft(LAMBDA s, b : IF s.failed THEN s ELSE Terminated(s, all, b, f.blocks[b].terminator), nodes, all)
rebuild(f, exit_states) == rebuild_decided(f, exit_states, decisions(f))

-----------------------------------------------------------------------------
(***************************************************************************)
(* Canonicalization: a branch on a constant becomes a jump, blocks that    *)
(* can no longer be reached are dropped, and within a block an operation   *)
(* is computed once, as long as no effect comes between.                   *)
(***************************************************************************)

constant_branch_edge(f, terminator) ==
  IF terminator.op # "kBranch" \/ f.nodes[terminator.value].op # "kConstant" THEN NoEdge
  ELSE IF f.nodes[terminator.value].imm # 0 THEN terminator.true_edge ELSE terminator.false_edge

canonical_terminator(f, terminator) ==
  LET edge == constant_branch_edge(f, terminator)
  IN IF edge = NoEdge THEN terminator ELSE [NoTerminator EXCEPT !.op = "kJump", !.true_edge = edge]

reachable_blocks(f) ==
  LET within[n \in 0..Len(f.blocks)] ==
        IF n = 0 THEN {1}
        ELSE LET before == within[n-1]
             IN before \cup {edge.target : edge \in UNION {Edges(canonical_terminator(f, f.blocks[b].terminator)) :
                                                              b \in before}}
  IN within[Len(f.blocks)]

live_canonical_values(f, reachable, exit_states) ==
  LET owned == {v \in DOMAIN f.nodes : Owner(f, v) \in reachable}
  IN LiveFrom(f, {v \in owned : IsParameter(f.nodes[v]) \/ HasEffect(f.nodes[v].op)}
                 \cup UNION {TerminatorRoots(canonical_terminator(f, f.blocks[b].terminator)) : b \in reachable}
                 \cup ExitRoots(SelectSeq(exit_states, LAMBDA e : e.exit \in owned)),
              [v \in DOMAIN f.nodes |-> Operands(f.nodes[v])])

is_reusable(op) == op = "kConstant" \/ is_unary(op) \/ is_binary(op)
ControlValueKey(n) == [n EXCEPT !.imm = IF is_binary(n.op) THEN 0 ELSE @]

\* s.known[k] is what the new block k has computed since its last effect.
canonicalize_node(f, kept, s, v) ==
  LET block == NewBlock(kept, Owner(f, v))
      n == emitted(f.nodes[v], s.mapped)
      key == ControlValueKey(n)
      next == Appended(s, block, v, n)
  IN IF is_reusable(n.op) /\ key \in DOMAIN s.known[block] THEN [s EXCEPT !.mapped[v] = s.known[block][key]]
     ELSE [next EXCEPT !.known[block] = CASE HasEffect(n.op) -> <<>>
                                          [] is_reusable(n.op) -> (key :> next.mapped[v]) @@ @
                                          [] OTHER -> @]

control_result(f, done) ==
  IF done.failed \/ ~verify(done.builder.function) THEN Failed(f)
  ELSE [ok |-> TRUE, function |-> done.builder.function, mapping |-> done.mapped]

canonicalize_control_flow(f, exit_states) ==
  LET reachable == reachable_blocks(f)
      kept == SelectSeq([b \in DOMAIN f.blocks |-> b], LAMBDA b : b \in reachable)
      live == live_canonical_values(f, reachable, exit_states)
      nodes == FoldLeftDomain(LAMBDA s, v : IF v \notin live \/ IsParameter(f.nodes[v]) \/ s.failed THEN s
                                            ELSE IF Owner(f, v) \notin reachable THEN [s EXCEPT !.failed = TRUE]
                                            ELSE canonicalize_node(f, kept, s, v), recreated(f, kept), f.nodes)
  IN control_result(f, FoldLeft(LAMBDA s, b : IF s.failed THEN s
                                  ELSE Terminated(s, kept, b, canonical_terminator(f, f.blocks[b].terminator)),
                                nodes, kept))

canonical_result(f, built, canonical) ==
  IF ~canonical.ok THEN Failed(f)
  ELSE [ok |-> TRUE, function |-> canonical.function, mapping |-> composed(built.mapping, canonical.mapping)]
canonicalize_rebuilt(f, exit_states, built) ==
  IF ~built.ok THEN Failed(f)
  ELSE canonical_result(f, built, canonicalize_control_flow(
         built.function, mapped_exit_states(built.function, built.mapping, exit_states)))

run_control_flow(f, exit_states) ==
  IF ~verify(f) \/ ~control_exit_states_are_valid(f, exit_states) THEN Failed(f)
  ELSE canonicalize_rebuilt(f, exit_states, control_result(f, rebuild(f, exit_states)))

=============================================================================
