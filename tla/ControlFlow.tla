----------------------------- MODULE ControlFlow -----------------------------
(***************************************************************************)
(* Control-flow functions: ControlFlowBuilder, the verifier and the        *)
(* interpreter of src/ir/control_flow.cpp.  A function is a list of nodes  *)
(* and a list of blocks; a block owns instructions, the first of which are *)
(* its parameters, and ends in a terminator that hands arguments to the    *)
(* parameters of the block it goes to.                                     *)
(***************************************************************************)
EXTENDS NodeEvaluation

NoEdge == [target |-> 0, arguments |-> <<>>]
NoTerminator == [op |-> "kNone", value |-> 0, true_edge |-> NoEdge, false_edge |-> NoEdge]
EmptyBlock == [parameters |-> <<>>, instructions |-> <<>>, terminator |-> NoTerminator]

Edges(terminator) ==
  CASE terminator.op = "kJump" -> {terminator.true_edge}
    [] terminator.op = "kBranch" -> {terminator.true_edge, terminator.false_edge}
    [] OTHER -> {}
Targets(f, b) == {edge.target : edge \in Edges(f.blocks[b].terminator)}

-----------------------------------------------------------------------------
(***************************************************************************)
(* The builder: the function so far, the block that instructions go to and *)
(* the values handed back to the caller, 0 where a call was refused.       *)
(***************************************************************************)

append_node(builder, n) ==
  LET f == builder.function
      v == Len(f.nodes) + 1
      block == builder.insertion_block
  IN IF block \notin DOMAIN f.blocks \/ f.blocks[block].terminator.op # "kNone"
     THEN [builder EXCEPT !.returned = Append(@, 0)]
     ELSE [builder EXCEPT !.function.nodes = Append(@, n),
                          !.function.blocks[block].instructions = Append(@, v),
                          !.returned = Append(@, v)]

\* The parameters of a block are its first instructions.
create_block(builder, parameter_types) ==
  LET block == Len(builder.function.blocks) + 1
      first == Len(builder.function.nodes)
      kind == IF block = 1 THEN "kParameter" ELSE "kBlockParameter"
      ids == [i \in DOMAIN parameter_types |-> first + i]
  IN [builder EXCEPT
        !.function.blocks = Append(@, [EmptyBlock EXCEPT !.parameters = ids, !.instructions = ids]),
        !.function.nodes = @ \o [i \in DOMAIN parameter_types |->
                                   [Node EXCEPT !.op = kind, !.imm = i, !.type = parameter_types[i]]],
        !.returned = @ \o ids]

ControlFlowBuilder(parameter_types, memory_region_count) ==
  create_block([function |-> EmptyFunction(parameter_types, memory_region_count), insertion_block |-> 1,
                returned |-> <<>>, refused |-> FALSE], parameter_types)

set_insertion_block(builder, block) ==
  IF block \in DOMAIN builder.function.blocks THEN [builder EXCEPT !.insertion_block = block]
  ELSE [builder EXCEPT !.refused = TRUE]

\* The node each method appends.  A call `c` has the fields of a node.
constant_node(c) == [Node EXCEPT !.imm = c.imm, !.type = c.type]
BinaryMethod == [add |-> "kAdd", subtract |-> "kSubtract", multiply |-> "kMultiply",
                 bitwise_and |-> "kBitwiseAnd", bitwise_or |-> "kBitwiseOr", bitwise_xor |-> "kBitwiseXor",
                 shift_left |-> "kShiftLeft", floor_divide |-> "kFloorDivide", floor_modulo |-> "kFloorModulo"]
ComparisonMethod == [less_than |-> "kLessThan", less_equal |-> "kLessEqual", equal |-> "kEqual",
                     not_equal |-> "kNotEqual"]
FloatMethod == [float64_add |-> "kFloatAdd", float64_subtract |-> "kFloatSubtract",
                float64_multiply |-> "kFloatMultiply", float64_divide |-> "kFloatDivide",
                float64_less_than |-> "kFloatLessThan", float64_less_equal |-> "kFloatLessEqual",
                float64_equal |-> "kFloatEqual", float64_not_equal |-> "kFloatNotEqual"]
append_binary(c) ==
  LET op == (BinaryMethod @@ ComparisonMethod @@ FloatMethod)[c.method]
  IN [Node EXCEPT !.op = op, !.lhs = c.lhs, !.rhs = c.rhs,
                  !.type = IF op \in FloatOps THEN "kFloat64" ELSE "kWord"]
UnaryMethod == [negate |-> "kNegate", bitwise_not |-> "kBitwiseNot", byte_swap |-> "kByteSwap",
                float64_negate |-> "kFloatNegate"]
append_unary(c) ==
  [Node EXCEPT !.op = UnaryMethod[c.method], !.lhs = c.lhs, !.imm = c.imm,
               !.type = IF c.method = "float64_negate" THEN "kFloat64" ELSE "kWord"]
call_node(c) == [Node EXCEPT !.op = "kCall", !.imm = c.imm, !.type = c.type, !.args = c.args]
fast_call_node(f, c) ==
  [Node EXCEPT !.op = "kFastCall", !.imm = c.imm, !.args = c.args,
               !.type = IF c.imm \in DOMAIN f.fast_calls THEN f.fast_calls[c.imm].return_type ELSE "kWord"]
ExitMethod == [guard_float64_nonzero |-> "kGuardFloatNonzero", guard_word_nonzero |-> "kGuardWordNonzero",
               safepoint |-> "kSafepoint"]
exit_node(c) == [Node EXCEPT !.op = ExitMethod[c.method], !.lhs = c.lhs, !.imm = c.imm]
MemoryMethod == [load_word |-> "kLoadWord", store_word |-> "kStoreWord", load_float |-> "kLoadFloat",
                 store_float |-> "kStoreFloat", load_vector |-> "kLoadVector", store_vector |-> "kStoreVector"]
\* Only a word load keeps the sign extension it was given.
memory_node(f, c) ==
  [Node EXCEPT !.op = MemoryMethod[c.method], !.lhs = c.lhs, !.rhs = c.rhs, !.imm = c.imm,
               !.type = CASE c.method \in {"load_float", "store_float"} -> "kFloat64"
                          [] c.method = "load_vector" -> c.type
                          [] c.method = "store_vector" -> value_type(f, c.rhs)
                          [] OTHER -> "kWord",
               !.access = IF c.method = "load_word" THEN c.access ELSE [c.access EXCEPT !.sign_extend = FALSE]]
AtomicMethod == [atomic_load |-> "kAtomicLoad", atomic_store |-> "kAtomicStore",
                 atomic_exchange |-> "kAtomicExchange",
                 atomic_compare_exchange_observed |-> "kAtomicCompareExchange",
                 atomic_fetch_add |-> "kAtomicFetchAdd", atomic_fetch_and |-> "kAtomicFetchAnd",
                 atomic_fetch_or |-> "kAtomicFetchOr", atomic_fetch_xor |-> "kAtomicFetchXor"]
append_atomic(c) ==
  [Node EXCEPT !.op = AtomicMethod[c.method], !.lhs = c.lhs, !.rhs = c.rhs, !.aux = c.aux, !.imm = c.imm,
               !.access = c.access]
atomic_fence(c) == [Node EXCEPT !.op = "kAtomicFence", !.sub = c.sub]
frame_node(f, c) ==
  [Node EXCEPT !.op = IF c.method = "load_frame" THEN "kLoadFrame" ELSE "kStoreFrame", !.lhs = c.lhs,
               !.slot = c.slot,
               !.type = IF c.slot \in DOMAIN f.frame_slots THEN f.frame_slots[c.slot] ELSE "kWord"]
object_node(f, c) ==
  [Node EXCEPT !.op = IF c.method = "load_object" THEN "kLoadObject" ELSE "kStoreObject", !.lhs = c.lhs,
               !.slot = c.slot, !.imm = c.imm,
               !.type = IF c.method = "load_object" THEN c.type ELSE value_type(f, c.lhs)]
load_patch_cell(c) == [Node EXCEPT !.op = "kLoadPatchCell", !.imm = c.imm]
VectorMethod == [vector_constant |-> "kVectorConstant", vector_splat |-> "kVectorSplat",
                 vector_extract_lane |-> "kVectorExtractLane", vector_insert_lane |-> "kVectorInsertLane",
                 vector_unary |-> "kVectorUnary", vector_binary |-> "kVectorBinary",
                 vector_compare |-> "kVectorCompare", vector_select |-> "kVectorSelect",
                 vector_lane_sign_mask |-> "kVectorLaneSignMask", vector_shuffle |-> "kVectorShuffle",
                 vector_widen |-> "kVectorWiden"]
vector_node(f, c) ==
  [Node EXCEPT !.op = VectorMethod[c.method], !.lhs = c.lhs, !.rhs = c.rhs, !.imm = c.imm, !.sub = c.sub,
               !.args = c.args, !.lanes = c.lanes,
               !.type = CASE c.method \in {"vector_constant", "vector_splat", "vector_widen"} -> c.type
                          [] c.method \in {"vector_extract_lane", "vector_lane_sign_mask"} -> "kWord"
                          [] c.method = "vector_compare" -> vector_mask_type(value_type(f, c.lhs))
                          [] c.method = "vector_select" -> value_type(f, c.rhs)
                          [] OTHER -> value_type(f, c.lhs)]

built_node(f, c) ==
  CASE c.method \in {"constant", "float64_constant"} -> constant_node(c)
    [] c.method \in DOMAIN (BinaryMethod @@ ComparisonMethod @@ FloatMethod) -> append_binary(c)
    [] c.method \in DOMAIN UnaryMethod -> append_unary(c)
    [] c.method = "call" -> call_node(c)
    [] c.method = "fast_call" -> fast_call_node(f, c)
    [] c.method \in DOMAIN ExitMethod -> exit_node(c)
    [] c.method \in DOMAIN MemoryMethod -> memory_node(f, c)
    [] c.method \in DOMAIN AtomicMethod -> append_atomic(c)
    [] c.method = "atomic_fence" -> atomic_fence(c)
    [] c.method \in {"load_frame", "store_frame"} -> frame_node(f, c)
    [] c.method \in {"load_object", "store_object"} -> object_node(f, c)
    [] c.method = "load_patch_cell" -> load_patch_cell(c)
    [] c.method \in DOMAIN VectorMethod -> vector_node(f, c)

\* Compares the low bytes only: the expected value is masked to the access width
\* first.  Gives back what was observed and whether it was the expected value.
atomic_compare_exchange(builder, c) ==
  LET narrow == c.access.width < 8
      LastValue(b) == Last(b.returned)
      mask == append_node(builder, [Node EXCEPT !.imm = 2^c.access.width - 1])
      masked == append_node(mask, [Node EXCEPT !.op = "kBitwiseAnd", !.lhs = c.rhs, !.rhs = LastValue(mask)])
      before == IF narrow THEN masked ELSE builder
      expected == IF narrow THEN LastValue(masked) ELSE c.rhs
      observed == append_node(before, append_atomic([c EXCEPT !.method = "atomic_compare_exchange_observed",
                                                              !.rhs = expected]))
      compared == append_node(observed, [Node EXCEPT !.op = "kEqual", !.lhs = LastValue(observed),
                                                     !.rhs = expected])
      handed_back == IF LastValue(observed) = 0 THEN <<0, 0>> ELSE <<LastValue(observed), LastValue(compared)>>
  IN [compared EXCEPT !.returned = builder.returned \o handed_back]

create_slots(builder, c) ==
  [builder EXCEPT
     !.function = CASE c.method = "create_frame_slot" -> [@ EXCEPT !.frame_slots = Append(@, c.type)]
                    [] c.method = "create_trusted_object" ->
                         [@ EXCEPT !.trusted_objects =
                            Append(@, [layout_identity |-> 1, byte_size |-> c.imm])]
                    [] c.method = "create_patch_cell" -> [@ EXCEPT !.patch_cells = Append(@, [initial_value |-> c.imm, kind |-> c.sub])]
                    [] c.method = "create_fast_call" ->
                         [@ EXCEPT !.fast_calls =
                            Append(@, [parameter_types |-> c.types, return_type |-> c.type])]]

validate_edge(f, edge) ==
  /\ edge.target \in DOMAIN f.blocks \ {1}
  /\ Len(edge.arguments) = Len(f.blocks[edge.target].parameters)
  /\ \A i \in DOMAIN edge.arguments :
       /\ edge.arguments[i] \in DOMAIN f.nodes
       /\ value_type(f, edge.arguments[i]) = value_type(f, f.blocks[edge.target].parameters[i])

\* set_return, jump and branch.  A refused call changes nothing.
set_terminator(builder, terminator) ==
  LET f == builder.function
      block == builder.insertion_block
  IN IF /\ terminator.op \in {"kReturn", "kBranch"} => terminator.value \in DOMAIN f.nodes
        /\ terminator.op = "kReturn" => is_scalar_value_type(value_type(f, terminator.value))
        /\ \A edge \in Edges(terminator) : validate_edge(f, edge)
        /\ f.blocks[block].terminator.op = "kNone"
     THEN [builder EXCEPT !.function.blocks[block].terminator = terminator]
     ELSE [builder EXCEPT !.refused = TRUE]

-----------------------------------------------------------------------------
(***************************************************************************)
(* Verification.                                                           *)
(***************************************************************************)

Owner(f, v) == CHOOSE b \in DOMAIN f.blocks : Contains(f.blocks[b].instructions, v)
Position(f, b, v) == CHOOSE i \in DOMAIN f.blocks[b].instructions : f.blocks[b].instructions[i] = v

\* Every value belongs to one block; parameters come first and are numbered.
BlocksAreWellFormed(f) ==
  /\ f.blocks # <<>> /\ Len(f.parameter_types) = Len(f.blocks[1].parameters)
  /\ \A v \in DOMAIN f.nodes :
       Cardinality({<<b, i>> \in (DOMAIN f.blocks) \X (DOMAIN f.nodes) :
                      i \in DOMAIN f.blocks[b].instructions /\ f.blocks[b].instructions[i] = v}) = 1
  /\ \A b \in DOMAIN f.blocks :
       LET block == f.blocks[b]
       IN /\ ToSet(block.instructions) \subseteq DOMAIN f.nodes
          /\ IsPrefix(block.parameters, block.instructions)
          /\ \A i \in DOMAIN block.instructions :
               LET n == f.nodes[block.instructions[i]]
               IN IF i > Len(block.parameters) THEN n.op \notin {"kParameter", "kBlockParameter"}
                  ELSE /\ n.op = (IF b = 1 THEN "kParameter" ELSE "kBlockParameter")
                       /\ n.imm = i /\ is_valid_value_type(n.type) /\ n.lhs = 0 /\ n.rhs = 0
                       /\ b = 1 => n.type = f.parameter_types[i] /\ is_scalar_value_type(n.type)

EdgesAreWellFormed(f) ==
  \A b \in DOMAIN f.blocks :
    /\ f.blocks[b].terminator.op # "kNone"
    /\ \A edge \in Edges(f.blocks[b].terminator) : validate_edge(f, edge)

\* The blocks that a run can reach without passing through `avoided`.
ReachableWithout(f, avoided) ==
  LET within[n \in 0..Len(f.blocks)] ==
        IF n = 0 THEN {1} \ {avoided}
        ELSE LET before == within[n-1] IN before \cup (UNION {Targets(f, b) : b \in before} \ {avoided})
  IN within[Len(f.blocks)]

Dominators(f) ==
  LET hidden == SubSeq([c \in DOMAIN f.blocks |-> DOMAIN f.blocks \ ReachableWithout(f, c)], 1, Len(f.blocks))
  IN SubSeq([b \in DOMAIN f.blocks |-> {c \in DOMAIN f.blocks : b \in hidden[c]}], 1, Len(f.blocks))

\* A variant of available that only looks at the order of creation.
available_by_order(f, dominators, v, b, position) ==
  /\ v \in DOMAIN f.nodes
  /\ Owner(f, v) = b => Position(f, b, v) < position

\* A value can be used where its definition has been passed on every path.
available(f, dominators, v, b, position) ==
  /\ v \in DOMAIN f.nodes
  /\ IF Owner(f, v) = b THEN Position(f, b, v) < position ELSE Owner(f, v) \in dominators[b]

UsableAt(f, dominators, b, position) ==
  {v \in DOMAIN f.nodes : available(f, dominators, v, b, position)}

TerminatorRule(f, usable, terminator) ==
  /\ terminator.op \in {"kReturn", "kBranch"} => terminator.value \in usable
  /\ terminator.op = "kReturn" => is_scalar_value_type(value_type(f, terminator.value))
  /\ terminator.op = "kBranch" => value_type(f, terminator.value) = "kWord"
  /\ \A edge \in Edges(terminator) : ToSet(edge.arguments) \subseteq usable

ReturnsAgree(f) ==
  \A a, b \in DOMAIN f.blocks :
    f.blocks[a].terminator.op = "kReturn" /\ f.blocks[b].terminator.op = "kReturn" =>
      value_type(f, f.blocks[a].terminator.value) = value_type(f, f.blocks[b].terminator.value)

verify(f) ==
  /\ BlocksAreWellFormed(f) /\ DescriptorsAreWellFormed(f) /\ EdgesAreWellFormed(f)
  /\ ReachableWithout(f, 0) = DOMAIN f.blocks
  /\ LET dominators == Dominators(f)
     IN \A b \in DOMAIN f.blocks :
          LET block == f.blocks[b]
          IN /\ \A i \in Len(block.parameters)+1..Len(block.instructions) :
                  NodeRule(f, block.instructions[i], UsableAt(f, dominators, b, i))
             /\ TerminatorRule(f, UsableAt(f, dominators, b, Len(block.instructions) + 1), block.terminator)
  /\ ReturnsAgree(f)

-----------------------------------------------------------------------------
(***************************************************************************)
(* Interpretation, a block at a time.                                      *)
(***************************************************************************)

\* The arguments of an edge are read before any parameter is written.
take_edge(f, run, edge) ==
  LET parameters == f.blocks[edge.target].parameters
      incoming == [i \in DOMAIN parameters |-> ReadValue(f, run, edge.arguments[i])]
  IN [run EXCEPT !.block = edge.target,
                 !.values = [v \in ToSet(parameters) |->
                               incoming[CHOOSE i \in DOMAIN parameters : parameters[i] = v]] @@ @]

chosen_edge(terminator, condition) ==
  IF terminator.op = "kJump" \/ condition # 0 THEN terminator.true_edge ELSE terminator.false_edge

\* The end of a block, unless the run has left it.
evaluate_terminator(f, terminator, done) ==
  LET value == ReadValue(f, done, terminator.value)
      edge == IF terminator.op = "kReturn" THEN NoEdge ELSE chosen_edge(terminator, value)
      checked == [done EXCEPT
                    !.reads_are_computed =
                      @ /\ {terminator.value} \cup ToSet(edge.arguments) \subseteq DOMAIN done.values \cup {0}]
  IN IF done.outcome # Running THEN done
     ELSE IF terminator.op = "kReturn" THEN [checked EXCEPT !.outcome = Returned(value)]
     ELSE take_edge(f, [checked EXCEPT !.executions = @ + 1], edge)

evaluate_block(f, answers, maximum_block_executions, run) ==
  LET block == f.blocks[run.block]
      body == SubSeq(block.instructions, Len(block.parameters) + 1, Len(block.instructions))
  IN IF run.executions = maximum_block_executions THEN [run EXCEPT !.outcome = OutOfBudget]
     ELSE evaluate_terminator(f, block.terminator, FoldLeft(LAMBDA r, v : Interpreted(f, answers, r, v), run, body))

=============================================================================
