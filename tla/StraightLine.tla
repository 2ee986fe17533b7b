---------------------------- MODULE StraightLine ----------------------------
(***************************************************************************)
(* Straight-line functions: FunctionBuilder (src/ir/function.cpp), the     *)
(* verifier (src/ir/verifier.cpp) and the interpreter                      *)
(* (src/ir/interpreter.cpp).  Such a function has no blocks and a return   *)
(* value; a node may name any earlier one.                                 *)
(***************************************************************************)
EXTENDS NodeEvaluation

FunctionBuilder(parameter_types, memory_region_count) ==
  [function |-> [EmptyFunction(parameter_types, memory_region_count) EXCEPT
                   !.nodes = [i \in DOMAIN parameter_types |->
                                [Node EXCEPT !.op = "kParameter", !.imm = i, !.type = parameter_types[i]]]]
                @@ [return_value |-> 0],
   returned |-> [i \in DOMAIN parameter_types |-> i], refused |-> FALSE]

append(builder, n) ==
  [builder EXCEPT !.function.nodes = Append(@, n),
                  !.returned = Append(@, Len(builder.function.nodes) + 1)]

WordMethod == [add |-> "kAdd", subtract |-> "kSubtract", multiply |-> "kMultiply",
               bitwise_and |-> "kBitwiseAnd", bitwise_or |-> "kBitwiseOr", bitwise_xor |-> "kBitwiseXor",
               shift_left |-> "kShiftLeft", floor_divide |-> "kFloorDivide", floor_modulo |-> "kFloorModulo",
               less_than |-> "kLessThan", less_equal |-> "kLessEqual", equal |-> "kEqual",
               not_equal |-> "kNotEqual"]
Float64Method == [float64_add |-> "kFloatAdd", float64_subtract |-> "kFloatSubtract",
                  float64_multiply |-> "kFloatMultiply", float64_divide |-> "kFloatDivide",
                  float64_less_than |-> "kFloatLessThan", float64_less_equal |-> "kFloatLessEqual",
                  float64_equal |-> "kFloatEqual", float64_not_equal |-> "kFloatNotEqual"]
UnaryNode == [negate |-> "kNegate", bitwise_not |-> "kBitwiseNot", byte_swap |-> "kByteSwap",
              float64_negate |-> "kFloatNegate"]
GuardMethod == [guard_float64_nonzero |-> "kGuardFloatNonzero", guard_word_nonzero |-> "kGuardWordNonzero"]
AccessMethod == [load_word |-> "kLoadWord", store_word |-> "kStoreWord", load_float |-> "kLoadFloat",
                 store_float |-> "kStoreFloat", load_vector |-> "kLoadVector", store_vector |-> "kStoreVector"]
AtomicNode == [atomic_load |-> "kAtomicLoad", atomic_store |-> "kAtomicStore",
               atomic_exchange |-> "kAtomicExchange",
               atomic_compare_exchange_observed |-> "kAtomicCompareExchange",
               atomic_fetch_add |-> "kAtomicFetchAdd", atomic_fetch_and |-> "kAtomicFetchAnd",
               atomic_fetch_or |-> "kAtomicFetchOr", atomic_fetch_xor |-> "kAtomicFetchXor"]

BinaryNode(c) ==
  LET op == (WordMethod @@ Float64Method)[c.method]
  IN [Node EXCEPT !.op = op, !.lhs = c.lhs, !.rhs = c.rhs,
                  !.type = IF op \in FloatOps THEN "kFloat64" ELSE "kWord"]
CallNode(f, c) ==
  IF c.method = "call" THEN [Node EXCEPT !.op = "kCall", !.imm = c.imm, !.type = c.type, !.args = c.args]
  ELSE [Node EXCEPT !.op = "kFastCall", !.imm = c.imm, !.args = c.args,
          !.type = IF c.imm \in DOMAIN f.fast_calls THEN f.fast_calls[c.imm].return_type ELSE "kWord"]
\* Only a word load keeps the sign extension it was given.
AccessNode(f, c) ==
  [Node EXCEPT !.op = AccessMethod[c.method], !.lhs = c.lhs, !.rhs = c.rhs, !.imm = c.imm,
               !.type = CASE c.method \in {"load_float", "store_float"} -> "kFloat64"
                          [] c.method = "load_vector" -> c.type
                          [] c.method = "store_vector" -> value_type(f, c.rhs)
                          [] OTHER -> "kWord",
               !.access = IF c.method = "load_word" THEN c.access ELSE [c.access EXCEPT !.sign_extend = FALSE]]
FrameNode(f, c) ==
  [Node EXCEPT !.op = IF c.method = "load_frame" THEN "kLoadFrame" ELSE "kStoreFrame", !.lhs = c.lhs,
               !.slot = c.slot,
               !.type = IF c.slot \in DOMAIN f.frame_slots THEN f.frame_slots[c.slot] ELSE "kWord"]
ObjectNode(f, c) ==
  [Node EXCEPT !.op = IF c.method = "load_object" THEN "kLoadObject" ELSE "kStoreObject", !.lhs = c.lhs,
               !.slot = c.slot, !.imm = c.imm,
               !.type = IF c.method = "load_object" THEN c.type ELSE value_type(f, c.lhs)]
VectorNodeOf == [vector_constant |-> "kVectorConstant", vector_splat |-> "kVectorSplat",
                 vector_extract_lane |-> "kVectorExtractLane", vector_insert_lane |-> "kVectorInsertLane",
                 vector_unary |-> "kVectorUnary", vector_binary |-> "kVectorBinary",
                 vector_compare |-> "kVectorCompare", vector_select |-> "kVectorSelect",
                 vector_lane_sign_mask |-> "kVectorLaneSignMask", vector_shuffle |-> "kVectorShuffle",
                 vector_widen |-> "kVectorWiden"]
VectorNode(f, c) ==
  [Node EXCEPT !.op = VectorNodeOf[c.method], !.lhs = c.lhs, !.rhs = c.rhs, !.imm = c.imm, !.sub = c.sub,
               !.args = c.args, !.lanes = c.lanes,
               !.type = CASE c.method \in {"vector_constant", "vector_splat", "vector_widen"} -> c.type
                          [] c.method \in {"vector_extract_lane", "vector_lane_sign_mask"} -> "kWord"
                          [] c.method = "vector_compare" -> vector_mask_type(value_type(f, c.lhs))
                          [] c.method = "vector_select" -> value_type(f, c.rhs)
                          [] OTHER -> value_type(f, c.lhs)]

NodeOf(f, c) ==
  CASE c.method \in {"constant", "float64_constant"} -> [Node EXCEPT !.imm = c.imm, !.type = c.type]
    [] c.method \in DOMAIN (WordMethod @@ Float64Method) -> BinaryNode(c)
    [] c.method \in DOMAIN UnaryNode ->
         [Node EXCEPT !.op = UnaryNode[c.method], !.lhs = c.lhs, !.imm = c.imm,
                      !.type = IF c.method = "float64_negate" THEN "kFloat64" ELSE "kWord"]
    [] c.method \in {"call", "fast_call"} -> CallNode(f, c)
    [] c.method \in DOMAIN GuardMethod ->
         [Node EXCEPT !.op = GuardMethod[c.method], !.lhs = c.lhs, !.imm = c.imm]
    [] c.method = "safepoint" -> [Node EXCEPT !.op = "kSafepoint", !.imm = c.imm]
    [] c.method \in DOMAIN AccessMethod -> AccessNode(f, c)
    [] c.method \in DOMAIN AtomicNode ->
         [Node EXCEPT !.op = AtomicNode[c.method], !.lhs = c.lhs, !.rhs = c.rhs, !.aux = c.aux,
                      !.imm = c.imm, !.access = c.access]
    [] c.method = "atomic_fence" -> [Node EXCEPT !.op = "kAtomicFence", !.sub = c.sub]
    [] c.method \in {"load_frame", "store_frame"} -> FrameNode(f, c)
    [] c.method \in {"load_object", "store_object"} -> ObjectNode(f, c)
    [] c.method = "load_patch_cell" -> [Node EXCEPT !.op = "kLoadPatchCell", !.imm = c.imm]
    [] c.method \in DOMAIN VectorNodeOf -> VectorNode(f, c)

\* The expected value is masked to the access width first.
CompareExchange(builder, c) ==
  LET narrow == c.access.width < 8
      size == Len(builder.function.nodes)
      masked == append(append(builder, [Node EXCEPT !.imm = 2^c.access.width - 1]),
                       [Node EXCEPT !.op = "kBitwiseAnd", !.lhs = c.rhs, !.rhs = size + 1])
      before == IF narrow THEN masked ELSE builder
      expected == IF narrow THEN size + 2 ELSE c.rhs
      observed == Len(before.function.nodes) + 1
      compared == append(append(before, [Node EXCEPT !.op = "kAtomicCompareExchange", !.lhs = c.lhs,
                                           !.rhs = expected, !.aux = c.aux, !.imm = c.imm, !.access = c.access]),
                         [Node EXCEPT !.op = "kEqual", !.lhs = observed, !.rhs = expected])
  IN [compared EXCEPT !.returned = builder.returned \o <<observed, observed + 1>>]

set_return(builder, v) ==
  IF v \in DOMAIN builder.function.nodes /\ is_scalar_value_type(value_type(builder.function, v))
  THEN [builder EXCEPT !.function.return_value = v]
  ELSE [builder EXCEPT !.refused = TRUE]

-----------------------------------------------------------------------------
(***************************************************************************)
(* Verification: every node is held to its rule, with the earlier nodes as *)
(* the ones it may name.                                                   *)
(***************************************************************************)

Earlier(v) == 1..v-1
verify_parameter(f, v) ==
  LET n == f.nodes[v]
  IN IF v > Len(f.parameter_types) THEN n.op # "kParameter"
     ELSE n.op = "kParameter" /\ n.imm = v /\ n.type = f.parameter_types[v] /\ is_scalar_value_type(n.type)
verify_call(f, v) ==
  CASE f.nodes[v].op = "kCall" -> CallRule(f, f.nodes[v], Earlier(v))
    [] f.nodes[v].op = "kFastCall" -> FastCallRule(f, f.nodes[v], Earlier(v))
    [] OTHER -> TRUE
verify_vector(f, v) == f.nodes[v].op \in VectorOps => VectorRule(f, f.nodes[v], Earlier(v))
verify_memory(f, v) == f.nodes[v].op \in BoundedOps => MemoryRule(f, v, Earlier(v))
verify_atomic(f, v) ==
  CASE f.nodes[v].op \in AtomicOps -> AtomicRule(f, v, Earlier(v))
    [] f.nodes[v].op = "kAtomicFence" -> FenceRule(f.nodes[v])
    [] OTHER -> TRUE
verify_slot(f, v) ==
  CASE f.nodes[v].op \in FrameOps -> FrameRule(f, f.nodes[v], Earlier(v))
    [] f.nodes[v].op \in ObjectOps -> ObjectRule(f, f.nodes[v], Earlier(v))
    [] f.nodes[v].op = "kLoadPatchCell" -> PatchCellRule(f, f.nodes[v])
    [] OTHER -> TRUE
verify_exit(f, v) ==
  CASE f.nodes[v].op \in GuardOps -> GuardRule(f, v, Earlier(v))
    [] f.nodes[v].op = "kSafepoint" -> SafepointRule(f, v)
    [] OTHER -> TRUE
verify_scalar(f, v) ==
  CASE f.nodes[v].op = "kConstant" -> ConstantRule(f.nodes[v])
    [] is_unary(f.nodes[v].op) -> UnaryRule(f, f.nodes[v], Earlier(v))
    [] is_binary(f.nodes[v].op) -> BinaryRule(f, f.nodes[v], Earlier(v))
    [] OTHER -> TRUE

verify_straight(f) ==
  /\ Len(f.parameter_types) <= Len(f.nodes)
  /\ DescriptorsAreWellFormed(f)
  /\ \A v \in DOMAIN f.nodes :
       /\ FieldsBelongToNode(f.nodes[v]) /\ verify_parameter(f, v) /\ verify_scalar(f, v)
       /\ verify_call(f, v) /\ verify_vector(f, v) /\ verify_memory(f, v) /\ verify_atomic(f, v)
       /\ verify_slot(f, v) /\ verify_exit(f, v)
  /\ f.return_value \in DOMAIN f.nodes /\ is_scalar_value_type(value_type(f, f.return_value))

with_return(f, done) ==
  IF done.outcome # Running THEN done
  ELSE [done EXCEPT !.outcome = Returned(ReadValue(f, done, f.return_value))]
evaluate(f, answers, run) ==
  with_return(f, FoldLeftDomain(LAMBDA r, v : IF f.nodes[v].op = "kParameter" THEN r
                                              ELSE Interpreted(f, answers, r, v), run, f.nodes))

=============================================================================
