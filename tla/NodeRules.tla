------------------------------ MODULE NodeRules ------------------------------
(***************************************************************************)
(* The nodes of the IR and the rules a verifier holds each of them to.     *)
(* Both verifiers (src/ir/verifier.cpp for straight-line functions and     *)
(* src/ir/control_flow.cpp for control-flow graphs) ask the same of a node *)
(* and differ in which operands it may name; a rule takes that as usable.  *)
(* Values, blocks and slots are numbered from 1, and 0 is the invalid id.  *)
(* Arguments, access descriptors, vector constants and shuffles, which the *)
(* code keeps in side tables, are fields of their node; the checks that no *)
(* entry of a side table is shared or left over hold by that.              *)
(***************************************************************************)
EXTENDS VectorSemantics, NodeKinds, SequencesExt

BoundedOps == MemoryOps \cup {"kLoadVector", "kStoreVector"}
BoundedStores == {"kStoreWord", "kStoreFloat", "kStoreVector"}
VectorOps == {"kVectorConstant", "kVectorSplat", "kVectorExtractLane", "kVectorInsertLane", "kVectorUnary",
              "kVectorBinary", "kVectorCompare", "kVectorSelect", "kVectorLaneSignMask", "kVectorShuffle",
              "kVectorWiden"}
is_unary(op) == op \in UnaryOps \cup {"kFloatNegate"}
is_binary(op) == op \in WordOps \cup FloatOps \cup FloatConditions
is_runtime_exit(op) == op \in GuardOps \cup {"kSafepoint"} \cup BoundedOps \cup AtomicOps

\* A node as its constructor leaves the fields it is not given.  An immediate that
\* names an operation, a comparison or an order is the field sub.
Node == [op |-> "kConstant", lhs |-> 0, rhs |-> 0, aux |-> 0, imm |-> 0, sub |-> "", type |-> "kWord",
         args |-> <<>>, lanes |-> <<>>, slot |-> 0, access |-> [width |-> 0]]

\* A memory access, and the further fields of an atomic one.
Access(region, width) ==
  [region |-> region, width |-> width, alignment |-> width, byte_order |-> "kNative", sign_extend |-> FALSE,
   is_volatile |-> FALSE, order |-> "kSequentiallyConsistent", failure_order |-> "kRelaxed",
   strength |-> "kStrong"]

EmptyFunction(parameter_types, memory_region_count) ==
  [parameter_types |-> parameter_types, memory_region_count |-> memory_region_count, nodes |-> <<>>,
   blocks |-> <<>>, frame_slots |-> <<>>, trusted_objects |-> <<>>, patch_cells |-> <<>>, fast_calls |-> <<>>]

value_type(f, v) == IF v \in DOMAIN f.nodes THEN f.nodes[v].type ELSE "kWord"

\* The values a node reads.
Operands(n) == {v \in {n.lhs, n.rhs, n.aux} \cup ToSet(n.args) : v # 0}

-----------------------------------------------------------------------------

kMaximumByteSize == 2048
is_valid_patch_cell_kind(kind) == kind \in {"kValue", "kTarget", "kShape", "kGeneration", "kCounter"}

DescriptorsAreWellFormed(f) ==
  /\ \A i \in DOMAIN f.frame_slots : is_scalar_value_type(f.frame_slots[i])
  /\ \A i \in DOMAIN f.trusted_objects :
       LET object == f.trusted_objects[i]
       IN object.layout_identity # 0 /\ object.byte_size \in 8..kMaximumByteSize /\ object.byte_size % 8 = 0
  /\ \A i \in DOMAIN f.patch_cells : is_valid_patch_cell_kind(f.patch_cells[i].kind)
  /\ \A i \in DOMAIN f.fast_calls :
       \A type \in {f.fast_calls[i].return_type} \cup ToSet(f.fast_calls[i].parameter_types) :
         is_scalar_value_type(type)

\* What only some nodes may carry.
FieldsBelongToNode(n) ==
  /\ n.access.width # 0 => n.op \in BoundedOps \cup AtomicOps
  /\ n.aux # 0 => n.op = "kAtomicCompareExchange"
  /\ n.slot # 0 => n.op \in FrameOps \cup ObjectOps
  /\ n.args # <<>> => n.op \in CallOps \cup {"kVectorSelect"}

ConstantRule(n) == is_scalar_value_type(n.type) /\ n.lhs = 0 /\ n.rhs = 0

CallRule(f, n, usable) ==
  /\ n.lhs = 0 /\ n.rhs = 0
  /\ is_scalar_value_type(n.type)
  /\ n.imm # 0
  /\ \A v \in ToSet(n.args) : v \in usable /\ is_scalar_value_type(value_type(f, v))

FastCallRule(f, n, usable) ==
  /\ n.lhs = 0 /\ n.rhs = 0
  /\ n.imm \in DOMAIN f.fast_calls
  /\ n.type = f.fast_calls[n.imm].return_type
  /\ Len(n.args) = Len(f.fast_calls[n.imm].parameter_types)
  /\ \A i \in DOMAIN n.args :
       n.args[i] \in usable /\ value_type(f, n.args[i]) = f.fast_calls[n.imm].parameter_types[i]

\* Which vectors a node takes and makes.  An extraction keeps its lane in the
\* low byte of the immediate and whether it extends the sign above it; a
\* widening keeps the extension and the half.
VectorRule(f, n, usable) ==
  LET arithmetic(type) == is_integer_vector_type(type) \/ is_float_vector_type(type)
      source == value_type(f, n.lhs)
  IN CASE n.op = "kVectorConstant" ->
            /\ is_vector_value_type(n.type) /\ n.lhs = 0 /\ n.rhs = 0
            /\ is_mask_vector_type(n.type) => vector_mask_is_canonical(n.lanes, n.type)
       [] n.op = "kVectorSplat" ->
            arithmetic(n.type) /\ n.lhs \in usable /\ source = "kWord" /\ n.rhs = 0
       [] n.op = "kVectorExtractLane" ->
            /\ n.lhs \in usable /\ is_vector_value_type(source) /\ n.rhs = 0 /\ n.type = "kWord"
            /\ n.imm % 256 < vector_lane_count(source)
            /\ n.imm >= 256 => is_integer_vector_type(source)
       [] n.op = "kVectorInsertLane" ->
            /\ n.lhs \in usable /\ n.rhs \in usable /\ arithmetic(n.type)
            /\ source = n.type /\ value_type(f, n.rhs) = "kWord"
            /\ n.imm < vector_lane_count(n.type)
       [] n.op = "kVectorUnary" ->
            is_vector_value_type(n.type) /\ n.lhs \in usable /\ source = n.type /\ n.rhs = 0
       [] n.op = "kVectorBinary" ->
            /\ valid_vector_binary(n.sub, n.type) /\ n.lhs \in usable /\ n.rhs \in usable
            /\ source = n.type /\ value_type(f, n.rhs) = n.type
       [] n.op = "kVectorCompare" ->
            /\ n.lhs \in usable /\ n.rhs \in usable /\ value_type(f, n.rhs) = source
            /\ valid_vector_comparison(n.sub, source) /\ n.type = vector_mask_type(source)
       [] n.op = "kVectorSelect" ->
            /\ n.lhs \in usable /\ n.rhs \in usable /\ n.args[1] \in usable
            /\ is_mask_vector_type(source) /\ is_vector_value_type(n.type)
            /\ value_type(f, n.rhs) = n.type /\ value_type(f, n.args[1]) = n.type
            /\ vector_shapes_match(source, n.type)
       [] n.op = "kVectorLaneSignMask" ->
            n.lhs \in usable /\ is_vector_value_type(source) /\ n.type = "kWord" /\ n.rhs = 0
       [] n.op = "kVectorShuffle" ->
            /\ n.lhs \in usable /\ is_vector_value_type(n.type) /\ source = n.type /\ n.rhs = 0
            /\ Len(n.lanes) = vector_lane_count(n.type)
            /\ \A lane \in ToSet(n.lanes) : lane < vector_lane_count(n.type)
       [] n.op = "kVectorWiden" ->
            n.imm \in {0, 1, 256, 257} /\ n.lhs \in usable /\ valid_vector_widen(source, n.type) /\ n.rhs = 0

\* The places where a run may leave have sites of their own.
SiteIsNew(f, v) == \A p \in 1..v-1 : is_runtime_exit(f.nodes[p].op) => f.nodes[p].imm # f.nodes[v].imm

MemoryRule(f, v, usable) ==
  LET n == f.nodes[v]
      vector == n.op \in {"kLoadVector", "kStoreVector"}
      float == n.op \in {"kLoadFloat", "kStoreFloat"}
      store == n.op \in BoundedStores
      type == IF vector THEN n.type ELSE IF float THEN "kFloat64" ELSE "kWord"
  IN /\ n.access.width \in {1, 2, 4, 8, 16} /\ n.access.region < f.memory_region_count
     /\ n.access.alignment \in {2^i : i \in 0..4} /\ n.access.alignment <= n.access.width
     /\ n.access.byte_order \in {"kNative", "kLittleEndian", "kBigEndian"}
     /\ n.access.sign_extend => ~float /\ ~store
     /\ vector = (n.access.width = 16)
     /\ vector => is_integer_vector_type(n.type) \/ is_float_vector_type(n.type)
     /\ float => n.access.width \in {4, 8}
     /\ n.type = type /\ n.lhs \in usable /\ value_type(f, n.lhs) = "kWord"
     /\ IF store THEN n.rhs \in usable /\ value_type(f, n.rhs) = type ELSE n.rhs = 0
     /\ SiteIsNew(f, v)

MemoryOrders == {"kRelaxed", "kAcquire", "kRelease", "kAcquireRelease", "kSequentiallyConsistent"}
is_valid_atomic_load_order(order) == order \in {"kRelaxed", "kAcquire", "kSequentiallyConsistent"}
is_valid_atomic_store_order(order) == order \in {"kRelaxed", "kRelease", "kSequentiallyConsistent"}
is_valid_atomic_fence_order(order) == order \in MemoryOrders \ {"kRelaxed"}
atomic_failure_order_allowed(success, failure) ==
  \/ failure = "kRelaxed"
  \/ failure = "kAcquire" /\ success \in {"kAcquire", "kAcquireRelease", "kSequentiallyConsistent"}
  \/ failure = "kSequentiallyConsistent" /\ success = "kSequentiallyConsistent"

AtomicRule(f, v, usable) ==
  LET n == f.nodes[v]
      compare_exchange == n.op = "kAtomicCompareExchange"
      word(u) == u \in usable /\ value_type(f, u) = "kWord"
  IN /\ n.access.width \in {1, 2, 4, 8} /\ n.access.region < f.memory_region_count
     /\ n.access.alignment = n.access.width /\ n.access.byte_order = "kNative"
     /\ ~n.access.sign_extend /\ ~n.access.is_volatile
     /\ CASE n.op = "kAtomicLoad" -> is_valid_atomic_load_order(n.access.order)
          [] n.op = "kAtomicStore" -> is_valid_atomic_store_order(n.access.order)
          [] OTHER -> n.access.order \in MemoryOrders
     /\ IF compare_exchange THEN atomic_failure_order_allowed(n.access.order, n.access.failure_order)
        ELSE n.access.failure_order = "kRelaxed" /\ n.access.strength = "kStrong"
     /\ n.type = "kWord" /\ word(n.lhs)
     /\ IF n.op = "kAtomicLoad" THEN n.rhs = 0 ELSE word(n.rhs)
     /\ compare_exchange => word(n.aux)
     /\ SiteIsNew(f, v)

FenceRule(n) == is_valid_atomic_fence_order(n.sub) /\ n.type = "kWord" /\ n.lhs = 0 /\ n.rhs = 0

FrameRule(f, n, usable) ==
  /\ n.slot \in DOMAIN f.frame_slots /\ n.rhs = 0 /\ n.type = f.frame_slots[n.slot]
  /\ IF n.op = "kLoadFrame" THEN n.lhs = 0 ELSE n.lhs \in usable /\ value_type(f, n.lhs) = n.type

ObjectRule(f, n, usable) ==
  /\ n.slot \in DOMAIN f.trusted_objects /\ n.rhs = 0 /\ is_scalar_value_type(n.type)
  /\ n.imm % 8 = 0 /\ n.imm + 8 <= f.trusted_objects[n.slot].byte_size
  /\ IF n.op = "kLoadObject" THEN n.lhs = 0 ELSE n.lhs \in usable /\ value_type(f, n.lhs) = n.type

PatchCellRule(f, n) == n.imm \in DOMAIN f.patch_cells /\ n.type = "kWord" /\ n.lhs = 0 /\ n.rhs = 0

GuardRule(f, v, usable) ==
  LET n == f.nodes[v]
  IN /\ n.type = "kWord" /\ n.rhs = 0 /\ n.lhs \in usable
     /\ value_type(f, n.lhs) = (IF n.op = "kGuardFloatNonzero" THEN "kFloat64" ELSE "kWord")
     /\ SiteIsNew(f, v)

SafepointRule(f, v) ==
  f.nodes[v].type = "kWord" /\ f.nodes[v].lhs = 0 /\ f.nodes[v].rhs = 0 /\ SiteIsNew(f, v)

UnaryRule(f, n, usable) ==
  LET type == IF n.op = "kFloatNegate" THEN "kFloat64" ELSE "kWord"
  IN /\ n.lhs \in usable /\ value_type(f, n.lhs) = type /\ n.type = type /\ n.rhs = 0
     /\ IF n.op = "kByteSwap" THEN n.imm \in {2, 4, 8} ELSE n.imm = 0

BinaryRule(f, n, usable) ==
  LET type == IF n.op \in FloatOps \cup FloatConditions THEN "kFloat64" ELSE "kWord"
  IN /\ is_binary(n.op) /\ n.lhs \in usable /\ n.rhs \in usable
     /\ value_type(f, n.lhs) = type /\ value_type(f, n.rhs) = type
     /\ n.type = (IF n.op \in FloatOps THEN "kFloat64" ELSE "kWord")

\* The rule of a node that is not a parameter.
NodeRule(f, v, usable) ==
  LET n == f.nodes[v]
  IN /\ FieldsBelongToNode(n)
     /\ CASE n.op = "kConstant" -> ConstantRule(n)
          [] n.op = "kCall" -> CallRule(f, n, usable)
          [] n.op = "kFastCall" -> FastCallRule(f, n, usable)
          [] n.op \in VectorOps -> VectorRule(f, n, usable)
          [] n.op \in BoundedOps -> MemoryRule(f, v, usable)
          [] n.op \in AtomicOps -> AtomicRule(f, v, usable)
          [] n.op = "kAtomicFence" -> FenceRule(n)
          [] n.op \in FrameOps -> FrameRule(f, n, usable)
          [] n.op \in ObjectOps -> ObjectRule(f, n, usable)
          [] n.op = "kLoadPatchCell" -> PatchCellRule(f, n)
          [] n.op \in GuardOps -> GuardRule(f, v, usable)
          [] n.op = "kSafepoint" -> SafepointRule(f, v)
          [] is_unary(n.op) -> UnaryRule(f, n, usable)
          [] OTHER -> BinaryRule(f, n, usable)

=============================================================================
