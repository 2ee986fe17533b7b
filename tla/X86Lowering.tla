----------------------------- MODULE X86Lowering -----------------------------
(***************************************************************************)
(* lower_impl and lower_control_flow_impl of                               *)
(* src/jit/backend/x86_64/lower.cpp: the instructions that the x86-64      *)
(* backend emits for one node of a straight-line or a control-flow         *)
(* function, and the prologue and the return around it.                    *)
(*                                                                         *)
(* A node n is a record: its flow and its op; where the allocator put its  *)
(* values (n.loc[v]: a register or "none", a stack slot, and for control   *)
(* flow whether the value belongs to the block at hand and whether it      *)
(* must also be on the stack); what it accesses; and the values n.live     *)
(* that its stack map names.  The two functions repeat each other's code   *)
(* for most nodes: what they share is stated once, with the destination    *)
(* as a parameter, and each then says where the result goes.               *)
(***************************************************************************)
EXTENDS X86Assembler, NodeKinds, SequencesExt

aligned_stack_size(raw) == ((raw + 15) \div 16) * 16

\* Where things are in the frame, in words from the stack pointer.
Layout(n) ==
  LET context_ops == n.op \in ContextOps
      call_argument_base == n.spill_slots + Len(n.frame)
      context_slot == call_argument_base + Len(n.args)
      stack_map_base == context_slot + (IF context_ops THEN 1 ELSE 0)
      atomic_base == stack_map_base + (IF context_ops THEN n.nodes ELSE 0)
      total_slots == atomic_base + (IF n.op \in AtomicOps THEN 2 ELSE 0)
  IN [frame_slot_base |-> n.spill_slots, call_argument_base |-> call_argument_base,
      context_slot |-> context_slot, stack_map_base |-> stack_map_base,
      atomic_base |-> atomic_base, context_ops |-> context_ops,
      stack_size |-> aligned_stack_size(8 * total_slots)]

\* The same for control flow: block parameters are staged above the spill slots.
ControlLayout(n) ==
  LET context_ops == n.op \in ContextOps
      frame_slot_base == n.spill_slots + n.staged
      context_slot == frame_slot_base + Len(n.frame)
      call_argument_base == context_slot + (IF context_ops THEN 1 ELSE 0)
      atomic_base == call_argument_base + Len(n.args)
      total_slots == atomic_base + (IF n.op \in AtomicOps THEN 2 ELSE 0)
  IN [frame_slot_base |-> frame_slot_base, call_argument_base |-> call_argument_base,
      context_slot |-> context_slot, stack_map_base |-> 0,
      atomic_base |-> atomic_base, context_ops |-> context_ops,
      stack_size |-> aligned_stack_size(8 * total_slots)]

\* The register that holds a value where the node runs, or "none".
physical_register(n, v) == n.loc[v].reg
control_word_register(n, v) == IF n.loc[v].local THEN n.loc[v].reg ELSE "none"
Allocated(n, v) == IF n.flow = "straight" THEN physical_register(n, v) ELSE control_word_register(n, v)

\* The code that brings an operand into a register, and that register.
load_operand(n, v, scratch) ==
  IF physical_register(n, v) # "none" THEN <<>> ELSE load(scratch, kRsp, n.loc[v].slot)
load_control_word(n, v, scratch) ==
  IF control_word_register(n, v) # "none" THEN <<>> ELSE load(scratch, kRsp, n.loc[v].slot)
Fetch(n, v, scratch) ==
  IF n.flow = "straight" THEN load_operand(n, v, scratch) ELSE load_control_word(n, v, scratch)
Reg(n, v, scratch) == IF Allocated(n, v) # "none" THEN Allocated(n, v) ELSE scratch

\* Writing the destination's stack slot: when it has no register, and for
\* control flow also when later blocks read it from the stack.
store_spilled(n, target) ==
  IF physical_register(n, "dst") # "none" THEN <<>> ELSE store(target, kRsp, n.loc["dst"].slot)
store_control(n, target) ==
  IF control_word_register(n, "dst") # "none" /\ ~n.loc["dst"].home THEN <<>>
  ELSE store(target, kRsp, n.loc["dst"].slot)


-----------------------------------------------------------------------------
initialize_frame_slots(n, base) ==
  IF n.frame = <<>> THEN <<>>
  ELSE move_immediate(kScratch1, 0)
       \o FlattenSeq([i \in DOMAIN n.frame |-> store(kScratch1, kRsp, base + i - 1)])

clear_sensitive_frame_slots(n, base) ==
  LET sensitive == SelectSeq([i \in DOMAIN n.frame |-> i], LAMBDA i : n.frame[i])
  IN IF sensitive = <<>> THEN <<>>
     ELSE move_immediate(kScratch1, 0)
          \o FlattenSeq([i \in DOMAIN sensitive |-> store(kScratch1, kRsp, base + sensitive[i] - 1)])

Prologue(n, l) ==
  move_register(kArgumentBaseRegister, kArgumentRegister)
  \o reserve_stack(l.stack_size)
  \o initialize_frame_slots(n, l.frame_slot_base)
  \o (IF l.context_ops THEN store(kContextArgumentRegister, kRsp, l.context_slot) ELSE <<>>)

Epilogue(n, l) ==
  clear_sensitive_frame_slots(n, l.frame_slot_base) \o release_stack(l.stack_size) \o return_to_caller

\* The values a stack map names are copied to its area before the node runs,
\* and from there into the context when the node exits.
spill_straight_stack_map_values(n, l) ==
  FlattenSeq([i \in DOMAIN n.live |->
    load_operand(n, n.live[i], kScratch0)
    \o store(Reg(n, n.live[i], kScratch0), kRsp, l.stack_map_base + n.id[n.live[i]])])

captured == <<"captured0", "captured1">>
capture_straight_stack_map_values(n, l, base) ==
  FlattenSeq([i \in DOMAIN n.live |->
    load(kScratch1, kRsp, l.stack_map_base + n.id[n.live[i]])
    \o store_field(kScratch1, base, captured[i])])
  \o move_immediate(kScratch1, Len(n.live)) \o store_field(kScratch1, base, "captured_value_count")

\* Control flow uses the value's own stack slot.
spill_control_stack_map_values(n) ==
  FlattenSeq([i \in DOMAIN n.live |->
    IF n.loc[n.live[i]].home \/ control_word_register(n, n.live[i]) = "none" THEN <<>>
    ELSE store(control_word_register(n, n.live[i]), kRsp, n.loc[n.live[i]].slot)])
capture_control_stack_map_values(n, base) ==
  FlattenSeq([i \in DOMAIN n.live |->
    load(kScratch1, kRsp, n.loc[n.live[i]].slot) \o store_field(kScratch1, base, captured[i])])
  \o move_immediate(kScratch1, Len(n.live)) \o store_field(kScratch1, base, "captured_value_count")

\* Recording an exit in the context held by kScratch0, and leaving.
RecordExit(n, l, reason) ==
  (IF n.flow = "straight" THEN capture_straight_stack_map_values(n, l, kScratch0)
                          ELSE capture_control_stack_map_values(n, kScratch0))
  \o move_immediate(kScratch1, n.site) \o store_field(kScratch1, kScratch0, "exit_site")
  \o move_immediate(kScratch1, reason) \o store_field(kScratch1, kScratch0, "exit_reason")
\* Mutant: an early exit returns without clearing the sensitive slots.
LeaveUncleared(n, l) == move_immediate(kReturnRegister, 0) \o release_stack(l.stack_size) \o return_to_caller
Leave(n, l) == move_immediate(kReturnRegister, 0) \o Epilogue(n, l)

\* Values that live on are stored around a call, which may change every register.
save_live_across_call(n) ==
  FlattenSeq([i \in DOMAIN n.across |->
    IF physical_register(n, n.across[i]) = "none" THEN <<>>
    ELSE store(physical_register(n, n.across[i]), kRsp, n.loc[n.across[i]].slot)])
restore_live_across_call(n) ==
  FlattenSeq([i \in DOMAIN n.across |->
    IF physical_register(n, n.across[i]) = "none" THEN <<>>
    ELSE load(physical_register(n, n.across[i]), kRsp, n.loc[n.across[i]].slot)])

LiveAcrossCalls(n) == SelectSeq(n.across, LAMBDA v : control_word_register(n, v) # "none")
save_control_live_across_call(n) ==
  FlattenSeq([i \in DOMAIN LiveAcrossCalls(n) |->
    store(control_word_register(n, LiveAcrossCalls(n)[i]), kRsp, n.loc[LiveAcrossCalls(n)[i]].slot)])
restore_control_live_across_call(n) ==
  FlattenSeq([i \in DOMAIN LiveAcrossCalls(n) |->
    load(control_word_register(n, LiveAcrossCalls(n)[i]), kRsp, n.loc[LiveAcrossCalls(n)[i]].slot)])

-----------------------------------------------------------------------------
(***************************************************************************)
(* What the nodes have in common in both flows: the code that leaves the   *)
(* result in `target`.                                                     *)
(***************************************************************************)

Parameter(n, target) == load_field(target, kArgumentBaseRegister, "argument")

Constant(n, target) ==
  IF n.float THEN move_immediate(kScratch0, n.imm) \o move_word_to_float(target, kScratch0)
  ELSE move_immediate(target, n.imm)

Condition(op) == CASE op = "kLessEqual" -> "le" [] op = "kEqual" -> "eq"
                   [] op = "kNotEqual" -> "ne" [] OTHER -> "lt"

WordBinary(n, target) ==
  LET lhs == Reg(n, "lhs", kScratch0)
      rhs == Reg(n, "rhs", kScratch1)
  IN Fetch(n, "lhs", kScratch0) \o Fetch(n, "rhs", kScratch1) \o
     (CASE n.op = "kAdd" -> add(target, lhs, rhs)
        [] n.op = "kSubtract" -> subtract(target, lhs, rhs)
        [] n.op = "kMultiply" -> multiply(target, lhs, rhs)
        [] n.op = "kBitwiseAnd" -> bitwise_and(target, lhs, rhs)
        [] n.op = "kBitwiseOr" -> bitwise_or(target, lhs, rhs)
        [] n.op = "kBitwiseXor" -> bitwise_xor(target, lhs, rhs)
        [] n.op = "kShiftLeft" -> shift_left(target, lhs, rhs)
        [] n.op \in {"kFloorDivide", "kFloorModulo"} ->
             floor_arithmetic(kReturnRegister, lhs, rhs, n.op = "kFloorModulo")
             \o prepare_binary(target, kReturnRegister)
        [] OTHER -> compare(target, lhs, rhs, Condition(n.op)))

WordUnary(n, target) ==
  LET source == Reg(n, "lhs", kScratch0)
  IN Fetch(n, "lhs", kScratch0) \o
     (CASE n.op = "kNegate" -> negate(target, source)
        [] n.op = "kBitwiseNot" -> bitwise_not(target, source)
        [] OTHER -> prepare_binary(target, source) \o reverse_bytes(target, n.width)
                    \o (IF n.width # 2 THEN <<>>
                        ELSE move_immediate(kScratch1, 3) \o bitwise_and(target, target, kScratch1)))

FloatBinary(n, target) ==
  Fetch(n, "lhs", kFloatScratch0) \o Fetch(n, "rhs", kFloatScratch1)
  \o float_binary(n.op, target, Reg(n, "lhs", kFloatScratch0), Reg(n, "rhs", kFloatScratch1))

FloatNegate(n, target) ==
  Fetch(n, "lhs", kFloatScratch0) \o negate_float(target, Reg(n, "lhs", kFloatScratch0))

FloatCompare(n, target) ==
  Fetch(n, "lhs", kFloatScratch0) \o Fetch(n, "rhs", kFloatScratch1)
  \o compare_float(target, Reg(n, "lhs", kFloatScratch0), Reg(n, "rhs", kFloatScratch1), n.op)

\* The arguments are stored one after another and passed by address; a fast
\* call finds its entry in the context's table.
CallArguments(n, l) ==
  FlattenSeq([i \in DOMAIN n.args |->
    Fetch(n, n.args[i], kScratch0)
    \o store(Reg(n, n.args[i], kScratch0), kRsp, l.call_argument_base + i - 1)])
  \o address(kRuntimeArgument0, kRsp, l.call_argument_base)
Callee(n, l) ==
  IF n.op = "kCall"
  THEN move_immediate(kRuntimeArgument1, Len(n.args)) \o move_immediate(kScratch0, n.imm)
  ELSE load(kRuntimeArgument1, kRsp, l.context_slot)
       \o load_field(kScratch0, kRuntimeArgument1, "fast_call_entries")
       \o load_field(kScratch0, kScratch0, "entry")
runtime_call_stack_adjustment == kCallStackAdjustment
Call(n, l) ==
  CallArguments(n, l) \o Callee(n, l)
  \o reserve_stack(runtime_call_stack_adjustment) \o call_register(kScratch0)
  \o release_stack(runtime_call_stack_adjustment)

\* A zero, of either sign for a float, leaves the function.
Guard(n, l, target) ==
  (IF n.op = "kGuardWordNonzero"
   THEN Fetch(n, "lhs", kScratch0) \o move_register(kScratch1, Reg(n, "lhs", kScratch0))
        \o branch_nonzero(kScratch1, "resume")
   ELSE Fetch(n, "lhs", kFloatScratch0) \o move_float_to_word(kScratch0, Reg(n, "lhs", kFloatScratch0))
        \o move_register(kScratch1, kScratch0) \o add(kScratch0, kScratch0, kScratch0)
        \o branch_nonzero(kScratch0, "resume"))
  \o load(kScratch0, kRsp, l.context_slot) \o branch_zero(kScratch0, "exit")
  \o store_field(kScratch1, kScratch0, "exit_value") \o RecordExit(n, l, kRuntime)
  \o Label("exit") \o Leave(n, l)
  \o Label("resume") \o move_immediate(target, 0)

Frame(n, l, target) ==
  LET stored == Reg(n, "lhs", IF n.float THEN kFloatScratch0 ELSE kScratch0)
  IN IF n.op = "kLoadFrame" THEN load(target, kRsp, l.frame_slot_base + n.slot)
     ELSE Fetch(n, "lhs", IF n.float THEN kFloatScratch0 ELSE kScratch0)
          \o store(stored, kRsp, l.frame_slot_base + n.slot) \o move_register(target, stored)

Object(n, l, target) ==
  LET scratch == IF n.float THEN kFloatScratch0 ELSE kScratch1
      stored == Reg(n, "lhs", scratch)
  IN load(kScratch0, kRsp, l.context_slot) \o load_field(kScratch0, kScratch0, "trusted_objects")
     \o load_field(kScratch0, kScratch0, "object")
     \o (IF n.op = "kLoadObject" THEN load_field(target, kScratch0, "object_field")
         ELSE Fetch(n, "lhs", scratch) \o store_field(stored, kScratch0, "object_field")
              \o move_register(target, stored))

PatchCell(n, l, target) ==
  load(kScratch0, kRsp, l.context_slot) \o load_field(kScratch0, kScratch0, "patch_cells")
  \o load_field(target, kScratch0, "cell")

-----------------------------------------------------------------------------
\* Finding the address of a bounded access, in kScratch0; every failed check
\* but that of the context itself is recorded.
Checks(n, l) ==
  load(kScratch0, kRsp, l.context_slot) \o branch_zero(kScratch0, "exit")
  \o load_field(kScratch1, kScratch0, "memory_regions") \o branch_zero(kScratch1, "record_failure")
  \o load_field(kArgumentBaseRegister, kScratch0, "memory_region_count")
  \o branch_unsigned_less(kArgumentBaseRegister, n.region + 1, "record_failure")
  \o load_field(kScratch0, kScratch1, "data") \o branch_zero(kScratch0, "record_failure")
  \o (IF n.op \in StoreOps
      THEN load_field(kArgumentBaseRegister, kScratch1, "writable")
           \o branch_zero(kArgumentBaseRegister, "record_failure")
      ELSE <<>>)
  \o load_field(kArgumentBaseRegister, kScratch1, "size")
  \o branch_unsigned_less(kArgumentBaseRegister, n.width, "record_failure")
  \o Fetch(n, "lhs", kScratch1) \o prepare_binary(kScratch1, Reg(n, "lhs", kScratch1))
  \o subtract_immediate(kArgumentBaseRegister, n.width)
  \o branch_unsigned_greater(kScratch1, kArgumentBaseRegister, "record_failure")
  \o add(kScratch0, kScratch0, kScratch1)
  \o (IF n.alignment > 1 \/ n.op \in AtomicOps
      THEN move_register(kScratch1, kScratch0)
           \o bitwise_and_immediate(kScratch1, n.alignment - 1)
           \o branch_nonzero(kScratch1, "record_failure")
      ELSE <<>>)

\* What follows the access itself: the failure path.
Failure(n, l) ==
  branch("resume")
  \o Label("record_failure") \o load(kScratch0, kRsp, l.context_slot)
  \o Fetch(n, "lhs", kScratch1) \o store_field(Reg(n, "lhs", kScratch1), kScratch0, "exit_value")
  \o RecordExit(n, l, kRuntime)
  \o Label("exit") \o Leave(n, l)
  \o Label("resume")

\* The atomic accesses repeat it.
AtomicFailure(n, l) == Failure(n, l)

LoadWord(n, target) ==
  load_unsigned(target, kScratch0, 0, n.width)
  \o (IF n.big_endian /\ n.width > 1 THEN reverse_bytes(target, n.width) ELSE <<>>)
  \o (IF n.sign_extend /\ n.width < 8 THEN sign_extend(target, n.width) ELSE <<>>)

StoreWord(n, target) ==
  LET stored == Reg(n, "rhs", kScratch1)
  IN Fetch(n, "rhs", kScratch1) \o prepare_binary(kScratch1, stored)
     \o (IF n.big_endian /\ n.width > 1 THEN reverse_bytes(kScratch1, n.width) ELSE <<>>)
     \o store_width(kScratch1, kScratch0, 0, n.width)
     \o Fetch(n, "rhs", kScratch1) \o move_register(target, stored)

LoadFloat(n, target) ==
  IF n.big_endian
  THEN load_unsigned(kScratch1, kScratch0, 0, n.width) \o reverse_bytes(kScratch1, n.width)
       \o (IF n.width = 4
           THEN move_word_to_float32(kFloatScratch1, kScratch1)
                \o convert_float32_to_float64(target, kFloatScratch1)
           ELSE move_word_to_float(target, kScratch1))
  ELSE load_float_width(target, kScratch0, 0, n.width)
       \o (IF n.width = 4 THEN convert_float32_to_float64(target, target) ELSE <<>>)

StoreFloat(n, target) ==
  LET stored == Reg(n, "rhs", kFloatScratch0)
      narrow == n.width = 4
  IN Fetch(n, "rhs", kFloatScratch0)
     \o (IF narrow THEN convert_float64_to_float32(kFloatScratch1, stored) ELSE <<>>)
     \o (IF n.big_endian
         THEN (IF narrow THEN move_float32_to_word(kScratch1, kFloatScratch1)
                         ELSE move_float_to_word(kScratch1, stored))
              \o reverse_bytes(kScratch1, n.width) \o store_width(kScratch1, kScratch0, 0, n.width)
         ELSE store_float_width(IF narrow THEN kFloatScratch1 ELSE stored, kScratch0, 0, n.width))
     \o move_float_register(target, stored)

MemoryAccess(n, target) ==
  CASE n.op = "kLoadWord" -> LoadWord(n, target)
    [] n.op = "kStoreWord" -> StoreWord(n, target)
    [] n.op = "kLoadFloat" -> LoadFloat(n, target)
    [] OTHER -> StoreFloat(n, target)

\* An atomic access to the address in kScratch1; the result is in kScratch0.
lower_atomic_operation(n, operand, auxiliary) ==
  LET base == kArgumentBaseRegister
      combine == CASE n.op = "kAtomicFetchAnd" -> bitwise_and(base, base, kScratch0)
                   [] n.op = "kAtomicFetchOr" -> bitwise_or(base, base, kScratch0)
                   [] OTHER -> bitwise_xor(base, base, kScratch0)
  IN CASE n.op = "kAtomicLoad" -> load_unsigned(kScratch0, kScratch1, 0, n.width)
       [] n.op = "kAtomicStore" ->
            load(base, kRsp, operand)
            \o (IF n.sequentially_consistent THEN atomic_exchange(base, kScratch1, n.width)
                                             ELSE store_width(base, kScratch1, 0, n.width))
            \o load(kScratch0, kRsp, operand)
       [] n.op \in {"kAtomicExchange", "kAtomicFetchAdd"} ->
            load(base, kRsp, operand)
            \o (IF n.op = "kAtomicExchange" THEN atomic_exchange(base, kScratch1, n.width)
                                            ELSE atomic_fetch_add(base, kScratch1, n.width))
            \o zero_extend(base, n.width) \o move_register(kScratch0, base)
       [] n.op = "kAtomicCompareExchange" ->
            load(kScratch0, kRsp, operand) \o zero_extend(kScratch0, n.width)
            \o load(base, kRsp, auxiliary) \o atomic_compare_exchange(base, kScratch1, n.width)
            \o zero_extend(kScratch0, n.width)
       [] OTHER ->
            load_unsigned(kScratch0, kScratch1, 0, n.width)
            \o Label("retry") \o load(base, kRsp, operand) \o combine
            \o atomic_compare_exchange(base, kScratch1, n.width) \o branch_not_equal_flags("retry")

\* The operands are set aside first: the checks need the registers.
AtomicOperands(n, l) ==
  (IF n.op = "kAtomicLoad" THEN <<>>
   ELSE Fetch(n, "rhs", kScratch0) \o store(Reg(n, "rhs", kScratch0), kRsp, l.atomic_base))
  \o (IF n.op = "kAtomicCompareExchange"
      THEN Fetch(n, "aux", kScratch0) \o store(Reg(n, "aux", kScratch0), kRsp, l.atomic_base + 1)
      ELSE <<>>)
Atomic(n, l) ==
  AtomicOperands(n, l) \o Checks(n, l) \o move_register(kScratch1, kScratch0)
  \o lower_atomic_operation(n, l.atomic_base, l.atomic_base + 1)

AtomicFence(n, target) ==
  (IF n.sequentially_consistent THEN sequentially_consistent_fence ELSE <<>>)
  \o move_immediate(target, 0)

Safepoint(n, l, target) ==
  load(kScratch0, kRsp, l.context_slot) \o branch_zero(kScratch0, "resume")
  \o (IF ~n.measure THEN <<>>
      ELSE load_field(kScratch1, kScratch0, "safepoint_polls") \o increment(kScratch1)
           \o store_field(kScratch1, kScratch0, "safepoint_polls"))
  \o load_field(kScratch0, kScratch0, "interrupt_requested") \o branch_zero(kScratch0, "resume")
  \o load(kScratch0, kRsp, l.context_slot)
  \o move_immediate(kScratch1, 0) \o store_field(kScratch1, kScratch0, "exit_value")
  \o RecordExit(n, l, kSafepoint) \o Leave(n, l)
  \o Label("resume") \o move_immediate(target, 0)

-----------------------------------------------------------------------------
(***************************************************************************)
(* Straight-line functions.  An unallocated destination is computed in a   *)
(* scratch register: kScratch1 where kScratch0 holds an address.           *)
(***************************************************************************)

StraightScratch(n) ==
  IF n.float THEN kFloatScratch0
  ELSE IF n.op \in ObjectOps \cup AtomicOps \cup {"kLoadPatchCell", "kLoadWord"}
  THEN kScratch1 ELSE kScratch0

StraightNode(n, l) ==
  LET target == Reg(n, "dst", StraightScratch(n))
      put == store_spilled(n, target)
  IN (IF n.op \in StackMapOps THEN spill_straight_stack_map_values(n, l) ELSE <<>>) \o
     CASE n.op = "kParameter" -> Parameter(n, target) \o put
       [] n.op = "kConstant" -> Constant(n, target) \o put
       [] n.op \in WordOps -> WordBinary(n, target) \o put
       [] n.op \in UnaryOps -> WordUnary(n, target) \o put
       [] n.op \in FloatOps -> FloatBinary(n, target) \o put
       [] n.op = "kFloatNegate" -> FloatNegate(n, target) \o put
       [] n.op \in FloatConditions -> FloatCompare(n, target) \o put
       [] n.op \in CallOps ->
            save_live_across_call(n) \o Call(n, l)
            \o (IF physical_register(n, "dst") # "none" THEN move_register(target, kReturnRegister)
                ELSE store_spilled(n, kReturnRegister))
            \o restore_live_across_call(n)
       [] n.op \in GuardOps -> Guard(n, l, target) \o put
       [] n.op \in FrameOps -> Frame(n, l, target) \o put
       [] n.op \in ObjectOps -> Object(n, l, target) \o put
       [] n.op = "kLoadPatchCell" -> PatchCell(n, l, target) \o put
       [] n.op = "kAtomicFence" -> AtomicFence(n, target) \o put
       [] n.op \in AtomicOps ->
            Atomic(n, l) \o move_register(target, kScratch0) \o put \o AtomicFailure(n, l)
       [] n.op \in MemoryOps -> Checks(n, l) \o MemoryAccess(n, target) \o put \o Failure(n, l)
       [] n.op = "kSafepoint" -> Safepoint(n, l, target) \o put

\* The return of the node's result, wherever it is.
StraightReturn(n, l) ==
  (IF physical_register(n, "dst") # "none" THEN move_register(kReturnRegister, physical_register(n, "dst"))
   ELSE load(kReturnRegister, kRsp, n.loc["dst"].slot))
  \o Epilogue(n, l)

-----------------------------------------------------------------------------
(***************************************************************************)
(* Control-flow functions: the same code on the locations of control flow. *)
(* An unallocated word is always computed in kScratch0.                    *)
(***************************************************************************)

destination(n) == Reg(n, "dst", IF n.float THEN kFloatScratch0 ELSE kScratch0)
Stored(n, body) == body \o store_control(n, destination(n))

control_parameter(n) == Stored(n, Parameter(n, destination(n)))
control_constant(n) == Stored(n, Constant(n, destination(n)))
control_word_binary(n) == Stored(n, WordBinary(n, destination(n)))
control_word_unary(n) == Stored(n, WordUnary(n, destination(n)))
control_float_binary(n) == Stored(n, FloatBinary(n, destination(n)))
control_float_negate(n) == Stored(n, FloatNegate(n, destination(n)))
control_float_compare(n) == Stored(n, FloatCompare(n, destination(n)))
control_call(n, l) ==
  save_control_live_across_call(n) \o Call(n, l)
  \o (IF control_word_register(n, "dst") # "none"
      THEN move_register(destination(n), kReturnRegister)
           \o (IF n.loc["dst"].home THEN store(destination(n), kRsp, n.loc["dst"].slot) ELSE <<>>)
      ELSE store(kReturnRegister, kRsp, n.loc["dst"].slot))
  \o restore_control_live_across_call(n)
control_guard(n, l) == Stored(n, Guard(n, l, destination(n)))
control_frame(n, l) == Stored(n, Frame(n, l, destination(n)))
control_object(n, l) == Stored(n, Object(n, l, destination(n)))
control_patch_cell(n, l) == Stored(n, PatchCell(n, l, destination(n)))
control_fence(n) == Stored(n, AtomicFence(n, destination(n)))
control_checks(n, l) == Checks(n, l)
control_failure(n, l) == Failure(n, l)
control_memory(n, l) ==
  control_checks(n, l) \o Stored(n, MemoryAccess(n, destination(n))) \o control_failure(n, l)
control_atomic_failure(n, l) == AtomicFailure(n, l)
control_atomic(n, l) ==
  Stored(n, Atomic(n, l) \o move_register(destination(n), kScratch0)) \o control_atomic_failure(n, l)
control_safepoint(n, l) == Stored(n, Safepoint(n, l, destination(n)))

ControlNode(n, l) ==
  (IF n.op \in StackMapOps THEN spill_control_stack_map_values(n) ELSE <<>>) \o
  CASE n.op = "kParameter" -> control_parameter(n)
    [] n.op = "kConstant" -> control_constant(n)
    [] n.op \in WordOps -> control_word_binary(n)
    [] n.op \in UnaryOps -> control_word_unary(n)
    [] n.op \in FloatOps -> control_float_binary(n)
    [] n.op = "kFloatNegate" -> control_float_negate(n)
    [] n.op \in FloatConditions -> control_float_compare(n)
    [] n.op \in CallOps -> control_call(n, l)
    [] n.op \in GuardOps -> control_guard(n, l)
    [] n.op \in FrameOps -> control_frame(n, l)
    [] n.op \in ObjectOps -> control_object(n, l)
    [] n.op = "kLoadPatchCell" -> control_patch_cell(n, l)
    [] n.op = "kAtomicFence" -> control_fence(n)
    [] n.op \in AtomicOps -> control_atomic(n, l)
    [] n.op \in MemoryOps -> control_memory(n, l)
    [] n.op = "kSafepoint" -> control_safepoint(n, l)

ControlReturn(n, l) ==
  load_control_word(n, "dst", kScratch0) \o prepare_binary(kReturnRegister, Reg(n, "dst", kScratch0))
  \o Epilogue(n, l)

-----------------------------------------------------------------------------
\* A whole function: earlier nodes leave the operands in their locations at
\* "values", and the node under test has run at "after".
LayoutOf(n) == IF n.flow = "straight" THEN Layout(n) ELSE ControlLayout(n)
Function(n) ==
  LET l == LayoutOf(n)
  IN Prologue(n, l) \o << <<"values">> >>
     \o (IF n.flow = "straight" THEN StraightNode(n, l) ELSE ControlNode(n, l)) \o << <<"after">> >>
     \o (IF n.flow = "straight" THEN StraightReturn(n, l) ELSE ControlReturn(n, l))

=============================================================================
