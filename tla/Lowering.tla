------------------------------ MODULE Lowering ------------------------------
(***************************************************************************)
(* One IR node run natively.  For each node of Cases the function that a   *)
(* backend emits around it runs on the machine of NativeMachine, from      *)
(* every choice of operand values and of context bindings, and what it     *)
(* does is compared with what the reference interpreter does               *)
(* (WordSemantics).  While the function runs, another thread may write the *)
(* memory that an atomic node accesses.                                    *)
(***************************************************************************)
EXTENDS NativeMachine, NodeKinds, SequencesExt

\* The nodes, each with the code and the frame layout that its backend makes for
\* it and with the scenarios, operand values and bound contexts, it runs in.
CONSTANT Cases

VARIABLES number,         \* which node
          value,          \* its operands
          bound,          \* the context bound by the caller
          completed,      \* the node has run and the function goes on to return
          observed,       \* the accessed bytes when native code last accessed them
          updates         \* how often an atomic node has changed memory

vars == <<machineVars, number, value, bound, completed, observed, updates>>

node == Cases[number].node
code == Cases[number].code
layout == Cases[number].layout

phase == IF completed THEN "completed"
         ELSE CASE outcome = "run" -> "running" [] outcome = "returned" -> "left" [] OTHER -> "faulted"

\* The promise, on the state of the machine: its node is the one whose code runs,
\* and how far it has come is told by where that code is.
Promise == INSTANCE NodeExecution WITH node <- node, phase <- phase

InitialMemory == [a \in Address |-> a % 2]

Roles == {"lhs", "rhs", "aux", "live"}
ReturnAddress == 1011

\* Calling conventions: the registers of arguments, context, result and return address.
Convention(target) ==
  CASE target = "x86" -> [argument |-> "rdi", second |-> "rsi", result |-> "rax", link |-> "none",
                          registers |-> {"rax", "rcx", "rdx", "rsi", "rdi", "r8", "r9", "r10", "r11",
                                         "xmm0", "xmm1", "xmm2", "xmm3", "xmm4", "xmm5"}]
    [] target = "a64" -> [argument |-> "x0", second |-> "x1", result |-> "x0", link |-> "x30",
                          registers |-> {"x0", "x1", "x2", "x3", "x4", "x5", "x6", "x7", "x8", "x9", "x10",
                                         "x11", "x12", "x13", "x16", "x17", "x30",
                                         "v0", "v1", "v2", "v16", "v30", "v31"}]
    [] target = "rv" -> [argument |-> "x10", second |-> "x11", result |-> "x10", link |-> "x1",
                         registers |-> {"x1", "x5", "x6", "x7", "x10", "x11", "x12", "x13", "x28", "x29",
                                        "x30", "x31", "f0", "f1", "f10", "f11", "f12", "f13"}]

convention == Convention(node.target)

-----------------------------------------------------------------------------
\* The context's fields as native code finds them.  A region's descriptor can
\* be read only if the region is bound.
ContextFields(b, n) ==
  [f \in {"memory_regions", "memory_region_count", "interrupt_requested", "safepoint_polls",
          "exit_value", "exit_site", "exit_reason", "captured_value_count", "captured0", "captured1",
          "trusted_objects", "object", "object_field", "patch_cells", "cell", "fast_call_entries",
          "entry", "argument"}
         \cup (IF n.region < b.count THEN {"data", "size", "writable"} ELSE {}) |->
     CASE f = "memory_regions" -> IF b.count = 0 THEN 0 ELSE RegionsPointer
       [] f = "memory_region_count" -> b.count
       [] f = "data" -> b.data
       [] f = "size" -> b.size
       [] f = "writable" -> IF b.writable THEN 1 ELSE 0
       [] f = "interrupt_requested" -> b.interrupt
       [] f = "trusted_objects" -> ObjectsPointer
       [] f = "object" -> ObjectPointer
       [] f = "object_field" -> 55
       [] f = "patch_cells" -> CellsPointer
       [] f = "cell" -> 44
       [] f = "fast_call_entries" -> EntriesPointer
       [] f = "entry" -> EntryPointer
       [] f = "argument" -> 33
       [] OTHER -> 0]

Init ==
  /\ number \in DOMAIN Cases
  /\ \E s \in Cases[number].scenarios : value = s.value /\ bound = s.bound
  /\ pc = 1
  /\ reg = [r \in convention.registers |->
              CASE r = convention.argument -> ArgumentsPointer
                [] r = convention.second -> IF bound.present THEN ContextPointer ELSE 0
                [] r = convention.link -> ReturnAddress
                [] OTHER -> Junk]
  /\ flags = <<0, 0>>
  /\ stack = [p \in 1..StackWords |-> Junk]
  /\ depth = 0
  /\ context = ContextFields(bound, node)
  /\ memory = InitialMemory
  /\ monitor = FALSE
  /\ interference = 0
  /\ outcome = "run"
  /\ completed = FALSE
  /\ observed = Promise!Unread
  /\ updates = 0

-----------------------------------------------------------------------------
(***************************************************************************)
(* What the interpreter does.                                              *)
(***************************************************************************)

\* What a helper or a fast-call entry computes from its arguments.
CallResult(arguments) == Wrap(1 + FoldSeq(LAMBDA a, r : 3 * r + a, 0, arguments))

\* What earlier nodes left in the frame slots.
FrameContents(i) == 60 + i

Result ==
  CASE node.op = "kParameter" -> 33
    [] node.op = "kConstant" -> node.imm
    [] node.op = "kByteSwap" -> byte_swap_word(value["lhs"], node.width)
    [] node.op \in CallOps -> CallResult([i \in DOMAIN node.args |-> value[node.args[i]]])
    [] node.op = "kLoadFrame" -> FrameContents(node.slot + 1)
    [] node.op \in {"kStoreFrame", "kStoreObject"} -> value["lhs"]
    [] node.op = "kLoadObject" -> 55
    [] node.op = "kLoadPatchCell" -> 44
    [] node.op = "kLoadWord" -> load_bounded_word(Promise!access, Promise!here, InitialMemory)
    [] node.op = "kLoadFloat" -> load_bounded_float(Promise!access, Promise!here, InitialMemory)
    [] node.op \in {"kStoreWord", "kStoreFloat", "kAtomicStore"} -> value["rhs"]
    [] node.op \in AtomicOps -> observed
    [] node.op \in GuardOps \cup {"kSafepoint", "kAtomicFence"} -> 0
    [] OTHER -> evaluate_binary(node.op, value["lhs"], value["rhs"])

-----------------------------------------------------------------------------
\* Where a value is: in a register, on the stack, or both.
Register(n, v) == IF n.flow = "straight" \/ n.loc[v].local THEN n.loc[v].reg ELSE "none"
OnStack(n, v) == Register(n, v) = "none" \/ (n.flow = "control" /\ n.loc[v].home)
SlotPosition(slot) == layout.stack_size \div 8 - slot
FrameSlotPosition(i) == SlotPosition(layout.frame_slot_base + i - 1)

\* The nodes before this one have left its operands in their locations and
\* something in the frame slots.
Values ==
  /\ code[pc] = <<"values">>
  /\ reg' = [r \in DOMAIN reg |->
               IF \E v \in Roles : Register(node, v) = r
               THEN value[CHOOSE v \in Roles : Register(node, v) = r] ELSE reg[r]]
  /\ stack' = [p \in DOMAIN stack |->
                 IF \E v \in Roles : OnStack(node, v) /\ SlotPosition(node.loc[v].slot) = p
                 THEN value[CHOOSE v \in Roles : SlotPosition(node.loc[v].slot) = p]
                 ELSE IF \E i \in DOMAIN node.frame : FrameSlotPosition(i) = p
                 THEN FrameContents(CHOOSE i \in DOMAIN node.frame : FrameSlotPosition(i) = p)
                 ELSE stack[p]]
  /\ Advance
  /\ UNCHANGED <<flags, depth, context, memory, monitor, interference, outcome, number, value, bound,
                 completed, observed, updates>>

After ==
  /\ code[pc] = <<"after">>
  /\ completed' = TRUE
  /\ Advance
  /\ UNCHANGED <<reg, flags, stack, depth, context, memory, monitor, interference, outcome, number,
                 value, bound, observed, updates>>

StackArguments(pointer, count) == [i \in 1..count |-> stack[pointer - 2000 - (i - 1)]]

\* The helper of src/jit/atomic_fallback.cpp does the whole access in one step.
FallbackOps == <<"kAtomicExchange", "kAtomicCompareExchange", "kAtomicFetchAdd", "kAtomicFetchAnd",
                 "kAtomicFetchOr", "kAtomicFetchXor", "kAtomicLoad", "kAtomicStore">>
execute_atomic_fallback(a) ==
  LET op == FallbackOps[a[2] + 1]
      old == Bytes(memory, a[1], a[3])
  IN [result |-> IF op = "kAtomicStore" THEN a[4] ELSE old,
      memory |-> WithBytes(memory, a[1], a[3], Replacement(op, a[3], old, a[4], a[5]))]

\* A call may change every register; it needs an aligned stack and valid arguments.
Call ==
  LET i == code[pc]
      arguments == reg[convention.argument]
      second == reg[convention.second]
      fallback == reg[i[2]] = FallbackPointer
      done == execute_atomic_fallback(StackArguments(arguments, 5))
      aligned == (depth + (IF node.target = "x86" THEN 8 ELSE 0)) % 16 = 0
      valid == /\ arguments - 2000 \in DOMAIN stack
               /\ \/ reg[i[2]] = HelperPointer /\ second = Len(node.args)
                  \/ reg[i[2]] = EntryPointer /\ second = ContextPointer
                  \/ fallback /\ second = 5
  IN
  /\ i[1] = "call"
  /\ IF aligned /\ valid
     THEN /\ reg' = [r \in DOMAIN reg |->
                       IF r # convention.result THEN Clobbered
                       ELSE IF fallback THEN done.result
                       ELSE CallResult(StackArguments(arguments, Len(node.args)))]
          /\ memory' = IF fallback THEN done.memory ELSE memory
          /\ Advance
          /\ UNCHANGED outcome
     ELSE outcome' = "fault" /\ UNCHANGED <<pc, reg, memory>>
  /\ observed' = IF fallback THEN Promise!Accessed ELSE observed
  /\ updates' = IF node.op \in AtomicOps /\ memory' # memory THEN updates + 1 ELSE updates
  /\ monitor' = FALSE
  /\ UNCHANGED <<flags, stack, depth, context, interference, number, value, bound, completed>>

Return ==
  /\ code[pc] = <<"ret">>
  /\ outcome' = IF depth = 0 /\ (convention.link # "none" => reg[convention.link] = ReturnAddress)
                THEN "returned" ELSE "fault"
  /\ UNCHANGED <<pc, reg, flags, stack, depth, context, memory, monitor, interference, number, value,
                 bound, completed, observed, updates>>

\* Instructions that access bound memory.
AccessesMemory(i) == i[1] \in {"rmw", "rmwp", "ll", "sc"} \/ (i[1] \in {"load", "store"} /\ i[3] # "sp")

Instruction ==
  /\ \/ Compute(code) \/ Divide(code) \/ Compare(code) \/ Jump(code) \/ Load(code) \/ Store(code)
     \/ Rewrite(code) \/ LoadExclusive(code) \/ StoreExclusive(code) \/ Fence(code) \/ MoveStack(code)
  /\ observed' = IF node.op \in AtomicOps /\ AccessesMemory(code[pc]) /\ outcome' = "run"
                 THEN Promise!Accessed ELSE observed
  /\ updates' = IF node.op \in AtomicOps /\ memory' # memory THEN updates + 1 ELSE updates
  /\ UNCHANGED <<number, value, bound, completed>>

Native == outcome = "run" /\ (Instruction \/ Values \/ After \/ Call \/ Return)

\* Another thread writes the first accessed byte while the node runs.
Environment ==
  /\ node.op \in AtomicOps /\ ~Promise!Exits /\ ~completed
  /\ \E k \in 1..pc-1 : code[k] = <<"values">>
  /\ Interfere({Promise!here})
  /\ UNCHANGED <<number, value, bound, completed, observed, updates>>

Done == outcome # "run" /\ UNCHANGED vars

Next == Native \/ Environment \/ Done

\* The processor keeps running the function.
Spec == Init /\ [][Next]_vars /\ WF_vars(Native)

\* The word in a value's location.
Holds1(v, w) == /\ Register(node, v) # "none" => reg[Register(node, v)] = w
                /\ OnStack(node, v) => stack[SlotPosition(node.loc[v].slot)] = w

-----------------------------------------------------------------------------
\* The emitted code never faults: it reads and writes only its frame, the
\* context and bound memory, calls with an aligned stack, does not divide by
\* zero, and returns with the stack pointer it was given.
NoFault == outcome # "fault"

\* A node that completes leaves the interpreter's result in its location.
ResultMatches == code[pc] = <<"after">> => Holds1("dst", Result)

\* It keeps every value that lives on, and every frame slot it does not write.
LiveValuesSurvive ==
  code[pc] = <<"after">> =>
    /\ \A i \in DOMAIN node.across : Holds1(node.across[i], value[node.across[i]])
    /\ \A i \in DOMAIN node.frame :
         stack[FrameSlotPosition(i)] = IF node.op = "kStoreFrame" /\ node.slot = i - 1
                                       THEN value["lhs"] ELSE FrameContents(i)

\* A function leaves early exactly when the interpreter does, with the same
\* site, reason and value in the context and the values of the stack map.
ExitsMatch ==
  outcome = "returned" =>
    /\ completed = ~Promise!Exits
    /\ ~completed => reg[convention.result] = 0
    /\ IF completed \/ ~bound.present THEN context["exit_reason"] = kNone
       ELSE /\ context["exit_reason"] = (IF node.op = "kSafepoint" THEN kSafepoint ELSE kRuntime)
            /\ context["exit_site"] = node.site
            /\ context["exit_value"] = (IF node.op = "kSafepoint" THEN 0 ELSE value["lhs"])
            /\ context["captured_value_count"] = Len(node.live)
            /\ context["captured0"] = value[node.live[1]]
            /\ context["captured1"] = value[node.live[2]]

\* What runs natively and what is interpreted cannot be told apart.
MatchesInterpreter == ResultMatches /\ LiveValuesSurvive /\ ExitsMatch

\* The emitted code implements the promise: it accesses memory as the
\* interpreter does, indivisibly where the node is atomic, and leaves the
\* function exactly when the interpreter does.
ImplementsNode == Promise!Execution

\* Frame slots start as zero, and sensitive ones are zero again when the
\* function returns, on every path.
SensitiveSlotsAreCleared ==
  /\ code[pc] = <<"values">> => \A i \in DOMAIN node.frame : stack[FrameSlotPosition(i)] = 0
  /\ outcome = "returned" =>
       \A i \in DOMAIN node.frame : node.frame[i] => stack[FrameSlotPosition(i)] = 0

\* The function comes back to its caller, however often another thread
\* disturbs its exclusive stores.
Terminates == <>(outcome = "returned")

=============================================================================
