----------------------------- MODULE LinearScan -----------------------------
(***************************************************************************)
(* Straight-line code generation: the linear-scan register allocator       *)
(* (allocate_impl in src/jit/register_allocator.cpp) and the machine code  *)
(* that the backends emit from its result, executed on an abstract         *)
(* machine.  A function is a list of nodes; a node defines one value, and  *)
(* a register or stack word holds the number of the value written there    *)
(* last, which is all a reader of it can tell apart.                       *)
(*                                                                         *)
(* The free registers and the active values are sets: the code takes the   *)
(* last freed register and the first of several longest-lived values, the  *)
(* model takes any.                                                        *)
(***************************************************************************)
EXTENDS Integers, FiniteSets

CONSTANTS
  Program,                    \* the functions considered
  word_register_count, simd_register_count,
  maximum_spill_slots,        \* words of the spill frame
  kMaximumCapturedValues      \* values an exit can capture

ValueType == {"kWord", "kFloat64", "kVector"}

\* What a node does besides defining its value: nothing; call the runtime;
\* maybe leave the function (safepoints, guards, memory accesses); or access
\* memory atomically, which may leave and may call the fallback.
Effect == {"none", "call", "exit", "atomic"}

\* An ir::Function, and how the target it is compiled for keeps vectors.
\* `uses` are the operands of a node, with the values its stack-map
\* requirement names.
IsProgram(p) ==
  /\ p.vector_mode \in {"kSharedWithFloat64", "kStackOnly"}
  /\ p.size \in Nat \ {0}
  /\ p.type \in [0..p.size-1 -> ValueType]
  /\ p.effect \in [0..p.size-1 -> Effect]
  /\ p.uses \in [0..p.size-1 -> SUBSET (0..p.size-1)]
  /\ \A i \in 0..p.size-1 : \A v \in p.uses[i] : v < i
  /\ p.return_value \in 0..p.size-1 /\ p.type[p.return_value] # "kVector"
  /\ \A i \in 0..p.size-1 : /\ p.effect[i] = "call" => p.type[i] # "kVector"
                            /\ p.effect[i] = "atomic" => p.type[i] = "kWord"

ASSUME LinearScanAssumption ==
  /\ word_register_count \in Nat \ {0} /\ simd_register_count \in Nat \ {0}
  /\ maximum_spill_slots \in Nat /\ kMaximumCapturedValues \in Nat
  /\ \A p \in Program : IsProgram(p)

None == -1

VARIABLES
  program,
  last_use,                   \* RegisterAllocation::last_uses
  phase,                      \* "scan", "calls", "run", "done" or "rejected"
  index,                      \* node being allocated or executed
  register_index, spill_slot, \* ValueLocation of each value
  spill_slots,                \* words reserved
  active,                     \* active_word and active_simd
  free,                       \* free_word_registers and free_simd_registers
  regs, stack                 \* the machine

allocationVars == <<last_use, register_index, spill_slot, spill_slots, active, free>>
vars == <<program, phase, index, allocationVars, regs, stack>>

Value == 0..program.size-1
type(v) == program.type[v]
MayCall(i) == program.effect[i] \in {"call", "atomic"}
MayExit(i) == program.effect[i] \in {"exit", "atomic"}

register_bank(t) ==
  CASE t = "kWord" -> "kWord"
    [] t = "kFloat64" -> "kSimd"
    [] OTHER -> IF program.vector_mode = "kStackOnly" THEN "kStack" ELSE "kSimd"

Bank == {"kWord", "kSimd"}
Register(b) == IF b = "kWord" THEN 0..word_register_count-1 ELSE 0..simd_register_count-1

stack_slot_width(t) == IF t = "kVector" THEN 2 ELSE 1

\* Vectors start at an even word.
reserve_stack_slot(t) == IF t = "kVector" /\ spill_slots % 2 = 1 THEN spill_slots + 1 ELSE spill_slots

\* The nodes that use v; the return comes after all nodes.
Uses(p, v) == {i \in 0..p.size-1 : v \in p.uses[i]} \cup {v}
              \cup (IF p.return_value = v THEN {p.size} ELSE {})
\* The last of them.
note_use(p, v) == CHOOSE i \in Uses(p, v) : \A j \in Uses(p, v) : j <= i

Init ==
  /\ program \in Program
  /\ last_use = [v \in Value |-> note_use(program, v)]
  /\ phase = "scan"
  /\ index = 0
  /\ register_index = [v \in Value |-> None]
  /\ spill_slot = [v \in Value |-> None]
  /\ spill_slots = 0
  /\ active = {}
  /\ free = [b \in Bank |-> Register(b)]
  /\ regs = [b \in Bank |-> [r \in Register(b) |-> None]]
  /\ stack = [s \in 0..maximum_spill_slots-1 |-> None]

-----------------------------------------------------------------------------
(***************************************************************************)
(* The scan: one step per value, in definition order.                      *)
(***************************************************************************)

Spilled(v) ==
  /\ spill_slot' = [spill_slot EXCEPT ![v] = reserve_stack_slot(type(v))]
  /\ spill_slots' = reserve_stack_slot(type(v)) + stack_slot_width(type(v))

ScanNext ==
  /\ phase = "scan" /\ index < program.size
  /\ index' = index + 1
  /\ UNCHANGED <<program, last_use, phase, regs, stack>>

\* A vector when the target keeps vectors on the stack.
AssignStack ==
  /\ ScanNext
  /\ register_bank(type(index)) = "kStack"
  /\ Spilled(index)
  /\ UNCHANGED <<register_index, active, free>>

\* Mutant: an interval that ends at this node is over.
ExpiredTooEarly(b) == {v \in active : register_bank(type(v)) = b /\ last_use[v] <= index}
Expired(b) == {v \in active : register_bank(type(v)) = b /\ last_use[v] < index}
Available(b) == free[b] \cup {register_index[v] : v \in Expired(b)}
StillActive(b) == {v \in active \ Expired(b) : register_bank(type(v)) = b}

\* The intervals that ended are released, and a free register is taken.
AssignRegister ==
  /\ ScanNext
  /\ LET b == register_bank(type(index)) IN
     /\ b \in Bank
     /\ \E r \in Available(b) :
          /\ register_index' = [register_index EXCEPT ![index] = r]
          /\ free' = [free EXCEPT ![b] = Available(b) \ {r}]
     /\ active' = (active \ Expired(b)) \cup {index}
  /\ UNCHANGED <<spill_slot, spill_slots>>

\* The longest-lived active value of the bank.
IsVictim(v, b) == v \in StillActive(b) /\ \A w \in StillActive(b) : last_use[w] <= last_use[v]

\* No free register: a value that lives longer gives its register up, for its
\* whole life.
Evict ==
  /\ ScanNext
  /\ LET b == register_bank(type(index)) IN
     /\ b \in Bank /\ Available(b) = {}
     /\ \E victim \in active :
          /\ IsVictim(victim, b)
          /\ last_use[victim] > last_use[index]
          /\ register_index' = [register_index EXCEPT ![index] = register_index[victim],
                                                      ![victim] = None]
          /\ Spilled(victim)
          /\ active' = (active \ {victim}) \cup {index}
  /\ UNCHANGED free

\* No free register, and nobody lives longer.
SpillSelf ==
  /\ ScanNext
  /\ LET b == register_bank(type(index)) IN
     /\ b \in Bank /\ Available(b) = {}
     /\ \A victim \in StillActive(b) : last_use[victim] <= last_use[index]
  /\ Spilled(index)
  /\ UNCHANGED <<register_index, active, free>>

EndScan ==
  /\ phase = "scan" /\ index = program.size
  /\ phase' = "calls"
  /\ UNCHANGED <<program, index, allocationVars, regs, stack>>

-----------------------------------------------------------------------------
(***************************************************************************)
(* Slots for the registers that calls destroy, and the limits.             *)
(***************************************************************************)

\* Mutant: the node after the call does not count.
LiveAfterNext(call) == {v \in 0..call-1 : register_index[v] # None /\ last_use[v] > call + 1}

\* The test of save_live_across_call and restore_live_across_call, too.
LiveAcross(call) == {v \in 0..call-1 : register_index[v] # None /\ last_use[v] > call}

NeedsSlot ==
  {v \in Value : /\ spill_slot[v] = None
                 /\ \E call \in Value : MayCall(call) /\ v \in LiveAcross(call)}

ReserveAcrossCall ==
  /\ phase = "calls"
  /\ \E v \in NeedsSlot : Spilled(v)
  /\ UNCHANGED <<program, last_use, phase, index, register_index, active, free, regs, stack>>

\* plan_straight_stack_map_liveness_impl.  Vectors are not captured.
LiveAt(site) == {v \in 0..site-1 : last_use[v] >= site /\ type(v) # "kVector"}

WithinLimits ==
  /\ spill_slots <= maximum_spill_slots
  /\ \A i \in Value : MayExit(i) => Cardinality(LiveAt(i)) <= kMaximumCapturedValues

EndAllocation ==
  /\ phase = "calls" /\ NeedsSlot = {}
  /\ phase' = IF WithinLimits THEN "run" ELSE "rejected"
  /\ index' = 0
  /\ UNCHANGED <<program, allocationVars, regs, stack>>

-----------------------------------------------------------------------------
(***************************************************************************)
(* The emitted code.                                                       *)
(***************************************************************************)

\* The stack words of a value that has a slot.
Words(v) == spill_slot[v]..(spill_slot[v] + stack_slot_width(type(v)) - 1)

In(file, v) == file[register_bank(type(v))][register_index[v]]

\* load_operand: the register if there is one, else the slot.
Intact(v) ==
  IF register_index[v] # None THEN In(regs, v) = v ELSE \A s \in Words(v) : stack[s] = v

\* A result goes to the register if there is one, else to the slot.
WrittenRegs(file, v) ==
  [b \in Bank |-> [r \in Register(b) |->
     IF register_bank(type(v)) = b /\ register_index[v] = r THEN v ELSE file[b][r]]]
WrittenStack(memory, v) ==
  [s \in 0..maximum_spill_slots-1 |->
     IF register_index[v] = None /\ s \in Words(v) THEN v ELSE memory[s]]

RunNext ==
  /\ phase = "run" /\ index < program.size
  /\ index' = index + 1
  /\ UNCHANGED <<program, allocationVars, phase>>

\* Nodes without a call, exits that are not taken, and atomic instructions.
ExecuteNode ==
  /\ RunNext
  /\ program.effect[index] # "call"
  /\ regs' = WrittenRegs(regs, index)
  /\ stack' = WrittenStack(stack, index)

\* save_live_across_call
Saved ==
  [s \in 0..maximum_spill_slots-1 |->
     IF \E v \in LiveAcross(index) : s \in Words(v)
       THEN In(regs, CHOOSE v \in LiveAcross(index) : s \in Words(v))
       ELSE stack[s]]

\* restore_live_across_call, from the slots.
Reloaded(memory, v) == IF \A s \in Words(v) : memory[s] = v THEN v ELSE None
Restored(file, memory) ==
  [b \in Bank |-> [r \in Register(b) |->
     LET holders == {v \in LiveAcross(index) : register_bank(type(v)) = b /\ register_index[v] = r}
     IN IF holders = {} THEN file[b][r] ELSE Reloaded(memory, CHOOSE v \in holders : TRUE)]]

lost == [b \in Bank |-> [r \in Register(b) |-> None]]

\* Every register is lost to the callee; the result is stored before the
\* saved registers are loaded again.
ExecuteCall ==
  /\ RunNext
  /\ program.effect[index] = "call"
  /\ stack' = WrittenStack(Saved, index)
  /\ regs' = Restored(WrittenRegs(lost, index), stack')

\* Targets without atomic instructions save first and try exclusive accesses...
ExecuteExclusive ==
  /\ RunNext
  /\ program.effect[index] = "atomic"
  /\ stack' = WrittenStack(Saved, index)
  /\ regs' = WrittenRegs(regs, index)

\* ... and call the fallback when all of them fail.  The registers are loaded
\* again before the result is stored.
ExecuteFallback ==
  /\ RunNext
  /\ program.effect[index] = "atomic"
  /\ stack' = WrittenStack(Saved, index)
  /\ regs' = WrittenRegs(Restored(lost, Saved), index)

\* An exit that is taken ends the execution, as does the return.
Leave ==
  /\ phase = "run"
  /\ index < program.size => MayExit(index)
  /\ phase' = "done"
  /\ UNCHANGED <<program, index, allocationVars, regs, stack>>

Next ==
  \/ AssignStack \/ AssignRegister \/ Evict \/ SpillSelf \/ EndScan
  \/ ReserveAcrossCall \/ EndAllocation
  \/ ExecuteNode \/ ExecuteCall \/ ExecuteExclusive \/ ExecuteFallback \/ Leave

Spec == Init /\ [][Next]_vars

-----------------------------------------------------------------------------
(***************************************************************************)
(* Properties.                                                             *)
(***************************************************************************)

TypeOK ==
  /\ program \in Program
  /\ last_use \in [Value -> 0..program.size]
  /\ phase \in {"scan", "calls", "run", "done", "rejected"}
  /\ index \in 0..program.size
  /\ register_index \in [Value -> Nat \cup {None}]
  /\ spill_slot \in [Value -> Nat \cup {None}]
  /\ spill_slots \in Nat
  /\ active \subseteq Value
  /\ free \in [Bank -> SUBSET Nat]
  /\ DOMAIN regs = Bank /\ \A b \in Bank : regs[b] \in [Register(b) -> Value \cup {None}]
  /\ stack \in [0..maximum_spill_slots-1 -> Value \cup {None}]

\* A register is not given to a value while an earlier value that keeps it is
\* still to be used: expiry, eviction and self-spilling in allocate_impl agree
\* on who owns a register, whatever the order in which intervals end.
RegistersAreDisjoint ==
  \A v, w \in Value :
    /\ v < w
    /\ register_index[v] # None /\ register_index[v] = register_index[w]
    /\ register_bank(type(v)) = register_bank(type(w))
    => last_use[v] < w

\* Whatever the code reads is what the node that defined it wrote: the operands
\* of each node, the values a taken exit captures for the interpreter, and the
\* return value, with every register lost at each call in between.
Reads(i) ==
  IF i = program.size THEN {program.return_value}
  ELSE program.uses[i] \cup (IF MayExit(i) THEN LiveAt(i) ELSE {})

ReadsAreIntact == phase \in {"run", "done"} => \A v \in Reads(index) : Intact(v)

=============================================================================
