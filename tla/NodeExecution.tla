---------------------------- MODULE NodeExecution ----------------------------
(***************************************************************************)
(* What running one IR node promises, whatever executes it: the reference  *)
(* interpreter (src/ir/interpreter.cpp with memory_access.cpp and          *)
(* atomic_access.cpp) does it in one step.  A node that accesses memory    *)
(* looks at the accessed bytes and updates them, an atomic node at most    *)
(* once and indivisibly, or leaves the function without having changed     *)
(* anything.  Other threads may write the bytes of an atomic access.       *)
(***************************************************************************)
EXTENDS WordSemantics, NodeKinds

CONSTANTS Address, Noise

VARIABLES node, value, bound,    \* what is run, on which operands and bindings
          memory,
          observed,              \* the bytes when last accessed; Unread before
          updates,               \* how often the node has changed memory
          phase                  \* "running", "completed" or "left"

inputs == <<node, value, bound>>
executionVars == <<inputs, memory, observed, updates, phase>>

Unread == -1

access == [region |-> node.region, width |-> node.width, alignment |-> node.alignment,
           big_endian |-> node.big_endian, sign_extend |-> node.sign_extend]
here == bound.data + value["lhs"]

Exits ==
  CASE node.op = "kGuardWordNonzero" -> value["lhs"] = 0
    [] node.op = "kGuardFloatNonzero" -> IsZero(value["lhs"])
    [] node.op = "kSafepoint" -> bound.present /\ bound.interrupt # 0
    [] node.op \in MemoryOps \cup AtomicOps -> Unresolved(access, value["lhs"], bound, node.op \in StoreOps)
    [] OTHER -> FALSE

Accessed == Bytes(memory, here, node.width)

\* What an atomic node leaves for the bytes `old`.
Replaced(old) == Replacement(node.op, node.width, old, value["rhs"], value["aux"])

Updated ==
  CASE node.op = "kStoreWord" -> store_bounded_word(access, here, memory, value["rhs"])
    [] node.op = "kStoreFloat" -> store_bounded_float(access, here, memory, value["rhs"])
    [] node.op \in AtomicOps -> WithBytes(memory, here, node.width, Replaced(Accessed))
    [] OTHER -> memory

ExecutionInit ==
  /\ memory \in [Address -> {0, 1}]
  /\ observed = Unread
  /\ updates = 0
  /\ phase = "running"

\* An atomic node may look at the bytes any number of times before it updates them.
Observe ==
  /\ phase = "running" /\ ~Exits /\ node.op \in AtomicOps /\ updates = 0
  /\ observed' = Accessed
  /\ UNCHANGED <<inputs, memory, updates, phase>>

\* An atomic node changes them at once and only once.
Update ==
  /\ phase = "running" /\ ~Exits /\ node.op \in AtomicOps /\ updates = 0
  /\ memory' = Updated
  /\ memory' # memory
  /\ updates' = 1
  /\ observed' = Accessed
  /\ UNCHANGED <<inputs, phase>>

\* A plain store may write its bytes one after another, each to its final value.
Write ==
  /\ phase = "running" /\ ~Exits /\ node.op \in StoreOps \cap MemoryOps
  /\ memory' \in [Address -> {0, 1}]
  /\ \A a \in Address : memory'[a] \in {memory[a], Updated[a]}
  /\ UNCHANGED <<inputs, observed, updates, phase>>

\* A node that completes has done its update, or had nothing to change.
Complete ==
  /\ phase = "running" /\ ~Exits
  /\ \/ updates = 1
     \/ IF node.op \in AtomicOps THEN observed # Unread /\ Replaced(observed) = observed
                                 ELSE Updated = memory
  /\ phase' = "completed"
  /\ UNCHANGED <<inputs, memory, observed, updates>>

Leave ==
  /\ phase = "running" /\ Exits /\ updates = 0
  /\ phase' = "left"
  /\ UNCHANGED <<inputs, memory, observed, updates>>

WriteElsewhere ==
  /\ phase = "running" /\ ~Exits /\ node.op \in AtomicOps
  /\ \E v \in Noise : memory' = [memory EXCEPT ![here] = v]
  /\ UNCHANGED <<inputs, observed, updates, phase>>

Execution == ExecutionInit /\ [][Observe \/ Update \/ Write \/ Complete \/ Leave \/ WriteElsewhere]_executionVars

=============================================================================
