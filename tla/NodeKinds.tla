------------------------------ MODULE NodeKinds ------------------------------
(***************************************************************************)
(* The operations of IR nodes, grouped as the backends group them.         *)
(***************************************************************************)

WordOps == {"kAdd", "kSubtract", "kMultiply", "kBitwiseAnd", "kBitwiseOr", "kBitwiseXor", "kShiftLeft",
            "kFloorDivide", "kFloorModulo", "kLessThan", "kLessEqual", "kEqual", "kNotEqual"}
UnaryOps == {"kNegate", "kBitwiseNot", "kByteSwap"}
FloatOps == {"kFloatAdd", "kFloatSubtract", "kFloatMultiply", "kFloatDivide"}
FloatConditions == {"kFloatLessThan", "kFloatLessEqual", "kFloatEqual", "kFloatNotEqual"}
CallOps == {"kCall", "kFastCall"}
GuardOps == {"kGuardWordNonzero", "kGuardFloatNonzero"}
FrameOps == {"kLoadFrame", "kStoreFrame"}
ObjectOps == {"kLoadObject", "kStoreObject"}
MemoryOps == {"kLoadWord", "kStoreWord", "kLoadFloat", "kStoreFloat"}
AtomicOps == {"kAtomicLoad", "kAtomicStore", "kAtomicExchange", "kAtomicCompareExchange",
              "kAtomicFetchAdd", "kAtomicFetchAnd", "kAtomicFetchOr", "kAtomicFetchXor"}

\* Nodes that write memory, that have a stack map, and that need the context.
StoreOps == {"kStoreWord", "kStoreFloat"} \cup (AtomicOps \ {"kAtomicLoad"})
StackMapOps == {"kSafepoint"} \cup GuardOps \cup MemoryOps \cup AtomicOps
ContextOps == StackMapOps \cup ObjectOps \cup {"kFastCall", "kLoadPatchCell"}

\* runtime::ExitReason
kNone == 0
kSafepoint == 1
kRuntime == 2

=============================================================================
