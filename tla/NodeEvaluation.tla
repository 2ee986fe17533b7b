--------------------------- MODULE NodeEvaluation ---------------------------
(***************************************************************************)
(* Running a node of a function against its surroundings: helpers, memory, *)
(* bound objects and the poll word.  The surroundings are a sequence of    *)
(* answers, taken in turn by the nodes that ask them something; a run      *)
(* keeps the trace of what it asked.  The answer -1 makes the node leave:  *)
(* an access that does not resolve, a poll that finds an exit requested.   *)
(***************************************************************************)
EXTENDS NodeRules

Refusal == -1

Running == [kind |-> "running"]
Returned(value) == [kind |-> "returned", value |-> value]
Left(status, site, value) == [kind |-> "left", status |-> status, site |-> site, value |-> value]
OutOfBudget == [kind |-> "resource exhausted"]

\* A run begins with the arguments and with every frame local zero.
InitialRun(f, args) ==
  [block |-> 1, values |-> [v \in 1..Len(f.parameter_types) |-> args[v]],
   frame |-> [s \in DOMAIN f.frame_slots |-> 0], trace |-> <<>>, executions |-> 0, outcome |-> Running,
   reads_are_computed |-> TRUE]

\* The operands of a node, given the value of each.
Inputs(n, value) ==
  [lhs |-> IF n.lhs = 0 THEN 0 ELSE value[n.lhs], rhs |-> IF n.rhs = 0 THEN 0 ELSE value[n.rhs],
   aux |-> IF n.aux = 0 THEN 0 ELSE value[n.aux], args |-> [i \in DOMAIN n.args |-> value[n.args[i]]]]

VectorValue(f, n, in) ==
  LET source == value_type(f, n.lhs)
  IN CASE n.op = "kVectorConstant" -> n.lanes
       [] n.op = "kVectorSplat" -> vector_splat_bits(n.type, in.lhs)
       [] n.op = "kVectorExtractLane" ->
            vector_extract_lane_bits(in.lhs, source, (n.imm % 256) + 1, n.imm >= 256)
       [] n.op = "kVectorInsertLane" -> vector_insert_lane_bits(in.lhs, n.type, n.imm + 1, in.rhs)
       [] n.op = "kVectorUnary" -> vector_unary(in.lhs, n.type)
       [] n.op = "kVectorBinary" -> vector_binary(n.sub, in.lhs, in.rhs, n.type)
       [] n.op = "kVectorCompare" -> vector_compare(n.sub, in.lhs, in.rhs, source)
       [] n.op = "kVectorSelect" -> vector_select(in.lhs, in.rhs, in.args[1], source)
       [] n.op = "kVectorLaneSignMask" -> vector_lane_sign_mask(in.lhs, source)
       [] n.op = "kVectorShuffle" -> vector_shuffle(in.lhs, n.type, n.lanes)
       [] n.op = "kVectorWiden" -> vector_widen(in.lhs, source, n.type, n.imm % 256 = 1, n.imm >= 256)

\* The arithmetic of the control-flow interpreter, which has its own beside
\* evaluate_binary of the straight-line one.
evaluate_node(op, lhs, rhs) ==
  CASE op = "kAdd" -> Wrap(lhs + rhs)
    [] op = "kSubtract" -> Wrap(lhs - rhs)
    [] op = "kMultiply" -> Wrap(lhs * rhs)
    [] op = "kBitwiseAnd" -> BitAnd(lhs, rhs)
    [] op = "kBitwiseOr" -> BitOr(lhs, rhs)
    [] op = "kBitwiseXor" -> BitXor(lhs, rhs)
    [] op = "kShiftLeft" /\ Signed(rhs) < 0 -> IF Wrap(-rhs) >= WordBits THEN 0 ELSE lhs \div 2^Wrap(-rhs)
    [] op = "kShiftLeft" /\ Signed(rhs) >= 0 -> IF rhs >= WordBits THEN 0 ELSE Wrap(lhs * 2^rhs)
    [] op = "kFloorDivide" -> floor_divide_word(lhs, rhs)
    [] op = "kFloorModulo" -> floor_modulo_word(lhs, rhs)
    [] op = "kNegate" -> Wrap(0 - lhs)
    [] op = "kBitwiseNot" -> BitNot(lhs)
    [] op = "kFloatNegate" -> BitXor(lhs, SignBit)
    [] op \in FloatOps -> FloatResult(op, lhs, rhs)
    [] op = "kFloatLessThan" -> Truth(FloatLess(lhs, rhs))
    [] op = "kFloatLessEqual" -> Truth(FloatLess(lhs, rhs) \/ FloatEqual(lhs, rhs))
    [] op = "kFloatEqual" -> Truth(FloatEqual(lhs, rhs))
    [] op = "kFloatNotEqual" -> Truth(~FloatEqual(lhs, rhs))
    [] op = "kLessThan" -> Truth(Signed(lhs) < Signed(rhs))
    [] op = "kLessEqual" -> Truth(Signed(lhs) <= Signed(rhs))
    [] op = "kEqual" -> Truth(lhs = rhs)
    [] OTHER -> Truth(lhs # rhs)

\* What a node computes from its operands alone.
ComputedValue(f, n, in) ==
  CASE n.op = "kConstant" -> n.imm
    [] n.op = "kLoadPatchCell" -> f.patch_cells[n.imm].initial_value
    [] n.op \in VectorOps -> VectorValue(f, n, in)
    [] n.op = "kByteSwap" -> byte_swap_word(in.lhs, n.imm)
    [] f.blocks = <<>> -> evaluate_binary(n.op, in.lhs, in.rhs)
    [] OTHER -> evaluate_node(n.op, in.lhs, in.rhs)

-----------------------------------------------------------------------------

AsksSurroundings(op) ==
  op \in CallOps \cup {"kSafepoint", "kAtomicFence"} \cup BoundedOps \cup AtomicOps \cup ObjectOps
Question(n, in) ==
  [op |-> n.op, imm |-> n.imm, sub |-> n.sub, access |-> n.access, slot |-> n.slot, in |-> in]
NextAnswer(answers, trace) == answers[(Len(trace) % Len(answers)) + 1]

\* What an answer that is not a refusal gives the node: memory and helpers decide
\* what a load or a call returns, a store returns what it stored.
AnsweredValue(n, in, answer) ==
  CASE n.op \in {"kStoreWord", "kStoreFloat", "kStoreVector", "kAtomicStore"} -> in.rhs
    [] n.op = "kStoreObject" -> in.lhs
    [] n.op \in {"kSafepoint", "kAtomicFence"} -> 0
    [] n.op = "kLoadWord" ->
         IF n.access.sign_extend THEN SignExtend(answer, n.access.width) ELSE Low(answer, n.access.width)
    [] n.op = "kLoadFloat" -> IF n.access.width = 4 THEN Widen(answer) ELSE answer
    [] n.op = "kLoadVector" -> [lane \in Lanes(n.type) |-> (answer + lane) % (lane_mask(n.type) + 1)]
    [] n.op \in AtomicOps -> Low(answer, n.access.width)
    [] OTHER -> IF answer = Refusal THEN 0 ELSE answer

GuardFails(n, in) ==
  \/ n.op = "kGuardWordNonzero" /\ in.lhs = 0
  \/ n.op = "kGuardFloatNonzero" /\ IsZero(in.lhs)

\* How the node ends the run, when it does.
OutcomeOf(n, in, answer) ==
  CASE n.op \in GuardOps /\ GuardFails(n, in) -> Left("kRuntimeExit", n.imm, in.lhs)
    [] n.op = "kSafepoint" /\ answer = Refusal -> Left("kExecutionInterrupted", n.imm, 0)
    [] n.op \in BoundedOps \cup AtomicOps /\ answer = Refusal -> Left("kRuntimeExit", n.imm, in.lhs)
    [] OTHER -> Running

\* The value of a node that does not end the run.  A frame local belongs to the
\* run and is no part of its surroundings.
ResultOf(f, run, n, in, answer) ==
  CASE n.op \in GuardOps -> 0
    [] n.op = "kLoadFrame" -> run.frame[n.slot]
    [] n.op = "kStoreFrame" -> in.lhs
    [] AsksSurroundings(n.op) -> AnsweredValue(n, in, answer)
    [] OTHER -> ComputedValue(f, n, in)

\* The run after the node `v`, whose operands have the values `in`.
Performed(f, answers, run, v, in) ==
  LET n == f.nodes[v]
      answer == NextAnswer(answers, run.trace)
      outcome == OutcomeOf(n, in, answer)
  IN [run EXCEPT
        !.outcome = outcome,
        !.values = IF outcome = Running THEN (v :> ResultOf(f, run, n, in, answer)) @@ @ ELSE @,
        !.frame = IF n.op = "kStoreFrame" THEN [@ EXCEPT ![n.slot] = in.lhs] ELSE @,
        !.trace = IF AsksSurroundings(n.op) THEN Append(@, Question(n, in)) ELSE @]

\* A read by the interpreter, whose value vectors start out zero.
ReadValue(f, run, v) ==
  IF v \in DOMAIN run.values THEN run.values[v]
  ELSE IF is_vector_value_type(value_type(f, v)) THEN ZeroVector(value_type(f, v)) ELSE 0

Interpreted(f, answers, run, v) ==
  IF run.outcome # Running THEN run
  ELSE Performed(f, answers,
         [run EXCEPT !.reads_are_computed = @ /\ Operands(f.nodes[v]) \subseteq DOMAIN run.values],
         v, Inputs(f.nodes[v], [u \in Operands(f.nodes[v]) |-> ReadValue(f, run, u)]))

=============================================================================
