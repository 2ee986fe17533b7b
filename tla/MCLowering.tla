----------------------------- MODULE MCLowering -----------------------------
(***************************************************************************)
(* The instances that Lowering runs: nodes, the places of their values,    *)
(* operand values at the boundaries, and contexts with every defect that   *)
(* an access is checked for, each with the code that its backend emits for *)
(* the node.                                                               *)
(***************************************************************************)
EXTENDS Lowering
Backends == <<"x86", "a64", "rv">>

Listed(S) == FoldSet(LAMBDA x, s : Append(s, x), <<>>, S)

\* A node with nothing special about it; n.floats are the roles that hold floats.
Plain == [target |-> "x86", flow |-> "straight", op |-> "kAdd", float |-> FALSE, floats |-> {},
          loc |-> <<>>, id |-> [lhs |-> 0, rhs |-> 1, aux |-> 2, live |-> 3, dst |-> 4],
          live |-> <<"lhs", "live">>, across |-> <<"lhs", "rhs", "aux", "live">>, args |-> <<>>,
          frame |-> <<FALSE, TRUE>>, spill_slots |-> 5, nodes |-> 5, staged |-> 1,
          imm |-> 0, site |-> 77, width |-> 8, region |-> 0, alignment |-> 1, big_endian |-> FALSE,
          sign_extend |-> FALSE, sequentially_consistent |-> FALSE, measure |-> FALSE, slot |-> 0,
          lse |-> FALSE, use_atomic_extension |-> TRUE]

Op(op, floats) == [Plain EXCEPT !.op = op, !.floats = floats, !.float = "dst" \in floats]
Ops(ops, floats) == [i \in DOMAIN ops |-> Op(ops[i], floats)]
SwappedBytes(w) == [Op("kByteSwap", {}) EXCEPT !.width = w]
Constant(floats) == [Op("kConstant", floats) EXCEPT !.imm = 9]
Calling(op, helper) == [Op(op, {}) EXCEPT !.args = <<"rhs", "lhs">>, !.imm = helper, !.across = <<"aux", "live">>]
Slot(n, s) == [n EXCEPT !.slot = s]

Widths == <<1, 2, 4, 8>>
\* Accesses of every width, byte order and extension; one in two is aligned.
Accesses(op, floats, widths) ==
  [i \in 1..4 * Len(widths) |->
     [Op(op, floats) EXCEPT !.width = widths[((i - 1) \div 4) + 1],
                            !.big_endian = i % 2 = 0, !.sign_extend = (i \div 2) % 2 = 0,
                            !.alignment = IF (i \div 2) % 2 = 0 THEN 1 ELSE widths[((i - 1) \div 4) + 1],
                            !.region = IF i % 4 = 0 THEN 1 ELSE 0]]
Atomics(op, lse) ==
  [i \in 1..4 |-> [Op(op, {}) EXCEPT !.width = Widths[i], !.alignment = Widths[i], !.lse = lse,
                                     !.sequentially_consistent = i % 2 = 0]]

\* Nodes that only compute.
Computing ==
  <<Op("kParameter", {}), Constant({}), Constant({"dst"})>>
  \o Ops(Listed(WordOps), {})
  \o <<Op("kNegate", {}), Op("kBitwiseNot", {}), SwappedBytes(2), SwappedBytes(4), SwappedBytes(8)>>
  \o Ops(Listed(FloatOps), {"lhs", "rhs", "dst"}) \o <<Op("kFloatNegate", {"lhs", "rhs", "dst"})>>
  \o Ops(Listed(FloatConditions), {"lhs", "rhs"})

\* Nodes that touch the frame, the context, memory or other code.
Acting ==
  <<Calling("kCall", 1007), Calling("kFastCall", 0),
    Op("kGuardWordNonzero", {}), Op("kGuardFloatNonzero", {"lhs"}), Op("kSafepoint", {}),
    [Op("kSafepoint", {}) EXCEPT !.measure = TRUE],
    Op("kLoadFrame", {}), Slot(Op("kLoadFrame", {"dst"}), 1), Slot(Op("kStoreFrame", {}), 1),
    Op("kStoreFrame", {"lhs", "dst"}), Op("kLoadObject", {}), Op("kLoadObject", {"dst"}),
    Op("kStoreObject", {}), Op("kStoreObject", {"lhs", "dst"}), Op("kLoadPatchCell", {}),
    Op("kAtomicFence", {}), [Op("kAtomicFence", {}) EXCEPT !.sequentially_consistent = TRUE]>>
  \o Accesses("kLoadWord", {}, Widths) \o Accesses("kStoreWord", {}, Widths)
  \o Accesses("kLoadFloat", {"dst"}, <<4, 8>>) \o Accesses("kStoreFloat", {"rhs", "dst"}, <<4, 8>>)

AtomicNodes(lse) == FlattenSeq([i \in 1..Len(Listed(AtomicOps)) |-> Atomics(Listed(AtomicOps)[i], lse)])

-----------------------------------------------------------------------------
\* Registers that the allocator hands out, and the float registers beside them.
WordPool(t) == CASE t = "x86" -> <<"rcx", "rdx", "r8", "r9">>
                 [] t = "a64" -> <<"x10", "x11", "x12", "x13">>
                 [] t = "rv" -> <<"x11", "x12", "x13", "x28">>
FloatPool(t) == CASE t = "x86" -> <<"xmm1", "xmm2", "xmm3", "xmm4">>
                  [] t = "a64" -> <<"v0", "v1", "v2", "v16">>
                  [] t = "rv" -> <<"f10", "f11", "f12", "f13">>

\* Which register of the pool each of lhs, rhs, aux, live and dst has; 0 is none.
Patterns == << <<1, 2, 3, 4, 0>>, <<0, 1, 2, 3, 4>>, <<0, 0, 0, 0, 0>>,
               <<2, 3, 4, 0, 1>>, <<3, 4, 0, 1, 2>>, <<4, 0, 1, 2, 3>> >>
RoleOrder == <<"lhs", "rhs", "aux", "live", "dst">>

\* Control flow: where an operand belongs to an earlier block its register is
\* not used; where it is read by other blocks it is also on the stack.
Placed(n, p, away, home) ==
  [v \in {"lhs", "rhs", "aux", "live", "dst"} |->
     LET i == CHOOSE k \in 1..5 : RoleOrder[k] = v
         pool == IF v \in n.floats THEN FloatPool(n.target) ELSE WordPool(n.target)
     IN [reg |-> IF p[i] = 0 THEN "none" ELSE pool[p[i]], slot |-> i - 1,
         local |-> v \notin away, home |-> v \in home \cup away]]
Straight(n, i) == [n EXCEPT !.loc = Placed(n, Patterns[i], {}, {})]
Away == << {}, {"lhs"}, {"rhs", "live"}, {} >>
Home == << {}, {"dst", "live"}, {"dst"}, {"lhs", "rhs", "aux", "live", "dst"} >>
Control(n, i) == [n EXCEPT !.flow = "control", !.loc = Placed(n, Patterns[i], Away[i], Home[i])]

WithoutExtension(ns) == [i \in DOMAIN ns |-> [ns[i] EXCEPT !.use_atomic_extension = FALSE]]
OnTarget(ns, t) == [i \in DOMAIN ns |-> [ns[i] EXCEPT !.target = t]]
Everywhere(ns, straight, control) ==
  FlattenSeq([i \in DOMAIN ns |->
    [k \in 1..straight |-> Straight(ns[i], k)] \o [k \in 1..control |-> Control(ns[i], k)]])

NodesOf(t) ==
  Everywhere(OnTarget(Computing, t), IF t = "x86" THEN 5 ELSE 3, 2)
  \o Everywhere(OnTarget(Acting, t), 3, 2)
  \o Everywhere(OnTarget(AtomicNodes(FALSE), t), 2, 1)
  \o (IF t = "a64" THEN Everywhere(OnTarget(AtomicNodes(TRUE), t), 2, 1) ELSE <<>>)
  \o (IF t = "rv" THEN Everywhere(WithoutExtension(OnTarget(AtomicNodes(FALSE), t)), 1, 1) ELSE <<>>)

Nodes == FlattenSeq([i \in DOMAIN Backends |-> NodesOf(Backends[i])])

-----------------------------------------------------------------------------
Words == {0, 1, 2, 7, 8, 9, 127, 128, 247, 248, 255}
FewWords == {0, 1, 128, 255}
\* zeros, numbers of both signs and NaNs
Floats == {0, 128, 1, 16, 144, 112, 255}

Bound == [present |-> TRUE, count |-> 1, data |-> 8, size |-> 12, writable |-> TRUE, interrupt |-> 0]
Given(l, r) == [lhs |-> l, rhs |-> r, aux |-> 154, live |-> 6]
Scenario(v, b) == [value |-> v, bound |-> b]

Scenarios(n) ==
  CASE n.op \in {"kShiftLeft", "kFloorDivide", "kFloorModulo"} ->
         {Scenario(Given(l, r), Bound) : l \in FewWords \cup {7}, r \in Words}
    [] n.op \in WordOps \cup UnaryOps -> {Scenario(Given(l, r), Bound) : l, r \in FewWords}
    [] n.op \in FloatConditions -> {Scenario(Given(l, r), Bound) : l, r \in Floats}
    [] n.op \in {"kGuardWordNonzero", "kGuardFloatNonzero"} ->
         {Scenario(Given(l, 5), [Bound EXCEPT !.present = p]) : l \in Floats, p \in BOOLEAN}
    [] n.op = "kSafepoint" ->
         {Scenario(Given(4, 5), [Bound EXCEPT !.present = p, !.interrupt = i]) : i \in 0..2, p \in BOOLEAN}
    [] n.op \in MemoryOps \cup AtomicOps ->
         {Scenario(Given(l, 181), [Bound EXCEPT !.count = n.region + 1]) : l \in {0, 1, 12 - n.width, 13 - n.width, 255}}
         \cup {Scenario(Given(0, 181), b) : b \in
                 {[Bound EXCEPT !.present = FALSE], [Bound EXCEPT !.count = 0],
                  [Bound EXCEPT !.count = n.region], [Bound EXCEPT !.count = 2, !.size = 0, !.data = 0],
                  [Bound EXCEPT !.count = 2, !.size = 3], [Bound EXCEPT !.count = 2, !.data = 9],
                  [Bound EXCEPT !.count = 2, !.writable = FALSE]}}
    [] OTHER -> {Scenario(Given(4, 5), Bound)}

-----------------------------------------------------------------------------
(* The code.                                                                *)

X86 == INSTANCE X86Lowering
A64 == INSTANCE AArch64Lowering
RV == INSTANCE RiscvLowering

Emitted(n) == CASE n.target = "x86" -> X86!Function(n) [] n.target = "a64" -> A64!Function(n)
                [] OTHER -> RV!Function(n)
LayoutOf(n) == CASE n.target = "x86" -> X86!LayoutOf(n) [] n.target = "a64" -> A64!LayoutOf(n)
                 [] OTHER -> RV!LayoutOf(n)

\* The nodes that their backend makes code for.
Table ==
  LET nodes == SelectSeq(Nodes, LAMBDA n : Emitted(n) # <<>>)
  IN SubSeq([k \in DOMAIN nodes |->
               [node |-> nodes[k], code |-> Emitted(nodes[k]), layout |-> LayoutOf(nodes[k]),
                scenarios |-> Scenarios(nodes[k])]], 1, Len(nodes))

\* TLC works out Table once.
MCCases == LET cases == Table IN cases

=============================================================================
