--------------------------- MODULE MCCodePipeline ---------------------------
(***************************************************************************)
(* CodePipeline for a list of programs.  A program is a script: each       *)
(* step is a set of builder calls, one of which is made.  A call names its *)
(* operands by their place among the values the builder has handed back so *)
(* far (parameters first).  Beside its script a program has the frames     *)
(* requested at its guards, the arguments and the answers it runs with.    *)
(* Some calls are ill-formed or use a value that is not available, which   *)
(* the verifier has to notice.                                             *)
(***************************************************************************)
EXTENDS CodePipeline
Access8(width) ==
  [region |-> 0, width |-> width, alignment |-> width, byte_order |-> "kNative", sign_extend |-> FALSE,
   is_volatile |-> FALSE, order |-> "kSequentiallyConsistent", failure_order |-> "kRelaxed",
   strength |-> "kStrong"]
Call == [method |-> "constant", lhs |-> 0, rhs |-> 0, aux |-> 0, imm |-> 0, sub |-> "", type |-> "kWord",
         args |-> <<>>, lanes |-> <<>>, slot |-> 0, access |-> [width |-> 0], types |-> <<>>,
         true_target |-> 0, false_target |-> 0, false_args |-> <<>>]

WordConstant(imm) == [Call EXCEPT !.imm = imm]
FloatConstant(imm) == [Call EXCEPT !.method = "float64_constant", !.imm = imm, !.type = "kFloat64"]
Binary(method, lhs, rhs) == [Call EXCEPT !.method = method, !.lhs = lhs, !.rhs = rhs]
Unary(method, lhs) == [Call EXCEPT !.method = method, !.lhs = lhs]
Swap(lhs, width) == [Call EXCEPT !.method = "byte_swap", !.lhs = lhs, !.imm = width]
Helper(type, args) == [Call EXCEPT !.method = "call", !.imm = 1, !.type = type, !.args = args]
FastCall(index, args) == [Call EXCEPT !.method = "fast_call", !.imm = index, !.args = args]
Exit(method, lhs, site) == [Call EXCEPT !.method = method, !.lhs = lhs, !.imm = site]
Memory(method, lhs, rhs, site, access) ==
  [Call EXCEPT !.method = method, !.lhs = lhs, !.rhs = rhs, !.imm = site, !.access = access]
CompareAndSwap(lhs, rhs, aux, site, access) ==
  [Call EXCEPT !.method = "atomic_compare_exchange", !.lhs = lhs, !.rhs = rhs, !.aux = aux, !.imm = site,
               !.access = access]
Fence(order) == [Call EXCEPT !.method = "atomic_fence", !.sub = order]
Slots(method, type, imm) == [Call EXCEPT !.method = method, !.type = type, !.imm = imm]
InSlot(method, slot, lhs, imm, type) ==
  [Call EXCEPT !.method = method, !.slot = slot, !.lhs = lhs, !.imm = imm, !.type = type]
NewCell(kind, value) == [Call EXCEPT !.method = "create_patch_cell", !.sub = kind, !.imm = value]
Patch(index) == [Call EXCEPT !.method = "load_patch_cell", !.imm = index]
Vector(method, type, lhs, rhs, sub) ==
  [Call EXCEPT !.method = method, !.type = type, !.lhs = lhs, !.rhs = rhs, !.sub = sub]
Lane(method, lhs, rhs, imm) == [Call EXCEPT !.method = method, !.lhs = lhs, !.rhs = rhs, !.imm = imm]

Block(types) == [Call EXCEPT !.method = "create_block", !.types = types]
Into(block) == [Call EXCEPT !.method = "set_insertion_block", !.imm = block]
Return(v) == [Call EXCEPT !.method = "set_return", !.lhs = v]
Jump(target, args) == [Call EXCEPT !.method = "jump", !.true_target = target, !.args = args]
Branch(v, target, args, false_target, false_args) ==
  [Call EXCEPT !.method = "branch", !.lhs = v, !.true_target = target, !.args = args,
               !.false_target = false_target, !.false_args = false_args]

\* A requested frame: a value as it is captured, and the exit value.
Frame(site, types, values) ==
  [site |-> site, reason |-> "kGuardFailed",
   recovery |-> Append([i \in DOMAIN values |-> [slot |-> i, type |-> types[i], source |-> "kCapturedValue",
                                                 value |-> values[i], capture_index |-> 0]],
                       [slot |-> Len(values) + 1, type |-> "kWord", source |-> "kExitValue", value |-> 0,
                        capture_index |-> 0])]

Program == [kind |-> "straight", types |-> <<"kWord">>, regions |-> 1, script |-> <<>>, requests |-> {<<>>},
            arguments |-> {<<0>>, <<1>>, <<2>>, <<255>>}, answers |-> {<<1>>}, levels |-> {"kOptimized"}]

WordMethods == {"add", "subtract", "multiply", "bitwise_and", "bitwise_or", "bitwise_xor", "shift_left",
                "floor_divide", "floor_modulo", "less_than", "less_equal", "equal", "not_equal"}
FloatMethods == {"float64_add", "float64_subtract", "float64_multiply", "float64_divide", "float64_less_than",
                 "float64_less_equal", "float64_equal", "float64_not_equal"}
ArithmeticVectors == {"kI8x16", "kI16x8", "kI32x4", "kI64x2", "kF32x4", "kF64x2"}

-----------------------------------------------------------------------------
(***************************************************************************)
(* Straight-line programs.                                                 *)
(***************************************************************************)

\* Operations on a parameter and a constant, then on their result.
word_algebra ==
  [Program EXCEPT !.script =
     <<{WordConstant(k) : k \in {0, 1, 2, 255}},
       {Binary(m, x, y) : m \in WordMethods, x \in {1, 2}, y \in {1, 2}},
       {Binary("subtract", 1, 3), Binary("bitwise_or", 3, 2), Unary("negate", 3), Swap(3, 4)},
       {Unary("negate", 4), Unary("bitwise_not", 4), Binary("bitwise_xor", 4, 4)},
       {Return(5)}>>]

\* Operations on two constants, at the edges of shifts, divisions and signs.
FoldedWords == {0, 1, 7, 8, 128, 249, 255}
word_constants ==
  [Program EXCEPT !.script =
     <<{WordConstant(k) : k \in {5, 128, 255}}, {WordConstant(k) : k \in FoldedWords},
       {Binary(m, 2, 3) : m \in WordMethods}, {Binary("add", 1, 4)}, {Return(5)}>>,
     !.arguments = {<<1>>}]

\* Unary operations twice over, guards on what may be known, captured values.
unary_guards ==
  [Program EXCEPT !.script =
     <<{WordConstant(0), WordConstant(2)},
       {Unary(m, x) : m \in {"negate", "bitwise_not"}, x \in {1, 2}} \cup {Swap(1, w) : w \in {2, 3, 8}},
       {Unary("negate", 3), Unary("bitwise_not", 3), Swap(3, 2)},
       {Exit("guard_word_nonzero", v, 7) : v \in {0, 1, 2, 4}} \cup {Exit("guard_float64_nonzero", 4, 7)},
       {Binary("add", 4, 2)}, {Exit("guard_word_nonzero", v, s) : v \in {3, 6}, s \in {7, 8}},
       {Return(6)}>>,
     !.requests = {<<>>, <<Frame(7, <<"kWord", "kWord">>, <<3, 2>>)>>, <<Frame(8, <<"kWord">>, <<4>>)>>,
                   <<Frame(7, <<"kWord">>, <<6>>)>>}]

float_algebra ==
  [Program EXCEPT !.types = <<"kFloat64">>, !.script =
     <<{FloatConstant(k) : k \in {0, 1, 128}},
       {Binary(m, x, y) : m \in FloatMethods, x \in {1, 2}, y \in {1, 2}},
       {Unary("float64_negate", 1), Unary("float64_negate", 2), Unary("float64_negate", 3)},
       {Unary("float64_negate", 4), Exit("guard_float64_nonzero", 4, 7), Exit("guard_float64_nonzero", 2, 7)},
       {Return(3), Return(4), Return(5)}>>,
     !.arguments = {<<0>>, <<1>>, <<128>>}]

\* Vectors of every shape, over constants and over splats of the parameter.
vector_algebra ==
  [Program EXCEPT !.script =
     <<{Vector("vector_splat", t, 1, 0, "") : t \in ArithmeticVectors},
       {WordConstant(3)}, {Vector("vector_splat", t, 3, 0, "") : t \in ArithmeticVectors},
       {Vector("vector_binary", "kWord", x, 4, op) :
          x \in {2, 4}, op \in {"kAdd", "kSubtract", "kMultiply", "kDivide", "kBitwiseXor"}}
       \cup {Vector("vector_unary", "kWord", 4, 0, ""), Lane("vector_insert_lane", 4, 3, 1)},
       {Lane("vector_extract_lane", 5, 0, lane) : lane \in {0, 1, 257}} \cup {Lane("vector_extract_lane", 5, 0, 5)},
       {Return(6)}>>,
     !.arguments = {<<1>>, <<255>>}]

vector_masks ==
  [Program EXCEPT !.script =
     <<{Vector("vector_splat", t, 1, 0, "") : t \in {"kI16x8", "kI32x4", "kF64x2"}},
       {WordConstant(9)}, {Vector("vector_splat", t, 3, 0, "") : t \in {"kI16x8", "kI32x4", "kF64x2"}},
       {Lane("vector_insert_lane", 4, 1, 1)},
       {Vector("vector_compare", "kWord", 2, x, c) : x \in {4, 5},
          c \in {"kEqual", "kSignedLessThan", "kUnsignedLessEqual", "kOrderedFloatLessThan", "kOrderedFloatEqual"}},
       {[Vector("vector_select", "kWord", 6, 4, "") EXCEPT !.args = <<2>>],
        [Vector("vector_shuffle", "kWord", 2, 0, "") EXCEPT !.lanes = <<1, 0>>],
        [Vector("vector_shuffle", "kWord", 5, 0, "") EXCEPT !.lanes = <<3, 2, 1, 0>>],
        [Vector("vector_widen", "kI32x4", 5, 0, "") EXCEPT !.imm = 257],
        [Vector("vector_widen", "kI64x2", 5, 0, "") EXCEPT !.imm = 0]},
       {Vector("vector_lane_sign_mask", "kWord", v, 0, "") : v \in {6, 7}},
       {Return(8)}>>,
     !.arguments = {<<1>>, <<9>>, <<255>>}]

\* Memory, atomics, frame locals, objects and patch cells, well formed or not.
effects ==
  [Program EXCEPT !.types = <<"kWord", "kFloat64">>, !.script =
     <<{Slots("create_frame_slot", "kWord", 0), Slots("create_frame_slot", "kFloat64", 0)},
       {Slots("create_trusted_object", "kWord", size) : size \in {8, 12, 16, 2056}},
       {NewCell("kValue", 5)},
       {[Slots("create_fast_call", "kWord", 0) EXCEPT !.types = <<"kWord">>]},
       {Memory("load_word", 1, 0, 1, [Access8(2) EXCEPT !.sign_extend = TRUE]),
        Memory("load_word", 1, 0, 1, [Access8(4) EXCEPT !.alignment = 8]),
        Memory("load_word", 1, 0, 1, [Access8(4) EXCEPT !.region = 1]),
        Memory("store_word", 1, 1, 1, Access8(8)), Memory("store_word", 1, 2, 1, Access8(8)),
        CompareAndSwap(1, 1, 1, 1, Access8(8)),
        CompareAndSwap(1, 1, 1, 1, [Access8(2) EXCEPT !.failure_order = "kAcquire"]),
        CompareAndSwap(1, 1, 1, 1, [Access8(4) EXCEPT !.order = "kRelease", !.failure_order = "kAcquire"]),
        FastCall(1, <<1>>), FastCall(1, <<2>>), FastCall(2, <<1>>), Helper("kWord", <<1, 2>>)},
       {Memory("load_float", 1, 0, 2, Access8(4)), Memory("store_float", 1, 2, 2, Access8(8)),
        Memory("atomic_load", 1, 0, 2, [Access8(4) EXCEPT !.order = "kAcquire"]),
        Memory("atomic_load", 1, 0, 2, [Access8(4) EXCEPT !.order = "kRelease"]),
        Memory("atomic_store", 1, 1, 1, [Access8(1) EXCEPT !.order = "kRelease"]),
        Memory("atomic_exchange", 1, 1, 2, Access8(2)),
        Memory("atomic_fetch_add", 1, 1, 2, Access8(8)), Fence("kRelaxed"), Fence("kAcquire"),
        Exit("safepoint", 0, 2), Patch(1), Patch(2)},
       {InSlot("store_frame", 1, 1, 0, "kWord"), InSlot("store_frame", 1, 2, 0, "kWord"),
        InSlot("store_object", 1, 1, 8, "kWord"), InSlot("load_object", 1, 0, 0, "kFloat64"),
        InSlot("load_object", 2, 0, 0, "kWord")},
       {InSlot("load_frame", 1, 0, 0, "kWord")}, {Return(3), Return(6)}>>,
     !.arguments = {<<3, 1>>}, !.answers = {<<1, 7>>, <<9, -1>>}]

-----------------------------------------------------------------------------
(***************************************************************************)
(* Control-flow programs.                                                  *)
(***************************************************************************)

Graph == [Program EXCEPT !.kind = "cfg", !.levels = {"kBaseline", "kOptimized"}]

\* Operations on constants; what a block computes decides where it goes.
folding_graph(constants, more, methods, unary) ==
  [Graph EXCEPT !.script =
     <<{Block(<<>>)}, {Block(<<>>)}, constants, more,
       {Binary(m, 2, 3) : m \in methods} \cup unary, {Binary("add", 1, 1)}, {Branch(5, 2, <<>>, 3, <<>>)},
       {Into(2)}, {Return(4), Return(5)}, {Into(3)}, {Return(4), Return(1)}>>,
     !.arguments = {<<0>>, <<1>>}, !.levels = {"kOptimized"}]
word_folding_graph ==
  folding_graph({WordConstant(k) : k \in {5, 128, 255}}, {WordConstant(k) : k \in FoldedWords}, WordMethods,
                {Unary("negate", 3), Unary("bitwise_not", 3), Swap(3, 4)})
float_folding_graph ==
  folding_graph({FloatConstant(k) : k \in {0, 1, 127}}, {FloatConstant(k) : k \in {0, 128, 129}}, FloatMethods,
                {Unary("float64_negate", 3)})

\* A loop that permutes its parameters, with a place to leave and a helper.
rotating_loop ==
  [Graph EXCEPT !.types = <<"kWord", "kWord">>, !.script =
     <<{Block(<<"kWord", "kWord", "kWord">>)}, {Block(<<"kWord">>)}, {WordConstant(1)},
       {Jump(2, <<1, 2, 7>>), Jump(2, <<1, 2, 2>>)}, {Into(2)},
       {Exit("guard_word_nonzero", 4, 7), Exit("guard_word_nonzero", 3, 7), Exit("safepoint", 0, 7)},
       {Binary("subtract", 3, 7)},
       {Helper("kWord", <<5, 9>>), Binary("add", 4, 5), Memory("load_word", 4, 0, 8, Access8(2)),
        Memory("atomic_fetch_add", 4, 5, 8, Access8(2))},
       {Branch(9, 2, <<9, 5, 4>>, 3, <<10>>), Branch(9, 2, <<9, 10, 4>>, 3, <<5>>),
        Branch(10, 2, <<9, 4, 4>>, 3, <<4>>)},
       {Into(3)}, {Binary("add", 6, 10), Binary("bitwise_xor", 6, 2)}, {Return(11)}>>,
     !.requests = {<<>>, <<Frame(7, <<"kWord", "kWord">>, <<5, 2>>)>>, <<Frame(7, <<"kWord">>, <<9>>)>>},
     !.arguments = {<<2, 5>>, <<3, 0>>}, !.answers = {<<3>>, <<1, 2>>, <<4, -1>>}]

\* Two arms that meet, one of which may never run.
meeting_arms ==
  [Graph EXCEPT !.types = <<"kWord", "kFloat64">>, !.script =
     <<{Block(<<>>)}, {Block(<<"kWord">>)}, {Block(<<"kWord", "kFloat64">>)},
       {WordConstant(0), WordConstant(1), Binary("add", 1, 1)}, {Binary("add", 1, 1)},
       {Branch(6, 2, <<>>, 3, <<7>>), Branch(7, 2, <<>>, 3, <<1>>)},
       {Into(2)}, {Binary("add", 1, 1)}, {Unary("float64_negate", 2)},
       {Exit("guard_word_nonzero", v, 7) : v \in {1, 6, 8}},
       {Jump(4, <<8, 9>>)},
       {Into(3)}, {FloatConstant(1), Helper("kFloat64", <<2, 3>>)}, {Jump(4, <<3, 11>>), Jump(4, <<7, 2>>)},
       {Into(4)}, {Binary("float64_add", 5, 2), Unary("float64_negate", 5)},
       {Binary("multiply", 4, 1)},
       {Helper("kWord", <<12, 13>>), Binary("add", 4, 13), Binary("multiply", 4, 1)},
       {Return(14), Return(12)}>>,
     !.requests = {<<>>, <<Frame(7, <<"kWord", "kFloat64">>, <<8, 9>>)>>},
     !.arguments = {<<0, 1>>, <<2, 1>>}, !.answers = {<<1, 3>>}]

\* Vectors and floats as parameters, more of them than there are registers.
vector_parameters ==
  [Graph EXCEPT !.script =
     <<{Slots("create_frame_slot", "kWord", 0)},
       {Block(<<"kI32x4", "kI32x4", "kWord">>), Block(<<"kI32x4", "kF64x2", "kWord">>)},
       {Vector("vector_splat", "kI32x4", 1, 0, "")}, {WordConstant(2)},
       {Vector("vector_splat", "kI32x4", 6, 0, "")}, {InSlot("store_frame", 1, 1, 0, "kWord")},
       {Jump(2, <<5, 7, 1>>), Jump(2, <<7, 5, 6>>)}, {Into(2)},
       {Vector("vector_binary", "kWord", 2, 3, "kAdd"), Memory("load_vector", 4, 0, 1, Access8(16)),
        Vector("vector_binary", "kWord", 2, 5, "kSubtract")},
       {Binary("subtract", 4, 6)}, {Helper("kWord", <<10>>), Memory("store_vector", 10, 9, 2, Access8(16))},
       {Block(<<"kI32x4">>)},
       {Branch(10, 2, <<3, 9, 10>>, 3, <<9>>), Branch(10, 2, <<3, 2, 10>>, 3, <<3>>),
        Branch(11, 3, <<2>>, 3, <<9>>)},
       {Into(3)}, {InSlot("load_frame", 1, 0, 0, "kWord")}, {Lane("vector_extract_lane", 12, 0, 2)},
       {Binary("add", 13, 14), Binary("add", 14, 10)}, {Return(15)}>>,
     !.arguments = {<<2>>, <<4>>}, !.answers = {<<1, 5>>}]

\* More values at once than there are registers, across a helper and a guard.
crowded_block ==
  [Graph EXCEPT !.types = <<"kWord", "kWord", "kFloat64">>, !.script =
     <<{Block(<<"kWord", "kFloat64", "kWord">>)}, {Unary("float64_negate", 3)},
       {Binary("add", 1, 2)}, {Binary("float64_add", 3, 7), Binary("float64_subtract", 7, 3)},
       {Binary("multiply", 8, 1)},
       {Exit("guard_float64_nonzero", 9, 7), Exit("guard_word_nonzero", 10, 7), Helper("kFloat64", <<9, 8>>)},
       {Binary("float64_multiply", 9, 7)},
       {Jump(2, <<10, 12, 8>>), Branch(8, 2, <<10, 12, 8>>, 2, <<8, 7, 10>>)},
       {Into(2)}, {Exit("guard_word_nonzero", 6, 8), Exit("safepoint", 0, 8)},
       {Binary("float64_less_than", 5, 9)}, {Binary("subtract", 14, 4)}, {Return(15), Return(5)}>>,
     !.requests = {<<>>, <<Frame(7, <<"kWord", "kFloat64">>, <<8, 7>>), Frame(8, <<"kWord">>, <<10>>)>>,
                   <<Frame(8, <<"kFloat64", "kWord">>, <<9, 2>>)>>},
     !.arguments = {<<2, 3, 1>>, <<0, 0, 128>>}, !.answers = {<<5, -1>>}]

\* Two arms that meet, with uses of what only one of them computes.
crossing_arms ==
  [Graph EXCEPT !.script =
     <<{Block(<<>>)}, {Block(<<>>)}, {Block(<<"kWord">>)}, {Branch(1, 2, <<>>, 3, <<>>)},
       {Into(2)}, {Unary("negate", 1)}, {Jump(4, <<3>>)},
       {Into(3)}, {Helper("kWord", <<1>>), Binary("add", 1, 3)}, {Jump(4, <<v>>) : v \in {1, 3, 4}},
       {Into(4)}, {Binary("add", 2, v) : v \in {1, 3, 4}}, {Return(5)}>>,
     !.arguments = {<<0>>, <<2>>}]

\* Two parameters that change places on every turn, in registers.
swapping_loop ==
  [Graph EXCEPT !.types = <<"kWord", "kWord">>, !.script =
     <<{Block(<<"kWord", "kWord">>)}, {Block(<<"kWord">>)}, {Jump(2, <<1, 2>>), Jump(2, <<2, 1>>)}, {Into(2)},
       {Binary("add", 3, 4), Binary("multiply", 3, 1)},
       {Exit("guard_word_nonzero", 4, 7), Binary("equal", 4, 4), Exit("safepoint", 0, 7)},
       {Branch(3, 2, <<4, 3>>, 3, <<3>>), Branch(4, 2, <<4, 3>>, 3, <<4>>), Branch(7, 2, <<4, 4>>, 3, <<4>>)},
       {Into(3)}, {Binary("subtract", 5, 2), Binary("floor_modulo", 5, 1)}, {Return(8), Return(5)}>>,
     !.requests = {<<>>, <<Frame(7, <<"kWord", "kWord">>, <<4, 6>>)>>, <<Frame(7, <<"kWord">>, <<1>>)>>},
     !.arguments = {<<2, 5>>, <<3, 0>>, <<0, 0>>}, !.answers = {<<1>>, <<4, -1>>}]

\* Frame locals, objects, patch cells, fast calls and atomics of a loop.
looping_effects ==
  [Graph EXCEPT !.types = <<"kWord", "kFloat64">>, !.script =
     <<{Slots("create_frame_slot", "kWord", 3)}, {Slots("create_frame_slot", "kFloat64", 0)},
       {Slots("create_trusted_object", "kWord", 16)}, {NewCell("kCounter", 5), NewCell("kNoSuchKind", 5)},
       {[Slots("create_fast_call", "kWord", 0) EXCEPT !.types = <<"kWord">>]},
       {Block(<<"kWord">>)}, {Block(<<>>)}, {Jump(2, <<1>>)}, {Into(2)},
       {InSlot("load_frame", 1, 0, 0, "kWord"), FastCall(1, <<3>>), Patch(1)},
       {Memory("atomic_fetch_add", 3, 1, 1, Access8(2)), CompareAndSwap(3, 1, 3, 1, Access8(2)),
        Memory("load_float", 3, 0, 1, Access8(4)), Memory("store_word", 3, 4, 1, Access8(8)),
        Memory("atomic_store", 3, 4, 1, Access8(4)), InSlot("load_object", 1, 0, 8, "kWord")},
       {Binary("add", 3, 4)},
       {InSlot("store_frame", 1, 6, 0, "kWord"), InSlot("store_object", 1, 4, 8, "kWord"),
        InSlot("store_frame", 2, 2, 0, "kFloat64"), InSlot("store_frame", 1, 2, 0, "kWord"),
        InSlot("load_object", 1, 0, 12, "kWord"), Fence("kAcquireRelease")},
       {Branch(6, 2, <<6>>, 3, <<>>), Branch(4, 2, <<4>>, 3, <<>>)}, {Into(3)},
       {InSlot("load_frame", 2, 0, 0, "kFloat64"), InSlot("load_frame", 1, 0, 0, "kWord"), Patch(2)},
       {Return(8), Return(6)}>>,
     !.arguments = {<<3, 1>>}, !.answers = {<<1, 7>>, <<9, -1>>}]

\* Objects to rebuild beside a frame: two that name each other, one whose place
\* is taken, one that reads a slot of another type, one that names an object
\* that add refused, and none.
MCRecipes ==
  LET field(from, type, of) == [source |-> from, type |-> type, of |-> of]
      recipe(id, slot, fields) == [id |-> id, destination_slot |-> slot, fields |-> fields]
  IN {<<recipe(6, 20, <<field("kObject", "kWord", 5), field("kRecoveredSlot", "kWord", 1)>>),
        recipe(5, 21, <<field("kObject", "kWord", 6), field("kConstant", "kFloat64", 9)>>)>>,
      <<recipe(6, 1, <<>>)>>,
      <<recipe(6, 20, <<field("kRecoveredSlot", "kFloat64", 1)>>)>>,
      <<recipe(5, 20, <<field("kObject", "kWord", 6)>>), recipe(6, 20, <<>>)>>,
      <<>>}

AllPrograms ==
  [word_constants |-> word_constants, word_folding_graph |-> word_folding_graph,
   float_folding_graph |-> float_folding_graph, word_algebra |-> word_algebra,
   unary_guards |-> unary_guards, float_algebra |-> float_algebra,
   vector_algebra |-> vector_algebra, vector_masks |-> vector_masks, effects |-> effects,
   rotating_loop |-> rotating_loop, meeting_arms |-> meeting_arms, vector_parameters |-> vector_parameters,
   crowded_block |-> crowded_block, crossing_arms |-> crossing_arms, swapping_loop |-> swapping_loop,
   looping_effects |-> looping_effects]

\* TLC works out AllPrograms once.
MCPrograms == LET programs == AllPrograms IN programs

=============================================================================
