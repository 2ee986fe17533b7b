---------------------------- MODULE X86Assembler ----------------------------
(***************************************************************************)
(* The x86-64 Assembler of src/jit/backend/x86_64/lower.cpp: the           *)
(* instructions that each of its methods appends, without their encoding.  *)
(* Two-operand arithmetic first copies the left operand, and shifts and    *)
(* divisions need fixed registers, which the methods save in r11.          *)
(* A branch method takes the label that the code patches in later.         *)
(***************************************************************************)
EXTENDS Integers, Sequences

CONSTANT WordBits

kRsp == "sp"
kRcx == "rcx"
kRdx == "rdx"
kR11 == "r11"
kReturnRegister == "rax"
kScratch0 == "rax"
kScratch1 == "r10"
kArgumentBaseRegister == "r11"
kArgumentRegister == "rdi"
kContextArgumentRegister == "rsi"
kRuntimeArgument0 == "rdi"
kRuntimeArgument1 == "rsi"
kFloatScratch0 == "xmm0"
kFloatScratch1 == "xmm5"
kCallStackAdjustment == 8

Label(l) == << <<"label", l>> >>

move_register(d, s) == << <<"mov", d, s>> >>
move_immediate(d, v) == << <<"imm", d, v>> >>
load(d, base, off) == << <<"load", d, base, off, 8>> >>
store(s, base, off) == << <<"store", s, base, off, 8>> >>
\* load and store of a named field of a record
load_field(d, base, field) == << <<"loadf", d, base, field>> >>
store_field(s, base, field) == << <<"storef", s, base, field>> >>
load_unsigned(d, base, off, width) == << <<"load", d, base, off, width>> >>
store_width(s, base, off, width) == << <<"store", s, base, off, width>> >>

\* Two bytes are swapped by a rotation that leaves the upper bytes alone.
reverse_bytes(d, width) == IF width = 2 THEN << <<"rol16", d, d>> >> ELSE << <<"bswap", d, d, width>> >>
sign_extend(d, width) == << <<"sext", d, d, width>> >>
zero_extend(d, width) == IF width = 8 THEN <<>> ELSE << <<"zext", d, d, width>> >>

atomic_exchange(s, base, width) == << <<"rmwp", s, "xchg", s, base, width>> >>
atomic_fetch_add(s, base, width) == << <<"rmwp", s, "add", s, base, width>> >>
atomic_compare_exchange(desired, base, width) == << <<"rmwp", "rax", "cas", desired, base, width>> >>
sequentially_consistent_fence == << <<"fence">> >>

move_word_to_float(d, s) == << <<"mov", d, s>> >>
move_float_to_word(d, s) == << <<"mov", d, s>> >>
move_word_to_float32(d, s) == << <<"zext", d, s, 4>> >>
move_float32_to_word(d, s) == << <<"zext", d, s, 4>> >>
move_float_register(d, s) == << <<"mov", d, s>> >>
load_float(d, base, off) == << <<"load", d, base, off, 8>> >>
store_float(s, base, off) == << <<"store", s, base, off, 8>> >>
load_float_width(d, base, off, width) == << <<"load", d, base, off, width>> >>
store_float_width(s, base, off, width) == << <<"store", s, base, off, width>> >>
convert_float32_to_float64(d, s) == << <<"widen", d, s>> >>
convert_float64_to_float32(d, s) == << <<"narrow", d, s>> >>

-----------------------------------------------------------------------------
prepare_binary(d, lhs) == IF d # lhs THEN move_register(d, lhs) ELSE <<>>

add(d, lhs, rhs) == prepare_binary(d, lhs) \o << <<"alu", d, "add", d, rhs>> >>
increment(d) == << <<"alui", d, "add", d, 1>> >>
subtract(d, lhs, rhs) == prepare_binary(d, lhs) \o << <<"alu", d, "sub", d, rhs>> >>
multiply(d, lhs, rhs) == prepare_binary(d, lhs) \o << <<"alu", d, "mul", d, rhs>> >>
bitwise_binary(d, lhs, rhs, op) == prepare_binary(d, lhs) \o << <<"alu", d, op, d, rhs>> >>
bitwise_and(d, lhs, rhs) == bitwise_binary(d, lhs, rhs, "and")
bitwise_or(d, lhs, rhs) == bitwise_binary(d, lhs, rhs, "or")
bitwise_xor(d, lhs, rhs) == bitwise_binary(d, lhs, rhs, "xor")
subtract_immediate(d, v) == << <<"alui", d, "sub", d, v>> >>
bitwise_and_immediate(d, v) == << <<"alui", d, "and", d, v>> >>
shift_variable(d, right) == << <<"alu", d, IF right THEN "shr" ELSE "shl", d, kRcx>> >>

unary_word(d, s, op) == prepare_binary(d, s) \o
  (IF op = "neg" THEN << <<"alui", d, "mul", d, -1>> >> ELSE << <<"alui", d, "xor", d, 2^WordBits - 1>> >>)
negate(d, s) == unary_word(d, s, "neg")
bitwise_not(d, s) == unary_word(d, s, "not")

prepare_float_binary(d, lhs) == IF d # lhs THEN move_float_register(d, lhs) ELSE <<>>
emit_float_binary(op, d, rhs) == << <<"fop", d, op, d, rhs>> >>
float_binary(op, d, lhs, rhs) == prepare_float_binary(d, lhs) \o emit_float_binary(op, d, rhs)

negate_float(d, s) ==
  move_float_to_word(kScratch0, s) \o move_immediate(kScratch1, 2^(WordBits-1))
  \o << <<"alu", kScratch0, "xor", kScratch0, kScratch1>> >> \o move_word_to_float(d, kScratch0)

-----------------------------------------------------------------------------
branch(l) == << <<"jmp", l>> >>
branch_nonzero(s, l) == << <<"cmpi", s, 0>>, <<"j", "ne", l>> >>
branch_not_equal_flags(l) == << <<"j", "ne", l>> >>
branch_zero(s, l) == << <<"cmpi", s, 0>>, <<"j", "eq", l>> >>
branch_negative(s, l) == << <<"cmpi", s, 0>>, <<"j", "lt", l>> >>
branch_nonnegative(s, l) == << <<"cmpi", s, 0>>, <<"j", "ge", l>> >>
branch_equal_immediate(s, v, l) == << <<"cmpi", s, v % 2^WordBits>>, <<"j", "eq", l>> >>
branch_unsigned_greater_equal(s, v, l) == << <<"cmpi", s, v>>, <<"j", "ae", l>> >>
branch_unsigned_less(s, v, l) == << <<"cmpi", s, v>>, <<"j", "b", l>> >>
branch_unsigned_greater(lhs, rhs, l) == << <<"cmp", lhs, rhs>>, <<"j", "a", l>> >>

\* A variable shift takes its amount from cl, so rcx is set aside.
shift_left(d, word, amount) ==
  move_register(kScratch0, word) \o move_register(kScratch1, amount) \o move_register(kR11, kRcx)
  \o branch_negative(kScratch1, "negative_path")
  \o branch_unsigned_greater_equal(kScratch1, WordBits, "zero")
  \o move_register(kRcx, kScratch1) \o shift_variable(kScratch0, FALSE) \o branch("done")
  \o Label("negative_path")
  \o negate(kScratch1, kScratch1)
  \o branch_unsigned_greater_equal(kScratch1, WordBits, "zero")
  \o move_register(kRcx, kScratch1) \o shift_variable(kScratch0, TRUE) \o branch("done")
  \o Label("zero") \o move_immediate(kScratch0, 0)
  \o Label("done") \o move_register(kRcx, kR11)
  \o (IF d # kScratch0 THEN move_register(d, kScratch0) ELSE <<>>)

\* Division rounds toward zero and traps on a zero divisor and on overflow:
\* both are branched around, and a remainder of the wrong sign is corrected.
floor_arithmetic(d, lhs, rhs, modulo) ==
  move_register(kScratch1, rhs) \o move_register(kScratch0, lhs)
  \o branch_zero(kScratch1, "zero") \o branch_equal_immediate(kScratch1, -1, "special")
  \o (IF d # kRdx THEN move_register(kR11, kRdx) ELSE <<>>)
  \o << <<"idiv", kScratch1>> >>
  \o branch_zero(kRdx, "result") \o branch_negative(kRdx, "negative_path")
  \o branch_nonnegative(kScratch1, "result") \o branch("adjust")
  \o Label("negative_path") \o branch_negative(kScratch1, "result")
  \o Label("adjust")
  \o (IF modulo THEN add(kRdx, kRdx, kScratch1) ELSE subtract_immediate(kScratch0, 1))
  \o Label("result") \o move_register(d, IF modulo THEN kRdx ELSE kScratch0)
  \o (IF d # kRdx THEN move_register(kRdx, kR11) ELSE <<>>) \o branch("end")
  \o Label("special") \o (IF modulo THEN move_immediate(d, 0) ELSE negate(d, kScratch0)) \o branch("end")
  \o Label("zero") \o move_immediate(d, 0)
  \o Label("end")

compare(d, lhs, rhs, condition) == << <<"cmp", lhs, rhs>>, <<"set", d, condition>> >>

\* The operands are compared in reverse: above and not-below are false for a NaN.
\* Equality also looks at the parity flag, which a NaN sets.
compare_float(d, lhs, rhs, condition) ==
  << <<"cmp", rhs, lhs>> >> \o
  (CASE condition = "kFloatEqual" ->
          << <<"set", d, "f_e">>, <<"set", kScratch1, "f_np">>, <<"alu", d, "and", d, kScratch1>> >>
     [] condition = "kFloatNotEqual" ->
          << <<"set", d, "f_ne">>, <<"set", kScratch1, "f_p">>, <<"alu", d, "or", d, kScratch1>> >>
     [] condition = "kFloatLessEqual" -> << <<"set", d, "f_ae">> >>
     [] OTHER -> << <<"set", d, "f_a">> >>)

address(d, base, slot) == << <<"lea", d, slot>> >>
call_register(target) == << <<"call", target>> >>
reserve_stack(n) == << <<"sp", n>> >>
release_stack(n) == << <<"sp", -n>> >>
return_to_caller == << <<"ret">> >>

=============================================================================
