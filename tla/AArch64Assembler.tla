-------------------------- MODULE AArch64Assembler --------------------------
(***************************************************************************)
(* The Assembler of src/jit/backend/aarch64/lower.cpp: the instructions    *)
(* that its methods append.  Arithmetic has three operands, division does  *)
(* not trap, and an atomic access is one LSE instruction or a pair of      *)
(* exclusive ones.                                                         *)
(***************************************************************************)
EXTENDS Integers, Sequences

CONSTANT WordBits

kStackPointer == "sp"
kReturnRegister == "x0"
kContextArgumentRegister == "x1"
kArgumentBaseRegister == "x9"
kScratch0 == "x16"
kScratch1 == "x17"
kScratch2 == "x8"
kReturnAddressRegister == "x30"
kFloatScratch0 == "v30"
kFloatScratch1 == "v31"
kAtomicAddressRegister == "x2"
kAtomicOperandRegister == "x3"
kAtomicDesiredRegister == "x4"
kAtomicStatusRegister == "x5"
kAtomicRetryRegister == "x6"
kAtomicOffsetRegister == "x7"
kAtomicFallbackArgumentCount == 5
\* 16 in the code; two attempts have all the outcomes of sixteen.
kAtomicExclusiveAttempts == 2

Label(l) == << <<"label", l>> >>

move_register(d, s) == << <<"mov", d, s>> >>
move_immediate(d, v) == << <<"imm", d, v>> >>
load(d, base, off) == << <<"load", d, base, off, 8>> >>
store(s, base, off) == << <<"store", s, base, off, 8>> >>
load_field(d, base, field) == << <<"loadf", d, base, field>> >>
store_field(s, base, field) == << <<"storef", s, base, field>> >>
load_unsigned(d, base, off, width) == << <<"load", d, base, off, width>> >>
store_width(s, base, off, width) == << <<"store", s, base, off, width>> >>
zero_extend(d, s, width) ==
  IF width # 8 THEN << <<"zext", d, s, width>> >> ELSE IF d # s THEN move_register(d, s) ELSE <<>>
sign_extend(d, s, width) == << <<"sext", d, s, width>> >>
\* REV16, REV32 and REV reverse the bytes of every group of the word.
reverse_bytes(d, s, width) == << <<"rev", d, s, width>> >>

load_atomic(d, base, width) == load_unsigned(d, base, 0, width)
store_atomic(s, base, width) == store_width(s, base, 0, width)
load_exclusive(d, base, width) == << <<"ll", d, base, width>> >>
\* Mutant: the store does not depend on the monitor.
store_regardless(status, s, base, width) == store_width(s, base, 0, width) \o move_immediate(status, 0)
store_exclusive(status, s, base, width) == << <<"sc", status, s, base, width>> >>
lse_compare_exchange(expected, desired, base, width) == << <<"rmw", expected, "cas", desired, base, width>> >>
\* LDCLR clears the bits of its operand.
lse_read_modify_write(d, operand, base, width, op) ==
  << <<"rmw", d, CASE op = "kAtomicExchange" -> "xchg" [] op = "kAtomicFetchAnd" -> "andnot"
                   [] op = "kAtomicFetchXor" -> "xor" [] op = "kAtomicFetchOr" -> "or" [] OTHER -> "add",
       operand, base, width>> >>
clear_exclusive == << <<"clrex">> >>
atomic_fence == << <<"fence">> >>

move_word_to_float(d, s) == << <<"mov", d, s>> >>
move_float_to_word(d, s) == << <<"mov", d, s>> >>
move_word_to_float32(d, s) == << <<"zext", d, s, 4>> >>
move_float32_to_word(d, s) == << <<"zext", d, s, 4>> >>
move_float_register(d, s) == << <<"mov", d, s>> >>
load_float_width(d, base, off, width) == << <<"load", d, base, off, width>> >>
store_float_width(s, base, off, width) == << <<"store", s, base, off, width>> >>
convert_float32_to_float64(d, s) == << <<"widen", d, s>> >>
convert_float64_to_float32(d, s) == << <<"narrow", d, s>> >>

-----------------------------------------------------------------------------
add(d, lhs, rhs) == << <<"alu", d, "add", lhs, rhs>> >>
increment(d) == << <<"alui", d, "add", d, 1>> >>
\* Mutant: the attempts are not counted.
decrement_nothing(d) == <<>>
decrement(d) == << <<"alui", d, "sub", d, 1>> >>
subtract(d, lhs, rhs) == << <<"alu", d, "sub", lhs, rhs>> >>
negate(d, s) == << <<"alui", d, "mul", s, -1>> >>
bitwise_not(d, s) == << <<"alui", d, "xor", s, 2^WordBits - 1>> >>
multiply(d, lhs, rhs) == << <<"alu", d, "mul", lhs, rhs>> >>
bitwise_and(d, lhs, rhs) == << <<"alu", d, "and", lhs, rhs>> >>
bitwise_or(d, lhs, rhs) == << <<"alu", d, "or", lhs, rhs>> >>
bitwise_xor(d, lhs, rhs) == << <<"alu", d, "xor", lhs, rhs>> >>
float_binary(op, d, lhs, rhs) == << <<"fop", d, op, lhs, rhs>> >>
negate_float(d, s) == << <<"fneg", d, s>> >>

branch(l) == << <<"jmp", l>> >>
compare_immediate(s, v) == << <<"cmpi", s, v>> >>
compare_registers(lhs, rhs) == << <<"cmp", lhs, rhs>> >>
branch_condition(condition, l) == << <<"j", condition, l>> >>
branch_nonzero(s, l) == << <<"cbnz", s, l>> >>
branch_zero(s, l) == << <<"cbz", s, l>> >>

\* CSINC on the inverse condition writes the truth of the condition.
compare(d, lhs, rhs, condition) == compare_registers(lhs, rhs) \o << <<"set", d, condition>> >>
compare_float(d, lhs, rhs, condition) ==
  compare_registers(lhs, rhs)
  \o << <<"set", d, CASE condition = "kFloatLessEqual" -> "f_le" [] condition = "kFloatEqual" -> "f_eq"
                      [] condition = "kFloatNotEqual" -> "f_neq" [] OTHER -> "f_lt">> >>

shift_left(d, word, amount) ==
  move_register(kScratch0, word) \o move_register(kScratch1, amount)
  \o compare_immediate(kScratch1, 0) \o branch_condition("lt", "negative_path")
  \o compare_immediate(kScratch1, WordBits) \o branch_condition("ae", "zero")
  \o << <<"alu", kScratch0, "shl", kScratch0, kScratch1>> >> \o branch("done")
  \o Label("negative_path") \o negate(kScratch1, kScratch1)
  \o compare_immediate(kScratch1, WordBits) \o branch_condition("ae", "zero")
  \o << <<"alu", kScratch0, "shr", kScratch0, kScratch1>> >> \o branch("done")
  \o Label("zero") \o move_immediate(kScratch0, 0)
  \o Label("done") \o (IF d # kScratch0 THEN move_register(d, kScratch0) ELSE <<>>)

\* SDIV is defined for the overflow; MSUB gives the truncating remainder.
floor_arithmetic(d, lhs, rhs, modulo) ==
  move_register(kScratch0, lhs) \o move_register(kScratch1, rhs) \o move_register(d, kScratch0)
  \o branch_zero(kScratch1, "zero")
  \o << <<"alu", kScratch0, "sdiv", kScratch0, kScratch1>>,
        <<"msub", kReturnRegister, kScratch0, kScratch1, d>> >>
  \o branch_zero(kReturnRegister, "result")
  \o bitwise_xor(kScratch2, kReturnRegister, kScratch1)
  \o compare_immediate(kScratch2, 0) \o branch_condition("ge", "result")
  \o (IF modulo THEN add(kReturnRegister, kReturnRegister, kScratch1)
      ELSE move_immediate(d, 1) \o subtract(kScratch0, kScratch0, d))
  \o Label("result") \o move_register(d, IF modulo THEN kReturnRegister ELSE kScratch0) \o branch("end")
  \o Label("zero") \o move_immediate(d, 0)
  \o Label("end")

address(d, slot) == << <<"lea", d, slot>> >>
call_register(target) == << <<"call", target>> >>
reserve_stack(n) == << <<"sp", n>> >>
release_stack(n) == << <<"sp", -n>> >>
return_to_caller == << <<"ret">> >>

=============================================================================
