--------------------------- MODULE RiscvAssembler ---------------------------
(***************************************************************************)
(* The Assembler of src/jit/backend/riscv64/lower.cpp: the instructions    *)
(* that its methods append.  There are no flags: a branch compares         *)
(* registers.  An access that is not naturally aligned, or big-endian, is  *)
(* made byte by byte.  A byte of the model has one bit.                    *)
(***************************************************************************)
EXTENDS Integers, Sequences, SequencesExt

CONSTANT WordBits

kReturnAddress == "x1"
kStackPointer == "sp"
kArgumentBase == "x5"
kScratch0 == "x6"
kScratch1 == "x7"
kArgumentAndReturn == "x10"
kContextArgument == "x11"
kScratch2 == "x29"
kAtomicAddress == "x30"
kAtomicOperand == "x31"
kAtomicDesired == "x29"
kAtomicStatus == "x6"
kAtomicRetry == "x7"
kFloatScratch0 == "f0"
kFloatScratch1 == "f1"
kAtomicFallbackArgumentCount == 5
\* 16 in the code; two attempts have all the outcomes of sixteen.
kAtomicExclusiveAttempts == 2

Label(l) == << <<"label", l>> >>

move_register(d, s) == << <<"mov", d, s>> >>
\* AUIPC and LD from the literal pool that finalize_literals appends.
move_immediate(d, v) == << <<"imm", d, v>> >>
clear(d) == << <<"imm", d, 0>> >>
load(d, base, off) == << <<"load", d, base, off, 8>> >>
store(s, base, off) == << <<"store", s, base, off, 8>> >>
load_field(d, base, field) == << <<"loadf", d, base, field>> >>
store_field(s, base, field) == << <<"storef", s, base, field>> >>
load_unsigned(d, base, off, width) == << <<"load", d, base, off, width>> >>
store_width(s, base, off, width) == << <<"store", s, base, off, width>> >>

shift_left_immediate(d, s, amount) == << <<"alui", d, "shl", s, amount>> >>
shift_right_logical_immediate(d, s, amount) == << <<"alui", d, "shr", s, amount>> >>
zero_extend(d, s, width) ==
  IF width = 8 THEN (IF d # s THEN move_register(d, s) ELSE <<>>)
  ELSE shift_left_immediate(d, s, WordBits - width) \o shift_right_logical_immediate(d, d, WordBits - width)
sign_extend(d, s, width) ==
  shift_left_immediate(d, s, WordBits - width) \o << <<"alui", d, "sar", d, WordBits - width>> >>

\* 32-bit atomic instructions sign-extend what they read.
Extended(d, width) == IF width = 4 THEN << <<"sext", d, d, 4>> >> ELSE <<>>
atomic_read_modify_write(d, operand, address_register, width, op) ==
  << <<"rmw", d, CASE op = "kAtomicExchange" -> "xchg" [] op = "kAtomicFetchXor" -> "xor"
                   [] op = "kAtomicFetchOr" -> "or" [] op = "kAtomicFetchAnd" -> "and" [] OTHER -> "add",
       operand, address_register, width>> >>
  \o Extended(d, width)
load_reserved(d, address_register, width) == << <<"ll", d, address_register, width>> >> \o Extended(d, width)
store_conditional(status, s, address_register, width) == << <<"sc", status, s, address_register, width>> >>
atomic_fence == << <<"fence">> >>

-----------------------------------------------------------------------------
add(d, lhs, rhs) == << <<"alu", d, "add", lhs, rhs>> >>
increment(d) == << <<"alui", d, "add", d, 1>> >>
decrement(d) == << <<"alui", d, "sub", d, 1>> >>
subtract(d, lhs, rhs) == << <<"alu", d, "sub", lhs, rhs>> >>
negate(d, s) == << <<"alui", d, "mul", s, -1>> >>
bitwise_not(d, s) == << <<"alui", d, "xor", s, 2^WordBits - 1>> >>
multiply(d, lhs, rhs) == << <<"alu", d, "mul", lhs, rhs>> >>
bitwise_and(d, lhs, rhs) == << <<"alu", d, "and", lhs, rhs>> >>
bitwise_or(d, lhs, rhs) == << <<"alu", d, "or", lhs, rhs>> >>
bitwise_xor(d, lhs, rhs) == << <<"alu", d, "xor", lhs, rhs>> >>

\* Byte `index` of an access stands at this bit.
ByteShift(index, width, big_endian) == IF big_endian THEN width - index - 1 ELSE index
Shifted(d, s, amount) == IF amount = 0 THEN <<>> ELSE shift_left_immediate(d, s, amount)
Isolated(d, s, amount) ==
  IF amount = 0 THEN move_register(d, s) ELSE shift_right_logical_immediate(d, s, amount)

load_memory_word(d, base, width, big_endian, naturally_aligned) ==
  IF width = 1 \/ (~big_endian /\ naturally_aligned) THEN load_unsigned(d, base, 0, width)
  ELSE clear(d)
       \o FlattenSeq([k \in 1..width |->
            load_unsigned(kScratch1, base, k - 1, 1)
            \o Shifted(kScratch1, kScratch1, ByteShift(k - 1, width, big_endian))
            \o bitwise_or(d, d, kScratch1)])

store_memory_word(s, base, width, big_endian, naturally_aligned) ==
  IF width = 1 \/ (~big_endian /\ naturally_aligned) THEN store_width(s, base, 0, width)
  ELSE FlattenSeq([k \in 1..width |->
         Isolated(kScratch1, s, ByteShift(k - 1, width, big_endian)) \o store_width(kScratch1, base, k - 1, 1)])

reverse_bytes(d, s, width) ==
  move_register(kScratch2, s) \o clear(d)
  \o FlattenSeq([k \in 1..width |->
       Isolated(kScratch1, kScratch2, k - 1) \o << <<"alui", kScratch1, "and", kScratch1, 1>> >>
       \o Shifted(kScratch1, kScratch1, width - k) \o bitwise_or(d, d, kScratch1)])

move_word_to_float(d, s) == << <<"mov", d, s>> >>
move_float_to_word(d, s) == << <<"mov", d, s>> >>
move_word_to_float32(d, s) == << <<"zext", d, s, 4>> >>
move_float32_to_word(d, s) == << <<"sext", d, s, 4>> >>
move_float_register(d, s) == << <<"mov", d, s>> >>
load_float_width(d, base, off, width) == << <<"load", d, base, off, width>> >>
store_float_width(s, base, off, width) == << <<"store", s, base, off, width>> >>
convert_float32_to_float64(d, s) == << <<"widen", d, s>> >>
convert_float64_to_float32(d, s) == << <<"narrow", d, s>> >>
float_binary(op, d, lhs, rhs) == << <<"fop", d, op, lhs, rhs>> >>
negate_float(d, s) == << <<"fneg", d, s>> >>

-----------------------------------------------------------------------------
branch(l) == << <<"jmp", l>> >>
branch_nonzero(s, l) == << <<"cbnz", s, l>> >>
branch_zero(s, l) == << <<"cbz", s, l>> >>
branch_negative(s, l) == << <<"bltz", s, l>> >>
branch_nonnegative(s, l) == << <<"bgez", s, l>> >>
\* Mutant: the offset is compared as a signed word.
branch_signed_less(lhs, rhs, l) == << <<"br", "lt", lhs, rhs, l>> >>
branch_unsigned_less(lhs, rhs, l) == << <<"br", "b", lhs, rhs, l>> >>
branch_not_equal(lhs, rhs, l) == << <<"br", "ne", lhs, rhs, l>> >>

set_unsigned_less_than_immediate(d, s, v) == << <<"alui", d, "sltu", s, v>> >>

\* Less-or-equal is the negation of the swapped less; equality is an exclusive-or of zero.
compare(d, lhs, rhs, condition) ==
  CASE condition = "kLessEqual" -> << <<"alu", d, "slt", rhs, lhs>>, <<"alui", d, "xor", d, 1>> >>
    [] condition = "kEqual" -> bitwise_xor(d, lhs, rhs) \o set_unsigned_less_than_immediate(d, d, 1)
    \* SLTU of the zero register and d: one unless d is zero
    [] condition = "kNotEqual" -> bitwise_xor(d, lhs, rhs) \o << <<"alui", d, "snez", d, 0>> >>
    [] OTHER -> << <<"alu", d, "slt", lhs, rhs>> >>

compare_float(d, lhs, rhs, condition) ==
  CASE condition = "kFloatEqual" -> << <<"fset", d, "f_eq", lhs, rhs>> >>
    [] condition = "kFloatNotEqual" -> << <<"fset", d, "f_eq", lhs, rhs>>, <<"alui", d, "xor", d, 1>> >>
    [] condition = "kFloatLessEqual" -> << <<"fset", d, "f_le", lhs, rhs>> >>
    [] OTHER -> << <<"fset", d, "f_lt", lhs, rhs>> >>

shift_left(d, word, amount) ==
  move_register(kScratch0, word) \o move_register(kScratch1, amount)
  \o branch_negative(kScratch1, "negative_path")
  \o set_unsigned_less_than_immediate(kScratch2, kScratch1, WordBits) \o branch_zero(kScratch2, "zero")
  \o << <<"alu", kScratch0, "shl", kScratch0, kScratch1>> >> \o branch("done")
  \o Label("negative_path") \o negate(kScratch1, kScratch1)
  \o set_unsigned_less_than_immediate(kScratch2, kScratch1, WordBits) \o branch_zero(kScratch2, "zero")
  \o << <<"alu", kScratch0, "shr", kScratch0, kScratch1>> >> \o branch("done")
  \o Label("zero") \o clear(kScratch0)
  \o Label("done") \o (IF d # kScratch0 THEN move_register(d, kScratch0) ELSE <<>>)

\* DIV and REM truncate; neither traps.
floor_arithmetic(d, lhs, rhs, modulo) ==
  move_register(kScratch0, lhs) \o move_register(kScratch1, rhs) \o move_register(d, kScratch0)
  \o branch_zero(kScratch1, "zero")
  \o << <<"alu", kScratch0, "div", kScratch0, kScratch1>>, <<"alu", d, "rem", d, kScratch1>> >>
  \o branch_zero(d, "result")
  \o bitwise_xor(kScratch2, d, kScratch1) \o branch_nonnegative(kScratch2, "result")
  \o (IF modulo THEN add(d, d, kScratch1) ELSE decrement(kScratch0))
  \o Label("result") \o (IF modulo THEN <<>> ELSE move_register(d, kScratch0)) \o branch("end")
  \o Label("zero") \o clear(d)
  \o Label("end")

address(d, slot) == << <<"lea", d, slot>> >>
call_register(target) == << <<"call", target>> >>
reserve_stack(n) == << <<"sp", n>> >>
release_stack(n) == << <<"sp", -n>> >>
return_to_caller == << <<"ret">> >>

=============================================================================
