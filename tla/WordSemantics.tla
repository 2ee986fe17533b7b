---------------------------- MODULE WordSemantics ----------------------------
(***************************************************************************)
(* The words that IR values and machine registers hold, and the meaning of *)
(* an IR node as the reference interpreter gives it: what                  *)
(* src/ir/interpreter.cpp computes, src/ir/memory_access.cpp and           *)
(* src/ir/atomic_access.cpp do to bound memory, and when they leave the    *)
(* function instead.                                                       *)
(*                                                                         *)
(* A word has WordBits bits in place of 64, and a byte has one bit, so     *)
(* that a word still has eight bytes when WordBits is 8 and every access   *)
(* width of the code (1, 2, 4 and 8 bytes) keeps its meaning.              *)
(***************************************************************************)
EXTENDS Integers, Sequences, FiniteSetsExt

CONSTANT WordBits

Word == 0..2^WordBits-1
Wrap(i) == i % 2^WordBits
Minimum == 2^(WordBits-1)
Signed(x) == IF x >= Minimum THEN x - 2^WordBits ELSE x

Bit(x, i) == (x \div 2^i) % 2
BitAnd(x, y) == MapThenSumSet(LAMBDA i : 2^i * Bit(x, i) * Bit(y, i), 0..WordBits-1)
BitOr(x, y) == x + y - BitAnd(x, y)
BitXor(x, y) == x + y - 2 * BitAnd(x, y)
BitNot(x) == 2^WordBits - 1 - x

\* The low w bytes of a word: alone, with the sign copied up, and in reverse order.
Low(x, w) == x % 2^w
SignExtend(x, w) == IF Bit(x, w - 1) = 1 THEN Wrap(Low(x, w) - 2^w) ELSE Low(x, w)
Reversed(x, w) == MapThenSumSet(LAMBDA i : 2^i * Bit(x, w - 1 - i), 0..w-1)

\* The quotient that division instructions give: rounded toward zero.
Truncated(a, b) == LET q == (IF a < 0 THEN -a ELSE a) \div (IF b < 0 THEN -b ELSE b)
                   IN IF (a < 0) # (b < 0) THEN -q ELSE q

-----------------------------------------------------------------------------
(***************************************************************************)
(* Float64 bit patterns: a sign bit, an exponent and a fraction.  An       *)
(* exponent of all ones is a NaN; the others are ordered by sign and       *)
(* magnitude, and the two zeros are equal.  A float32 keeps the upper half *)
(* of the bits.                                                            *)
(***************************************************************************)

SignBit == Minimum
Magnitude(x) == x % Minimum
IsNaN(x) == Magnitude(x) >= Minimum - 2^(WordBits \div 2)
IsZero(x) == Magnitude(x) = 0
Rank(x) == IF x >= SignBit THEN -Magnitude(x) ELSE Magnitude(x)

FloatLess(x, y) == ~IsNaN(x) /\ ~IsNaN(y) /\ Rank(x) < Rank(y)
FloatEqual(x, y) == ~IsNaN(x) /\ ~IsNaN(y) /\ Rank(x) = Rank(y)

Narrow(x) == x \div 2^(WordBits \div 2)
Widen(x) == (x % 2^(WordBits \div 2)) * 2^(WordBits \div 2)

\* What the float unit computes is left uninterpreted: a number outside Word
\* that tells apart the operation and its operands in their order.
FloatOperation == <<"kFloatAdd", "kFloatSubtract", "kFloatMultiply", "kFloatDivide">>
FloatResult(op, x, y) ==
  LET n == CHOOSE k \in DOMAIN FloatOperation : FloatOperation[k] = op
  IN 10000 + (n * 2^WordBits + x) * 2^WordBits + y

-----------------------------------------------------------------------------
(* Nodes.                                                                   *)

shift_left(value, amount) ==
  IF Signed(amount) < 0
  THEN IF -Signed(amount) >= WordBits THEN 0 ELSE value \div 2^(-Signed(amount))
  ELSE IF amount >= WordBits THEN 0 ELSE Wrap(value * 2^amount)

\* Division rounds down; dividing by zero gives zero, and by -1 the negation
\* without overflow.
floor_divide_word(lhs, rhs) ==
  LET a == Signed(lhs)
      b == Signed(rhs)
  IN IF b = 0 THEN 0
     ELSE IF b = -1 THEN Wrap(-a)
     ELSE IF (a < 0) # (b < 0) /\ a # b * Truncated(a, b) THEN Wrap(Truncated(a, b) - 1)
     ELSE Wrap(Truncated(a, b))

floor_modulo_word(lhs, rhs) ==
  LET a == Signed(lhs)
      b == Signed(rhs)
      remainder == a - b * Truncated(a, b)
  IN IF b \in {0, -1} THEN 0
     ELSE IF remainder # 0 /\ (remainder < 0) # (b < 0) THEN Wrap(remainder + b)
     ELSE Wrap(remainder)

byte_swap_word(value, width) == IF width \in {2, 4, 8} THEN Reversed(value, width) ELSE 0

Truth(b) == IF b THEN 1 ELSE 0

evaluate_binary(op, lhs, rhs) ==
  CASE op = "kAdd" -> Wrap(lhs + rhs)
    [] op = "kSubtract" -> Wrap(lhs - rhs)
    [] op = "kMultiply" -> Wrap(lhs * rhs)
    [] op = "kBitwiseAnd" -> BitAnd(lhs, rhs)
    [] op = "kBitwiseOr" -> BitOr(lhs, rhs)
    [] op = "kBitwiseXor" -> BitXor(lhs, rhs)
    [] op = "kShiftLeft" -> shift_left(lhs, rhs)
    [] op = "kFloorDivide" -> floor_divide_word(lhs, rhs)
    [] op = "kFloorModulo" -> floor_modulo_word(lhs, rhs)
    [] op = "kLessThan" -> Truth(Signed(lhs) < Signed(rhs))
    [] op = "kLessEqual" -> Truth(Signed(lhs) <= Signed(rhs))
    [] op = "kEqual" -> Truth(lhs = rhs)
    [] op = "kNotEqual" -> Truth(lhs # rhs)
    [] op = "kNegate" -> Wrap(-lhs)
    [] op = "kBitwiseNot" -> BitNot(lhs)
    [] op = "kFloatNegate" -> BitXor(lhs, SignBit)
    [] op = "kFloatLessThan" -> Truth(FloatLess(lhs, rhs))
    [] op = "kFloatLessEqual" -> Truth(FloatLess(lhs, rhs) \/ FloatEqual(lhs, rhs))
    [] op = "kFloatEqual" -> Truth(FloatEqual(lhs, rhs))
    [] op = "kFloatNotEqual" -> Truth(~FloatEqual(lhs, rhs))
    [] OTHER -> FloatResult(op, lhs, rhs)

-----------------------------------------------------------------------------
(***************************************************************************)
(* Bounded memory.  A context binds regions; an access names a region by   *)
(* number, a width, an alignment and a byte order.  The context is `bound` *)
(* as a record [present, count, data, size, writable]: whether the         *)
(* invocation has a context, how many regions it binds, and the region     *)
(* accessed.                                                               *)
(***************************************************************************)

\* Whether an access leaves the function: the conditions of resolve, in its order.
Unresolved(access, offset, bound, store) ==
  \/ ~bound.present
  \/ access.region >= bound.count
  \/ store /\ ~bound.writable
  \/ access.width > bound.size
  \/ offset > bound.size - access.width
  \/ (bound.data + offset) % access.alignment # 0

\* The bytes at an address, least significant first.
Bytes(memory, address, w) == MapThenSumSet(LAMBDA i : 2^i * memory[address + i], 0..w-1)
WithBytes(memory, address, w, bits) ==
  [a \in DOMAIN memory |->
     IF a \in address..(address + w - 1) THEN Bit(bits, a - address) ELSE memory[a]]

load_bounded_word(access, address, memory) ==
  LET raw == Bytes(memory, address, access.width)
      bits == IF access.big_endian THEN Reversed(raw, access.width) ELSE raw
  IN IF access.sign_extend THEN SignExtend(bits, access.width) ELSE bits

store_bounded_word(access, address, memory, value) ==
  WithBytes(memory, address, access.width,
            IF access.big_endian THEN Reversed(value, access.width) ELSE Low(value, access.width))

load_bounded_float(access, address, memory) ==
  IF access.width = 8 THEN load_bounded_word(access, address, memory)
  ELSE Widen(load_bounded_word(access, address, memory))

store_bounded_float(access, address, memory, value) ==
  store_bounded_word(access, address, memory, IF access.width = 4 THEN Narrow(value) ELSE value)

\* What an atomic access leaves in memory for what it observed there.
Replacement(op, width, observed, value, desired) ==
  CASE op \in {"kAtomicStore", "kAtomicExchange"} -> Low(value, width)
    [] op = "kAtomicCompareExchange" ->
         IF observed = Low(value, width) THEN Low(desired, width) ELSE observed
    [] op = "kAtomicFetchAdd" -> Low(observed + Low(value, width), width)
    [] op = "kAtomicFetchAnd" -> BitAnd(observed, Low(value, width))
    [] op = "kAtomicFetchOr" -> BitOr(observed, Low(value, width))
    [] op = "kAtomicFetchXor" -> BitXor(observed, Low(value, width))
    [] OTHER -> observed

=============================================================================
