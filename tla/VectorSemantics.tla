--------------------------- MODULE VectorSemantics ---------------------------
(***************************************************************************)
(* The value types of the IR and what src/ir/vector.cpp computes on the    *)
(* 128-bit ones.  A vector is the sequence of its lanes, each lane the     *)
(* number its bits spell.  With a byte of one bit a vector has 16 bits, so *)
(* every shape keeps its lane count: 16, 8, 4 or 2 lanes.                  *)
(***************************************************************************)
EXTENDS WordSemantics

is_scalar_value_type(type) == type \in {"kWord", "kFloat64"}
is_integer_vector_type(type) == type \in {"kI8x16", "kI16x8", "kI32x4", "kI64x2"}
is_float_vector_type(type) == type \in {"kF32x4", "kF64x2"}
is_mask_vector_type(type) == type \in {"kMask8x16", "kMask16x8", "kMask32x4", "kMask64x2"}
is_vector_value_type(type) ==
  is_integer_vector_type(type) \/ is_float_vector_type(type) \/ is_mask_vector_type(type)
is_valid_value_type(type) == is_scalar_value_type(type) \/ is_vector_value_type(type)

vector_lane_bits(type) ==
  CASE type \in {"kI8x16", "kMask8x16"} -> 1
    [] type \in {"kI16x8", "kMask16x8"} -> 2
    [] type \in {"kI32x4", "kF32x4", "kMask32x4"} -> 4
    [] type \in {"kI64x2", "kF64x2", "kMask64x2"} -> 8
    [] OTHER -> 0
vector_lane_count(type) == IF vector_lane_bits(type) = 0 THEN 0 ELSE 16 \div vector_lane_bits(type)
Lanes(type) == 1..vector_lane_count(type)
vector_mask_type(type) ==
  CASE vector_lane_bits(type) = 1 -> "kMask8x16"
    [] vector_lane_bits(type) = 2 -> "kMask16x8"
    [] vector_lane_bits(type) = 4 -> "kMask32x4"
    [] vector_lane_bits(type) = 8 -> "kMask64x2"
    [] OTHER -> "kWord"
vector_shapes_match(lhs, rhs) ==
  is_vector_value_type(lhs) /\ is_vector_value_type(rhs) /\ vector_lane_bits(lhs) = vector_lane_bits(rhs)

BitwiseOps == {"kBitwiseAnd", "kBitwiseOr", "kBitwiseXor"}
valid_vector_binary(op, type) ==
  CASE op \in BitwiseOps -> is_vector_value_type(type)
    [] op = "kDivide" -> is_float_vector_type(type)
    [] op \in {"kAdd", "kSubtract", "kMultiply"} -> is_integer_vector_type(type) \/ is_float_vector_type(type)
    [] OTHER -> FALSE
IntegerComparisons ==
  {"kEqual", "kSignedLessThan", "kSignedLessEqual", "kUnsignedLessThan", "kUnsignedLessEqual"}
OrderedComparisons == {"kOrderedFloatEqual", "kOrderedFloatLessThan", "kOrderedFloatLessEqual"}
valid_vector_comparison(comparison, type) ==
  IF is_float_vector_type(type) THEN comparison \in OrderedComparisons
  ELSE is_integer_vector_type(type) /\ comparison \in IntegerComparisons

-----------------------------------------------------------------------------

lane_mask(type) == 2^vector_lane_bits(type) - 1
signed_lane(bits, type) == IF 2 * bits > lane_mask(type) THEN bits - lane_mask(type) - 1 ELSE bits
ZeroVector(type) == [lane \in Lanes(type) |-> 0]

vector_mask_is_canonical(value, mask_type) ==
  is_mask_vector_type(mask_type) /\ \A lane \in Lanes(mask_type) : value[lane] \in {0, lane_mask(mask_type)}

vector_splat_bits(type, bits) == [lane \in Lanes(type) |-> bits % (lane_mask(type) + 1)]

vector_extract_lane_bits(value, type, lane, sign_extend) ==
  IF sign_extend THEN Wrap(signed_lane(value[lane], type)) ELSE value[lane]

vector_insert_lane_bits(value, type, lane, bits) == [value EXCEPT ![lane] = bits % (lane_mask(type) + 1)]

vector_unary(value, type) == [lane \in Lanes(type) |-> lane_mask(type) - value[lane]]

FloatLaneOp == [kAdd |-> "kFloatAdd", kSubtract |-> "kFloatSubtract",
                kMultiply |-> "kFloatMultiply", kDivide |-> "kFloatDivide"]
vector_binary(op, lhs, rhs, type) ==
  [lane \in Lanes(type) |->
     IF op \in BitwiseOps THEN evaluate_binary(op, lhs[lane], rhs[lane])
     ELSE IF is_float_vector_type(type) THEN FloatResult(FloatLaneOp[op], lhs[lane], rhs[lane])
     ELSE evaluate_binary(op, lhs[lane], rhs[lane]) % (lane_mask(type) + 1)]

\* A lane of 32 bits is a float32: the upper half of the float64 it widens to.
FloatLane(bits, type) == IF vector_lane_bits(type) = 4 THEN Widen(bits) ELSE bits
compare_integer(comparison, lhs, rhs, type) ==
  CASE comparison = "kEqual" -> lhs = rhs
    [] comparison = "kSignedLessThan" -> signed_lane(lhs, type) < signed_lane(rhs, type)
    [] comparison = "kSignedLessEqual" -> signed_lane(lhs, type) <= signed_lane(rhs, type)
    [] comparison = "kUnsignedLessThan" -> lhs < rhs
    [] comparison = "kUnsignedLessEqual" -> lhs <= rhs
compare_float(comparison, lhs, rhs) ==
  CASE comparison = "kOrderedFloatEqual" -> FloatEqual(lhs, rhs)
    [] comparison = "kOrderedFloatLessThan" -> FloatLess(lhs, rhs)
    [] comparison = "kOrderedFloatLessEqual" -> FloatLess(lhs, rhs) \/ FloatEqual(lhs, rhs)
vector_compare(comparison, lhs, rhs, type) ==
  [lane \in Lanes(type) |->
     IF IF is_float_vector_type(type)
        THEN compare_float(comparison, FloatLane(lhs[lane], type), FloatLane(rhs[lane], type))
        ELSE compare_integer(comparison, lhs[lane], rhs[lane], type)
     THEN lane_mask(type) ELSE 0]

vector_select(mask, true_value, false_value, mask_type) ==
  IF ~vector_mask_is_canonical(mask, mask_type) THEN ZeroVector(mask_type)
  ELSE [lane \in Lanes(mask_type) |-> IF mask[lane] = 0 THEN false_value[lane] ELSE true_value[lane]]

vector_lane_sign_mask(value, type) ==
  MapThenSumSet(LAMBDA lane : IF signed_lane(value[lane], type) < 0 THEN 2^(lane - 1) ELSE 0, Lanes(type))

vector_shuffle(value, type, lanes) == [lane \in Lanes(type) |-> value[lanes[lane] + 1]]

valid_vector_widen(source, result) ==
  /\ is_integer_vector_type(source) /\ is_integer_vector_type(result)
  /\ vector_lane_bits(result) = 2 * vector_lane_bits(source)
vector_widen(value, source_type, result_type, sign, high) ==
  [lane \in Lanes(result_type) |->
     LET source == value[lane + IF high THEN vector_lane_count(result_type) ELSE 0]
     IN (IF sign THEN signed_lane(source, source_type) ELSE source) % (lane_mask(result_type) + 1)]

=============================================================================
