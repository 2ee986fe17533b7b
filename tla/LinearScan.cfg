SPECIFICATION Spec
CONSTANTS
  Size = 4
  Types = {"kWord", "kFloat64", "kVector"}
  Program <- MCProgram
  word_register_count = 2
  simd_register_count = 1
  maximum_spill_slots = 5
  kMaximumCapturedValues = 2
INVARIANTS
  RegistersAreDisjoint
  ReadsAreIntact
CHECK_DEADLOCK FALSE
