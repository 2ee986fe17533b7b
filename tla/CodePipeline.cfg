CONSTANTS
  Programs <- MCPrograms
  Recipes <- MCRecipes
  WordBits = 8
  WordRegisters = 2
  SimdRegisters = 2
  Noise = 90
  MaximumBlockExecutions = 4
  Limits = {24, 9}
  kMaximumObjects = 2
  kMaximumFields = 4
  kMaximumValues = 3
SPECIFICATION Spec
INVARIANTS NoPassFails ReadsAreComputed OptimizedRunMatches NativeRunMatches CapturedValuesAreCurrent FrameIsRebuilt MaterializationIsAtomic
CHECK_DEADLOCK FALSE
