SPECIFICATION Spec
CONSTANTS
  outer = outer
  inner = inner
  counter = counter
  leaf = leaf
  other = other
  Thread = {t1}
  Binder = {b1, b2}
  Caller = {outer, inner, counter}
  Target = {leaf, other}
  fast_calls <- MCFastCalls
  signature <- MCSignature
  patch_cells = {outer, counter}
  assumptions = {inner}
  MaxDepth = 2
SYMMETRY MCSymmetry
INVARIANTS
  CallsReachTheirTargets
  BindingsFollowInvocations
  UpdatesAreKept
