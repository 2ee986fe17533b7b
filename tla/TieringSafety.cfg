SPECIFICATION Spec
CONSTANTS
  Compiler = {j1, j2}
  Publisher = {p1}
  Invoker = {v1, v2}
  threshold = 1
  retry_delay = 2
  MaxBaselines = 2
  MaxGeneration = 6
  MaxInvocations = 5
INVARIANTS
  OptimizedMatchesBaseline
  PromotionIsComplete
PROPERTIES
  GenerationsAreFresh
  OnlyExitedTierIsWithdrawn
  RetryIsDelayed
CHECK_DEADLOCK FALSE
