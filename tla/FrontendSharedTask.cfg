SPECIFICATION FrontendSpec
CONSTANTS
  threshold = 1
  retry_delay = 2
  AllowCancel = FALSE
  MaxInvocations = 6
INVARIANTS
  ClaimIsOwned
CHECK_DEADLOCK FALSE
