SPECIFICATION FrontendSpec
CONSTANTS
  threshold = 1
  retry_delay = 2
  AllowCancel = TRUE
  MaxInvocations = 6
INVARIANTS
  LiveJobHasClaim
CHECK_DEADLOCK FALSE
