SPECIFICATION Spec
CONSTANTS
  Key = {k1, k2, k3}
  Fingerprint = {f1, f2}
  Token = {a}
  Target = {t1, t2}
  target_profile = t1
  None = None
  Size = {1, 3, 4}
  maximum_entries = 2
  maximum_code_bytes = 3
  MaxClock = 3
  MaxPublications = 4
INVARIANTS
  BudgetHolds
  ResidentWasSound
PROPERTIES
  EvictsLeastRecent
