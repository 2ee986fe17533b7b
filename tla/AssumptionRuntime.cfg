SPECIFICATION FairSpec
CONSTANTS
  tok1 = tok1
  tok2 = tok2
  both = both
  one = one
  plain = plain
  Thread = {t1, t2}
  Token = {tok1, tok2}
  Code = {both, one, plain}
  Dependencies <- MCDependencies
  Invalidator = {i1}
INVARIANTS
  Quiescence
  OkResultWasValid
  ManagedInterruptWasRequested
  SleepingInvalidatorIsOwed
PROPERTIES
  InterruptIsSticky
  InvalidateReturns
