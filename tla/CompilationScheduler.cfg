SPECIFICATION FairSpec
CONSTANTS
  w1 = w1
  w2 = w2
  c1 = c1
  c2 = c2
  k1 = k1
  k2 = k2
  Worker = {w1, w2}
  Client = {c1, c2}
  Key = {k1, k2}
  Request <- MCRequests
  maximum_queued_tasks = 2
  maximum_queued_bytes = 2
  ShutdownCallers = {c1, w1}
  MaxTasks = 2
INVARIANTS
  EveryTaskHasOneHolder
  AccountsBalance
  NoLostWakeup
  JoinedMeansDone
PROPERTIES
  TasksComplete
  WaitersReturn
  ShutdownReturns
CHECK_DEADLOCK FALSE
