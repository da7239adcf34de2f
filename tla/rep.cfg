\* Restarts, failing steps, paused and limited followers.
CONSTANTS
  Keys = {a}
  Values = {v}
  Nil = Nil
  ReplicaCount = 3
  Lags = {0, 2}
  MaxLog = 2
  MaxOpens = 2
  MaxFaults = 2
SPECIFICATION LiveSpec
INVARIANTS OnlyCommittedApplied LeaderServesAcked FollowerBetween
PROPERTIES AllCaughtUp ReplicateAllReturns
CHECK_DEADLOCK FALSE
