\* Compaction after a restart.
CONSTANTS
  NumKeys = 1
  Values = {a, b}
  Nil = Nil
  FalsePositives = {}
  SyncOnWrite = TRUE
  MaxWrites = 3
  MaxOpens = 2
  MaxCompactions = 1
  MaxFaults = 0
  MaxTorn = 0
SPECIFICATION Spec
PROPERTIES MaintenanceKeepsReads
CHECK_DEADLOCK FALSE
