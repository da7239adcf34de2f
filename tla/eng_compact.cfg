\* Flushes and a compaction in one life of the engine, crashes, I/O errors,
\* partial frames in the log.
CONSTANTS
  NumKeys = 2
  Values = {a}
  Nil = Nil
  FalsePositives = {2}
  SyncOnWrite = TRUE
  MaxWrites = 4
  MaxOpens = 1
  MaxCompactions = 1
  MaxFaults = 1
  MaxTorn = 1
SPECIFICATION Spec
INVARIANTS ScanMatchesGet
PROPERTIES LossOnlyWhenBuried ListedFilesImmutable MaintenanceKeepsReads
CHECK_DEADLOCK FALSE
