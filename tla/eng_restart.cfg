\* Crashes, I/O errors and reopenings at every step; no compaction.
CONSTANTS
  NumKeys = 2
  Values = {a}
  Nil = Nil
  FalsePositives = {}
  SyncOnWrite = TRUE
  MaxWrites = 3
  MaxOpens = 3
  MaxCompactions = 0
  MaxFaults = 1
  MaxTorn = 0
SPECIFICATION Spec
INVARIANTS ManifestComplete HandlesMatchManifest Durable
PROPERTIES Implements
CHECK_DEADLOCK FALSE
