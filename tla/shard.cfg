\* Two shards at most, reopened with other options, with failures anywhere.
CONSTANTS
  k1 = k1
  k2 = k2
  Keys <- KeySet
  Values = {v1}
  Nil = Nil
  MaxShards = 2
  VirtualNodes = {1, 2}
  DefaultVirtualNodes = 2
  Label <- Labels
  Hash <- Hashes
  Scanners = {c1}
  MaxOpens = 3
  MaxWrites = 3
  MaxFaults = 2
SPECIFICATION Spec
INVARIANTS OneHome ScanIsCurrent
PROPERTIES Implements
CHECK_DEADLOCK FALSE
