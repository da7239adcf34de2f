\* Everything at once: POST /replication/apply beside the sync, failures, crashes.
CONSTANTS
  Keys = {x}
  Values = {a}
  Nil = Nil
  Writers = {w1}
  Appliers = {c1}
  Sync = Sync
  BatchLimit = 1
  MaxWrites = 2
  MaxExplains = 1
  MaxJournalFaults = 1
  MaxFaults = 1
  MaxPrimaryCrashes = 1
  MaxFollowerCrashes = 1
SPECIFICATION LiveSpec
INVARIANTS PrefixState MirrorsPrimary CursorCovered
PROPERTIES CatchesUp
CHECK_DEADLOCK FALSE
