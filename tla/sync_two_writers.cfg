\* Two write requests at once.
CONSTANTS
  Keys = {x}
  Values = {a, b}
  Nil = Nil
  Writers = {w1, w2}
  Appliers = {}
  Sync = Sync
  BatchLimit = 2
  MaxWrites = 2
  MaxExplains = 0
  MaxJournalFaults = 0
  MaxFaults = 0
  MaxPrimaryCrashes = 0
  MaxFollowerCrashes = 0
SPECIFICATION Spec
INVARIANTS MirrorsPrimary
CHECK_DEADLOCK FALSE
