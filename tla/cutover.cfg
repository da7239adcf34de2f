\* Crashes, failed saves and a failing journal throughout a failover.
CONSTANTS
  Primary = Primary
  Follower = Follower
  QuiesceNodes = {Primary}
  Requests = {r1, r2}
  None = None
  MaxWrites = 3
  MaxQuiesceIDs = 3
  MaxJournalFaults = 1
  MaxFaults = 2
  MaxCrashes = 3
SPECIFICATION Spec
SYMMETRY RequestSymmetry
INVARIANTS AtMostOneWritable PromotedComplete StartupResolves QuiesceIsFinal OneQuiesceRecord
CHECK_DEADLOCK FALSE
