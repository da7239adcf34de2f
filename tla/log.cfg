\* Crashes, failed rollbacks and power losses.
CONSTANTS
  Ops = {put, del}
  None = None
  MaxSeq = 4
  TornKinds = {"length", "header", "body"}
  MaxOpens = 3
  MaxFaults = 2
  MaxPowerLosses = 2
SPECIFICATION Spec
SYMMETRY OpSymmetry
INVARIANTS AcksSurvive OnlyHeaderBlocks ReadsExact
PROPERTIES AppendOnly
CHECK_DEADLOCK FALSE
