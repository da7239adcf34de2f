\* Two clients, late writes, new configurations and Close at every step.
CONSTANTS
  n1 = n1
  n2 = n2
  n3 = n3
  k1 = k1
  Nodes = {n1, n2, n3}
  Keys = {k1}
  Clients = {c1, c2}
  Hashes <- HashFunctions
  VirtualNodes = 2
  Configs <- Configurations
  MaxWrites = 2
  MaxRestarts = 2
SPECIFICATION Spec
INVARIANTS AckedVisible NoneRefused
PROPERTIES ServedOnce MovesAsPlanned CloseReturns
CHECK_DEADLOCK FALSE
