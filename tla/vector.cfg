\* Failed writes, crashes and reopenings between and inside the operations.
CONSTANTS
  NumIds = 3
  HighIds = {3}
  Vectors <- VectorsOfTwoDimensions
  Metrics = {"cosine", "l2"}
  Queries <- QueryVectors
  Nil = Nil
  Clients = {c1}
  MaxWrites = 3
  MaxFaults = 1
  MaxOpens = 2
  MaxSearches = 1
SPECIFICATION Spec
INVARIANTS SearchIsSnapshot
PROPERTIES Implements
CHECK_DEADLOCK FALSE
