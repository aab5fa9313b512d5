SPECIFICATION Spec
CONSTANTS
  Gids = {"g1", "g2"}
  Names = {"s1", "s2"}
  Tables = {"t1"}
  kInvalidCommandId = 4
  MaxXid = 4
  MaxDepth = 3
INVARIANTS
  XactRight
PROPERTIES
  FailedBlockAborts
  ImplementsOutcomes
