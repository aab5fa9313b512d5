SPECIFICATION Spec
CONSTANTS
  Backends = {b1, b2, b3, b4}
  kMaxBackends = 3
  max_connections = 3
SYMMETRY Symmetric
INVARIANTS
  EntriesMatchHolders
  NoSlotLost
