SPECIFICATION Spec
CONSTANTS
  Backends = {b1, b2}
  kMaxXids = 5
  MaxXid = 4
SYMMETRY Symmetric
INVARIANTS
  UndecidedIsInProgress
  SeesEarlierCommits
  HidesRunning
  CachedDecisionCorrect
PROPERTIES
  ImplementsOutcomes
  DecidedBeforeUnpublished
