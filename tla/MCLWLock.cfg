SPECIFICATION FairSpec
CONSTANTS
  Procs = {p1, p2, p3}
  kExclusiveBit = 8
  MaxCount = 2
INVARIANTS
  MutualExclusion
  WordMatchesHolders
PROPERTIES
  ImplementsRWLock
  
