SPECIFICATION MCSpec
CONSTANTS
  Xids = {x1, x2, x3}
  Tuples = {t1, t2}
  MaxLocks = 2
  Sorters = {"outer", "inner"}
  SortKeys <- SortKeysOf
  WorkMem = 1
  MaxRows <- SortRowsOf
  MaxRuns = 3
  Files = {1, 2, 3, 4, 5, 6}
  MaxRescans = 1
SYMMETRY Symmetric
CHECK_DEADLOCK FALSE
INVARIANTS
  CommittedAcyclic
  
  NodesReturnRight
  UndisturbedSortsAll
  
