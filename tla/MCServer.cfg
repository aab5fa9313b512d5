SPECIFICATION MCSpec
CONSTANTS
  Names <- ClientNames
  NewNames <- GivenNames
  kFirstNormalObjectId = 3
  MaxOid = 7
  MaxCalls = 3
  MaxAborts = 1
  Requires <- Extensions
CHECK_DEADLOCK FALSE
INVARIANTS
  CatalogRight
  LoadInvertsSave
  ContainersRight
PROPERTIES
  RollbackUndoes
