SPECIFICATION Spec
CONSTANTS
  Backends = {b1, b2}
  kMaxXids = 5
  MaxXid = 3
SYMMETRY Symmetric
INVARIANT
  NotListedIsFinished
