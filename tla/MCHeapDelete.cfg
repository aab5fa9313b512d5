SPECIFICATION Spec
CONSTANTS
  Backends = {b1, b2}
  MaxXid = 4
  MaxMulti = 1
SYMMETRY Symmetric
INVARIANTS
  DeletesTakeEffect
