SPECIFICATION MCSpec
CONSTANTS
  Starter = p1
  Forked = {b1, b2}
  Workers = {p1, b1, b2}
  MaxXid = 4
  MaxStarts = 3
  t1 = t1
  t2 = t2
  t3 = t3
  Handles = {h1, h2}
  Values = {x1, x2}
  p1 = p1
  b1 = b1
  b2 = b2
SYMMETRY Symmetric
CHECK_DEADLOCK FALSE
INVARIANTS
  CommitsKept
  
  IndexesRight
  
  
