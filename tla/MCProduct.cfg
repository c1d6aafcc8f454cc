SPECIFICATION Spec
CONSTANTS
  Context <- Sessions
  x1 = x1
  x2 = x2
  s1 = s1
  s2 = s2
  Worker = {w1, w2}
  NoCell = nocell
  Modulus = 2
  MaxPDUs = 3
  MaxForgets = 1
  Addr = {a1}
  Capacity = 1
SYMMETRY Interchangeable
CHECK_DEADLOCK FALSE
INVARIANTS ContextNumbering CountersFollowTasking LossShowsAsGap
