SPECIFICATION Spec
CONSTANTS
  c1 = c1
  c2 = c2
  Conns <- TwoConns
  Lengths = {1, 3}
  MaxSends = 1
  Modal = FALSE
  Drops = FALSE
INVARIANTS Intact
CHECK_DEADLOCK FALSE
