CONSTANTS
  g1 = g1
  g2 = g2
  None = None
  Sessions <- MCSessions
SYMMETRY MCSymmetry
SPECIFICATION Spec
INVARIANT
  DaemonDeathIsCleanedUp
CHECK_DEADLOCK FALSE
