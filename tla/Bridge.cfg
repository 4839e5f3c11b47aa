SPECIFICATION Spec
CONSTANTS
  w1 = w1
  w2 = w2
  b1 = b1
  b2 = b2
  Stopper = Stopper
  None = None
  Wrappers <- TwoWrappers
  Pids <- TwoPids
  Worlds <- Disturbed
  MaxStart = 2
SYMMETRY TwoSymmetry
INVARIANT BridgeSound
PROPERTIES
  OnlyOwnSignalled
  LastCloses
\* When every kipsel has gone nothing is left to do.
CHECK_DEADLOCK FALSE
