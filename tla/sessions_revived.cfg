SPECIFICATION Spec
CONSTANTS
  a = a
  b = b
  c = c
  g1 = g1
  w1 = w1
  e1 = e1
  NoSession = NoSession
  NoSweep = NoSweep
  Sessions <- Portal
  Checking <- Portal
  Requests <- Calls
  Sweeps <- Sweeping
  Changes <- Nothing
  Limit = 2
INVARIANT SignedOutStaysOut
SYMMETRY Alike
CHECK_DEADLOCK FALSE
