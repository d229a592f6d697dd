SPECIFICATION Spec
CONSTANTS
  a = a
  b = b
  c = c
  g1 = g1
  w1 = w1
  e1 = e1
  NoSession = NoSession
  NoSweep = NoSweep
  Sessions <- Devices
  Checking <- Portal
  Requests <- Calls
  Sweeps <- Ending
  Changes <- Mailing
  Limit = 2
INVARIANTS
  TypeOK
  LimitBinds
  NewestStays
  RestrictionEndsSessions
  AddressFollows
CONSTRAINT Focus
SYMMETRY Alike
CHECK_DEADLOCK FALSE
