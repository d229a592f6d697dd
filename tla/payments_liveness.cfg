SPECIFICATION FairSpec
CONSTANTS
  r1 = r1
  r2 = r2
  k1 = k1
  NoRequest = NoRequest
  Requests = {r1, r2}
  Keys = {k1}
  KeyOf <- OneKey
  MethodOf <- Wallets
  EventBacked = {r1}
  Pollers = {p1}
  Fragile = {}
  MaxFaults = 1
PROPERTIES
  CapturedIsCredited
  SettledIsTold
CHECK_DEADLOCK FALSE
