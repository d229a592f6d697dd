SPECIFICATION Spec
CONSTANTS
  r1 = r1
  r2 = r2
  k1 = k1
  NoRequest = NoRequest
  Requests = {r1, r2}
  Keys = {k1}
  KeyOf <- OneKey
  MethodOf <- Codes
  EventBacked = {r1, r2}
  Pollers = {p1}
  Fragile = {}
  MaxFaults = 0
INVARIANT NothingChargedOnExpiry
CHECK_DEADLOCK FALSE
