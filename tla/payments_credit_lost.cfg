SPECIFICATION Spec
CONSTANTS
  r1 = r1
  r2 = r2
  k1 = k1
  NoRequest = NoRequest
  Requests = {r1, r2}
  Keys = {k1}
  KeyOf <- OneKey
  MethodOf <- Wallets
  EventBacked = {r1, r2}
  Pollers = {p1}
  Fragile = {p1}
  MaxFaults = 0
INVARIANT PaidIsCredited
CHECK_DEADLOCK FALSE
