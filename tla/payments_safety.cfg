SPECIFICATION Spec
CONSTANTS
  r1 = r1
  r2 = r2
  k1 = k1
  NoRequest = NoRequest
  Requests = {r1, r2}
  Keys = {k1}
  KeyOf <- OneKey
  MethodOf <- Mixed
  EventBacked = {r1}
  Pollers = {p1, p2}
  Fragile = {p1}
  MaxFaults = 2
INVARIANTS
  TypeOK
  OneCheckoutPerKey
  PayableHasRow
  NoWedgedKey
  AgreesWithGateway
  OneStory
PROPERTY KeepsPromise
CHECK_DEADLOCK FALSE
