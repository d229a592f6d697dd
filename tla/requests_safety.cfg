SPECIFICATION Spec
CONSTANTS
  vol = vol
  ben = ben
  q1 = q1
  q2 = q2
  j1 = j1
  j2 = j2
  j3 = j3
  d1 = d1
  d2 = d2
  facilitator = facilitator
  Regular = Regular
  NoRole = NoRole
  NoRequest = NoRequest
  Volunteers = {vol}
  Beneficiaries = {ben}
  Requests <- Ids
  FiledBy <- By
  Roles = {facilitator}
  Slots = 1
  Places = 1
  Directors = {d1, d2}
  MaxRulings = 3
INVARIANTS
  TypeOK
  StandingsAgree
  PlacesKept
PROPERTY DecisionsStand
SYMMETRY Alike
CHECK_DEADLOCK FALSE
