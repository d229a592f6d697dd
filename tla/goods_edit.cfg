SPECIFICATION Spec
CONSTANTS
  gift = gift
  s1 = s1
  s2 = s2
  t1 = t1
  NoDonation = NoDonation
  Donations <- Gifts
  Directors <- Portal
  Donors <- App
  Amounts <- Values
  MaxTrail = 6
PROPERTY LockedOnceReceived
CHECK_DEADLOCK FALSE
