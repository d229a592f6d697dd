SPECIFICATION Spec
CONSTANTS
  a = a
  b = b
  NoPolicy = NoPolicy
  Clients = {a, b}
  Policies <- Offered
  Default <- Usual
  Root = FALSE
  MaxTime = 2
  MaxAttempts = 5
  MaxUpsets = 1
INVARIANTS
  TypeOK
  CopyIsCurrent
  GuessesBounded
PROPERTY LocksLift
SYMMETRY Alike
CHECK_DEADLOCK FALSE
