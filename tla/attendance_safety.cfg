SPECIFICATION FairSpec
CONSTANTS
  ann = ann
  bob = bob
  cal = cal
  early = early
  late = late
  stray = stray
  s1 = s1
  d1 = d1
  NoRow = NoRow
  Events <- AllEvents
  Fenced = {2, 3}
  Rows <- Volunteers
  EventOf <- At
  Batches <- Posts
  Owner <- From
  Tagged = {early}
  Inside = {early, late}
  Online = {early}
  Proofs <- Whole
  Sweeps = {s1}
  Directors = {d1}
  Selections <- ByHand
  Window = 2
  MaxFaults = 1
INVARIANTS
  TypeOK
  MethodIsTrue
  RuledOnReadings
  EveryRulingHeard
PROPERTIES KeepsRulings NoRowForgotten
CHECK_DEADLOCK FALSE
