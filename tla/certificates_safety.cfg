SPECIFICATION FairSpec
CONSTANTS
  ball = ball
  sheetOfBall = sheetOfBall
  first = first
  second = second
  d1 = d1
  s1 = s1
  s2 = s2
  c1 = c1
  v1 = v1
  Blank = Blank
  NoDeployment = NoDeployment
  NoRow = NoRow
  Events = {ball}
  Rows <- AllRows
  EventOf <- At
  Templates = {sheetOfBall}
  Designs = {first, second}
  Deployments = {d1}
  TemplateOf <- Cut
  ForEvent <- On
  Sweeps = {s1, s2}
  Directors = {c1}
  Viewers = {v1}
  Corrigible = {2}
  MaxRequests = 2
  MaxFaults = 1
INVARIANTS
  TypeOK
  DistributedHaveSheets
  SheetsEarned
  OneWording
  ClaimsCounted
  CompletedIsComplete
  HoldersTold
PROPERTY NobodyLeftWaiting
CHECK_DEADLOCK FALSE
