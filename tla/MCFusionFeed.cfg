CONSTANTS
  r1 = r1
  r2 = r2
  other = other
  kernel = kernel
  ingestion = ingestion
  fusion = fusion
  Services = {kernel, ingestion, fusion}
  Subscribers = {fusion}
  Messages <- MCMessages
  Payloads = {other}
  Runs = {r1, r2}
  PerRun <- MCPerRun
  HalfWindow = 0
  Horizon = 1
  MaxTime = 2
SPECIFICATION Spec
INVARIANTS
  TypeOK
  FusedIsComplete
CHECK_DEADLOCK FALSE
