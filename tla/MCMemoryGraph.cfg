CONSTANTS
  cause = cause
  effect = effect
  c1 = c1
  e1 = e1
  e2 = e2
  Nodes = {cause, effect}
  Stores <- MCStores
  Target <- MCTarget
  MemoryType <- MCMemoryType
  Unimportant = {e1}
  Links <- MCLinks
  MaxFaults = 1
SPECIFICATION Spec
INVARIANTS
  TypeOK
  
  GraphFollowsRows
CHECK_DEADLOCK FALSE
