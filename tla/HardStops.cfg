CONSTANTS
  run = run
  first = first
  second = second
  Calls <- MCCalls
  FromKernel = {run}
  Key <- MCKey
  Templates <- MCTemplates
  Rules <- DefaultRules
SPECIFICATION Spec
INVARIANTS
  HardStops
CHECK_DEADLOCK FALSE
