CONSTANTS
  run = run
  first = first
  second = second
  Calls <- MCCalls
  FromKernel = {run}
  Key <- MCKey
  Templates <- MCTemplates
  Rules <- DefaultRules
SPECIFICATION Spec
INVARIANTS
  TypeOK
  RepeatsOnlyWhenConcurrent
  AnswersTellEffects
  AllowedIsNotRefused
  StopsUnlessMasked
  OutcomeTellsEffect
PROPERTIES
  DispatchesEnd
CHECK_DEADLOCK FALSE
