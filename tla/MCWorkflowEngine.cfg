CONSTANTS
  s1 = s1
  s2 = s2
  s3 = s3
  task1 = task1
  Workflow = wf
  Runs <- MCRuns
  Kind <- MCKind
  Dangling = {}
  ReviewLimit = 2
  Position <- MCPosition
  Templates <- MCTemplates
SPECIFICATION WfSpec
INVARIANTS
  WfTypeOK
  DependencyOrder
  FailureHasCause
  EndIsConsistent
  OneReviewPerWorkflow
  StepsReachAnOperator
PROPERTIES
  NoStartAfterStop
  WorkflowEnds
  ImplementsPromise
CHECK_DEADLOCK FALSE
