CONSTANTS
  agent1 = agent1
  task1 = task1
  step1 = step1
  lost1 = lost1
  Runs <- MCRuns
  Kind <- MCKind
  Dangling <- MCDangling
  ReviewLimit = 2
SPECIFICATION Spec
INVARIANTS
  TypeOK
  DispatchOnlyAllowed
  StoppedRunsAreQueued
  NewestReviewMatchesRecord
  SecondReviewOnlyAfterLostPublication
PROPERTIES
  FinalStatusStable
  EveryRunEnds
CHECK_DEADLOCK FALSE
