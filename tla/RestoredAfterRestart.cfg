CONSTANTS
  seedTask = seedTask
  newTask = newTask
  newWorkflow = newWorkflow
  run1 = run1
  decision1 = decision1
  Seeds = {seedTask}
  Creations = {newTask, newWorkflow}
  Needs <- MCNeeds
  Executions = {run1}
  Task <- MCTask
  Decisions = {decision1}
  Boot = boot
  MaxCrashes = 2
SPECIFICATION Spec
INVARIANTS
  RestoredAfterRestart
CHECK_DEADLOCK FALSE
