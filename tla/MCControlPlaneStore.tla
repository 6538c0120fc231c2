------------------------ MODULE MCControlPlaneStore ------------------------
\* ControlPlaneStore for TLC: a client creates a task and a workflow of it,
\* another runs the seeded task and an operator resolves its review.
EXTENDS ControlPlaneStore

CONSTANTS seedTask, newTask, newWorkflow, run1, decision1

MCNeeds == [e \in {seedTask, newTask, newWorkflow} |->
              IF e = newWorkflow THEN {newTask, seedTask} ELSE {}]
MCTask == [x \in Executions |-> seedTask]
=============================================================================
