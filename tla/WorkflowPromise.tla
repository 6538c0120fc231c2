-------------------------- MODULE WorkflowPromise --------------------------
(***************************************************************************)
(* What a workflow execution promises, without batches, coroutines or      *)
(* reviews: steps are launched only when everything they depend on has     *)
(* been recorded, nothing is launched once the execution has stopped, and  *)
(* it completes only with every step recorded.                             *)
(***************************************************************************)
CONSTANT
  Steps       \* the steps of the template

VARIABLES
  needs,      \* needs[s]: the steps s depends on; never changes
  phase,      \* "idle", "open" (steps may be launched), "closing", or how it ended
  launched,   \* steps whose task was started (or whose lookup failed)
  recorded    \* steps whose result the execution has recorded

vars == <<needs, phase, launched, recorded>>

Endings == {"completed", "stopped", "failed"}

Init ==
  /\ needs \in [Steps -> SUBSET Steps]
  /\ phase = "idle"
  /\ launched = {}
  /\ recorded = {}

Accept ==
  /\ phase = "idle"
  /\ phase' = "open"
  /\ UNCHANGED <<needs, launched, recorded>>

Launch(s) ==
  /\ phase = "open"
  /\ s \notin launched
  /\ needs[s] \subseteq recorded
  /\ launched' = launched \cup {s}
  /\ UNCHANGED <<needs, phase, recorded>>

\* The result of a step is recorded; it may be one that closes the execution
\* to further launches.
Record(s) ==
  /\ phase \in {"open", "closing"}
  /\ s \in launched \ recorded
  /\ recorded' = recorded \cup {s}
  /\ \/ phase' = "closing"
     \/ phase' = phase
  /\ UNCHANGED <<needs, launched>>

Complete ==
  /\ phase = "open"
  /\ recorded = Steps
  /\ phase' = "completed"
  /\ UNCHANGED <<needs, launched, recorded>>

Stop ==
  /\ phase = "closing"
  /\ recorded = launched
  /\ phase' = "stopped"
  /\ UNCHANGED <<needs, launched, recorded>>

\* A launched step raised and will never be recorded, or the steps that are
\* left wait for each other.
Fail ==
  /\ phase \in {"open", "closing"}
  /\ \/ recorded # launched
     \/ /\ recorded # Steps
        /\ \A s \in Steps \ recorded : ~ needs[s] \subseteq recorded
  /\ phase' = "failed"
  /\ UNCHANGED <<needs, launched, recorded>>

Next == Accept \/ (\E s \in Steps : Launch(s) \/ Record(s)) \/ Complete \/ Stop \/ Fail

\* An accepted execution comes to an end.
Ends == phase # "idle" ~> phase \in Endings

Spec == Init /\ [][Next]_vars
=============================================================================
