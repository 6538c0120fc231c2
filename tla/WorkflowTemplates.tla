------------------------- MODULE WorkflowTemplates -------------------------
(***************************************************************************)
(* What create_workflow of the registry makes of a request: the steps it   *)
(* stores, and the templates it refuses.  A request names its steps, or    *)
(* only tasks that are to run one after the other.  A step is a record     *)
(* [id, task, needs]; the order within depends_on changes nothing, so      *)
(* needs is a set.                                                         *)
(***************************************************************************)
EXTENDS Naturals, Sequences, FiniteSets

\* workflow_steps and _normalize_workflow_steps for a request without steps:
\* one step per task, each waiting for the one before it.  The id holds the
\* position, so that a task may come twice.
Chain(tasks) ==
  [i \in 1..Len(tasks) |->
     [id |-> <<i, tasks[i]>>, task |-> tasks[i],
      needs |-> IF i = 1 THEN {} ELSE {<<i - 1, tasks[i - 1]>>}]]

Normalized(tasks, steps) == IF steps # <<>> THEN steps ELSE Chain(tasks)

StepIds(steps) == {steps[i].id : i \in DOMAIN steps}

\* dependency_map of steps with distinct ids, as a function on the ids.
DependencyMap(steps) ==
  [d \in StepIds(steps) |->
     UNION {steps[i].needs : i \in {j \in DOMAIN steps : steps[j].id = d}}]

\* Where the depth-first search of _validate_workflow_steps is: the steps that a
\* loop over dependencies has still to visit, those on the way to it, and those
\* known to be good.
SearchStates(ids) == [todo : SUBSET ids, visiting : SUBSET ids, visited : SUBSET ids]

Found(visited) == [visited |-> visited, raised |-> FALSE]

\* visit(step_id), where "search" is what the loops below it come to: the good
\* steps, and whether a step on the way was met again, which raises.
Visit(deps, search, c, d) ==
  IF d \in c.visited THEN Found(c.visited)
  ELSE IF d \in c.visiting THEN [visited |-> c.visited, raised |-> TRUE]
  ELSE LET below == search[[todo |-> deps[d], visiting |-> c.visiting \cup {d},
                            visited |-> c.visited]]
       IN  IF below.raised THEN below ELSE Found(below.visited \cup {d})

\* The loop over the steps to visit; their order decides nothing.
VisitAll(deps, search, c) ==
  IF c.todo = {} THEN Found(c.visited)
  ELSE LET d == CHOOSE x \in c.todo : TRUE
           visit == Visit(deps, search, c, d)
       IN  IF visit.raised THEN visit
           ELSE search[[todo |-> c.todo \ {d}, visiting |-> c.visiting,
                        visited |-> visit.visited]]

Search(deps) ==
  LET search[c \in SearchStates(DOMAIN deps)] == VisitAll(deps, search, c) IN search

Validated(deps) ==
  ~ Search(deps)[[todo |-> DOMAIN deps, visiting |-> {}, visited |-> {}]].raised

\* _validate_workflow_steps: some step, distinct ids, known dependencies, and
\* no cycle.
Accepted(steps) ==
  /\ steps # <<>>
  /\ \A i, j \in DOMAIN steps : steps[i].id = steps[j].id => i = j
  /\ \A i \in DOMAIN steps : steps[i].needs \subseteq StepIds(steps)
  /\ Validated(DependencyMap(steps))
-----------------------------------------------------------------------------
\* What the search is to find out: every set of steps has one that waits for
\* no other of the set, so that an execution never waits for itself.
AcyclicGraph(deps) ==
  \A S \in SUBSET DOMAIN deps : S # {} => \E s \in S : deps[s] \cap S = {}
=============================================================================
