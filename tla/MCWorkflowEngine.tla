-------------------------- MODULE MCWorkflowEngine --------------------------
\* WorkflowEngine for TLC: three steps and a task of another client, which can be
\* queued for review twice, so that three reviews meet in a queue of two.  The
\* graphs are the cyclic ones without self-loops and those whose steps need
\* earlier steps only, with the default stop_on_statuses: a position only orders
\* the results of one batch, so that every acyclic graph is one of the latter but
\* for the names of its steps (Backwards is kept all the same).  The graph of
\* the seeded workflow (two steps in parallel, then a third) also has other
\* stop lists.  Three steps that need nothing are left out: two results show how
\* those of a batch meet, and a third multiplies the states.
EXTENDS WorkflowEngine

CONSTANTS s1, s2, s3, task1

MCSteps == {s1, s2, s3}
MCRuns == MCSteps \cup {task1}
MCKind == [r \in MCRuns |-> IF r = task1 THEN "task" ELSE "step"]
MCPosition == [r \in MCSteps |-> CASE r = s1 -> 1 [] r = s2 -> 2 [] r = s3 -> 3]

Earlier(s) == {t \in MCSteps : MCPosition[t] < MCPosition[s]}
Graphs == {g \in [MCSteps -> SUBSET MCSteps] :
             \/ \A s \in MCSteps : g[s] \subseteq Earlier(s)
             \/ ~ AcyclicGraph(g) /\ \A s \in MCSteps : s \notin g[s]}
Unordered == [r \in MCSteps |-> {}]
Backwards == [r \in MCSteps |-> CASE r = s1 -> {s2} [] r = s2 -> {s3} [] r = s3 -> {}]
FanIn == [r \in MCSteps |-> IF r = s3 THEN {s1, s2} ELSE {}]
OtherStops == {{}, {"blocked"}, {"blocked", "monitored"}}

Drawn ==
  {[deps |-> g, stop |-> NeedsReview] : g \in (Graphs \ {Unordered}) \cup {Backwards}}
    \cup {[deps |-> FanIn, stop |-> x] : x \in OtherStops}
MCTemplates == Drawn

\* The validation on every graph over three steps, self-loops included, and on
\* lists of up to two steps with ids and dependencies among two names and one
\* that no step has.
Drafts == [id : {"a", "b"}, task : {"t"}, needs : SUBSET {"a", "b", "c"}]
Lists == {<<>>} \cup {<<x>> : x \in Drafts} \cup {<<x, y>> : x, y \in Drafts}

ASSUME SearchFindsEveryCycle ==
  \A g \in [1..3 -> SUBSET (1..3)] : Validated(g) <=> AcyclicGraph(g)

ASSUME AcceptedIsRunnable ==
  \A steps \in Lists :
    Accepted(steps) <=>
      /\ Len(steps) > 0 /\ Cardinality(StepIds(steps)) = Len(steps)
      /\ UNION {steps[i].needs : i \in DOMAIN steps} \subseteq StepIds(steps)
      /\ AcyclicGraph(DependencyMap(steps))

\* A request that names tasks only is never refused, but an empty one.
ASSUME ChainsAreAccepted ==
  \A tasks \in UNION {[1..n -> {"t", "u"}] : n \in 0..4} :
    Accepted(Normalized(tasks, <<>>)) <=> tasks # <<>>
=============================================================================
