--------------------------- MODULE WorkflowEngine ---------------------------
(***************************************************************************)
(* KernelOrchestrator.run_workflow: a coroutine that repeatedly gathers    *)
(* the steps whose dependencies are recorded, runs their tasks at the same *)
(* time, and then records the results in template order.  The tasks are    *)
(* the executions of kind "step" of GovernedRun; executions of the other   *)
(* kinds are unrelated requests that share the review queue.               *)
(***************************************************************************)
EXTENDS GovernedRun, WorkflowTemplates

CONSTANTS
  Workflow,    \* the identity of this execution in the review queue
  Position,    \* Position[s]: where step s stands in the template
  Templates    \* the templates considered: [deps, stop] records

Steps == {r \in Runs : Kind[r] = "step"}

ASSUME WorkflowAssumption == Workflow \notin Runs

\* A template is a list of steps.
ASSUME StepsAssumption == IsFiniteSet(Steps)

ASSUME PositionAssumption ==
  /\ Position \in [Steps -> Nat]
  /\ \A s, t \in Steps : Position[s] = Position[t] => s = t

\* A stored template names known steps only.  create_workflow also refuses
\* cycles (WorkflowTemplates), but run_workflow does not rely on it
\* (hydrate_state restores templates without validating them), and neither does
\* this module.
ASSUME TemplatesAssumption ==
  \A t \in Templates : /\ t.deps \in [Steps -> SUBSET Steps]
                       /\ t.stop \in SUBSET Statuses

VARIABLES
  template,    \* the template this execution was started with
  wfPc,        \* where the workflow coroutine is
  wfStatus,    \* WorkflowExecutionRecord.status ("absent": no record)
  batch,       \* results of the present batch not processed yet
  completed,   \* completed_step_ids; remaining_steps is its complement
  stopped,     \* terminal_status once stop_triggered, else "none"
  lastStatus   \* status of task_runs[-1] ("completed" if there is none)

wfVars == <<template, wfPc, wfStatus, batch, completed, stopped, lastStatus>>
allVars == <<vars, wfVars>>

WfPCs == {"idle", "gather", "collect", "review", "returned", "raised"}

WfInit ==
  /\ Init
  /\ template \in Templates
  /\ wfPc = "idle"
  /\ wfStatus = "absent"
  /\ batch = {}
  /\ completed = {}
  /\ stopped = "none"
  /\ lastStatus = "completed"

Remaining == Steps \ completed

\* Mutant of Ready: one dependency is enough.
ReadyAny == {s \in Remaining :
               template.deps[s] = {} \/ template.deps[s] \cap completed # {}}

\* Mutant of Ready: only a dependency that ended as "completed" counts.
ReadyStrict == {s \in Remaining : \A d \in template.deps[s] :
                  d \in completed /\ status[d] = "completed"}

Ready == {s \in Remaining : template.deps[s] \subseteq completed}

\* The head of "while remaining_steps": no result pending, no stop triggered.
LoopHead == wfPc = "collect" /\ batch = {} /\ stopped = "none"

\* The first unprocessed result of the batch, in the order gather returns them.
NextResult(s) ==
  /\ wfPc = "collect"
  /\ s \in batch
  /\ \A t \in batch : Position[s] <= Position[t]

\* complete_workflow_execution, and queue_review when an operator must look.
Conclude(final) ==
  /\ wfStatus' = final
  /\ IF final \in NeedsReview
     THEN wfPc' = "review" /\ Enqueue(Workflow, final)
     ELSE wfPc' = "returned" /\ UNCHANGED reviews

\* fail_workflow_execution, and no more: the arguments of the queue_review that
\* follows read execution.governance_action, a field WorkflowExecutionRecord does
\* not have, and the AttributeError leaves run_workflow before the review, its
\* publication and the save.
Fail ==
  /\ wfStatus' = "failed"
  /\ wfPc' = "raised"
  /\ UNCHANGED reviews

\* The risk level governance gives the decisions of DEFAULT_RULES, by the status
\* they lead to ("high" stands for high and critical).
RiskOf(outcome) == [completed |-> "low", monitored |-> "medium",
                    blocked |-> "high", escalated |-> "high"][outcome]

\* risk_level of the review of a workflow: the risk of the last result,
\* task_runs[-1].
ReviewRisk == RiskOf(lastStatus)
-----------------------------------------------------------------------------
\* start_workflow_execution: pending, then running, before the first await.
StartWorkflow ==
  /\ wfPc = "idle"
  /\ wfPc' = "collect"
  /\ wfStatus' = "running"
  /\ UNCHANGED <<vars, template, batch, completed, stopped, lastStatus>>

\* asyncio.gather over the ready steps.
StartBatch ==
  /\ LoopHead
  /\ Ready # {}
  /\ batch' = Ready
  /\ wfPc' = "gather"
  /\ UNCHANGED <<vars, template, wfStatus, completed, stopped, lastStatus>>

\* Steps remain and none is ready: "no dependency-ready steps".
HaltWorkflow ==
  /\ LoopHead
  /\ Remaining # {}
  /\ Ready = {}
  /\ Fail
  /\ UNCHANGED <<runVars, template, batch, completed, stopped, lastStatus>>

\* Mutant of GatherDone: gather without return_exceptions, which hands over
\* as soon as one step has raised.
GatherFirstException ==
  /\ wfPc = "gather"
  /\ \/ \A s \in batch : pc[s] \in Ended
     \/ \E s \in batch : pc[s] = "raised"
  /\ wfPc' = "collect"
  /\ UNCHANGED <<vars, template, wfStatus, batch, completed, stopped, lastStatus>>

\* Mutant of GatherDone: a step that raised is waited for again.
GatherAllReturned ==
  /\ wfPc = "gather"
  /\ \A s \in batch : pc[s] = "returned"
  /\ wfPc' = "collect"
  /\ UNCHANGED <<vars, template, wfStatus, batch, completed, stopped, lastStatus>>

\* gather(return_exceptions=True) waits for every step, raised or not.
GatherDone ==
  /\ wfPc = "gather"
  /\ \A s \in batch : pc[s] \in Ended
  /\ wfPc' = "collect"
  /\ UNCHANGED <<vars, template, wfStatus, batch, completed, stopped, lastStatus>>

\* Mutant of CollectResult: stop_triggered is reset by the next result.
CollectForgettingStop(s) ==
  /\ NextResult(s)
  /\ pc[s] = "returned"
  /\ completed' = completed \cup {s}
  /\ batch' = batch \ {s}
  /\ lastStatus' = status[s]
  /\ stopped' = IF status[s] \in template.stop THEN status[s] ELSE "none"
  /\ wfStatus' = "running"
  /\ UNCHANGED <<vars, template, wfPc>>

\* A task result: transition_workflow_execution, and the stop rule.  A later
\* result of the batch that also stops replaces the terminal status.
CollectResult(s) ==
  /\ NextResult(s)
  /\ pc[s] = "returned"
  /\ completed' = completed \cup {s}
  /\ batch' = batch \ {s}
  /\ lastStatus' = status[s]
  /\ stopped' = IF status[s] \in template.stop THEN status[s] ELSE stopped
  /\ wfStatus' = "running"
  /\ UNCHANGED <<vars, template, wfPc>>

\* An exception: the execution fails at once; the results that follow in the
\* batch are dropped although their tasks have ended.
CollectException(s) ==
  /\ NextResult(s)
  /\ pc[s] = "raised"
  /\ Fail
  /\ UNCHANGED <<runVars, template, batch, completed, stopped, lastStatus>>

\* The batch is processed and one of its results was in stop_on_statuses.
StopWorkflow ==
  /\ wfPc = "collect"
  /\ batch = {}
  /\ stopped # "none"
  /\ Conclude(stopped)
  /\ UNCHANGED <<runVars, template, batch, completed, stopped, lastStatus>>

\* Nothing remains: the status of the last result is the final status.
CompleteWorkflow ==
  /\ LoopHead
  /\ Remaining = {}
  /\ Conclude(lastStatus)
  /\ UNCHANGED <<runVars, template, batch, completed, stopped, lastStatus>>

\* Mutant of PublishWorkflowReview: an undelivered review is queued again.
PublishWorkflowReviewAgain ==
  /\ wfPc = "review"
  /\ \/ wfPc' = "returned" /\ UNCHANGED reviews
     \/ wfPc' = "raised" /\ Enqueue(Workflow, wfStatus)
  /\ UNCHANGED <<runVars, template, wfStatus, batch, completed, stopped, lastStatus>>

\* _publish_review_item; the execution is terminal in the registry even if
\* the request ends in an exception because nobody could be told.
PublishWorkflowReview ==
  /\ wfPc = "review"
  /\ wfPc' \in Ended
  /\ UNCHANGED <<vars, template, wfStatus, batch, completed, stopped, lastStatus>>
-----------------------------------------------------------------------------
WorkflowProgress ==
  \/ StartBatch
  \/ HaltWorkflow
  \/ GatherDone
  \/ \E s \in Steps : CollectResult(s) \/ CollectException(s)
  \/ StopWorkflow
  \/ CompleteWorkflow
  \/ PublishWorkflowReview

\* A step of the present batch is requested by gather; other executions by
\* their own clients.
StepStarts(s) == wfPc = "gather" /\ s \in batch /\ Request(s) /\ UNCHANGED wfVars

OtherStarts(r) == r \notin Steps /\ Request(r) /\ UNCHANGED wfVars

RunProgress(r) == Progress(r) /\ UNCHANGED wfVars

WfNext ==
  \/ StartWorkflow
  \/ WorkflowProgress
  \/ \E r \in Runs : StepStarts(r) \/ OtherStarts(r) \/ RunProgress(r)

\* As in GovernedRun: every coroutine the event loop holds is run again, and
\* gather schedules each step of its batch.
WfFairness ==
  /\ WF_allVars(WorkflowProgress)
  /\ \A r \in Runs : WF_allVars(StepStarts(r)) /\ WF_allVars(RunProgress(r))

WfSpec == WfInit /\ [][WfNext]_allVars /\ WfFairness
-----------------------------------------------------------------------------
WfEnded == wfPc \in Ended

\* Type invariant, of the workflow and of the executions under it.
WfTypeOK ==
  /\ RunTypeOK
  /\ QueueTypeOK(Runs \cup {Workflow})
  /\ template \in Templates
  /\ wfPc \in WfPCs
  /\ wfStatus \in Statuses
  /\ batch \subseteq Steps
  /\ completed \subseteq Steps
  /\ stopped \in Outcomes \cup {"none"}
  /\ lastStatus \in Outcomes

\* A step is under way only when everything it depends on has been recorded,
\* and a recorded step has returned: batches never run ahead of the graph.
DependencyOrder ==
  /\ \A s \in Steps : pc[s] # "idle" => template.deps[s] \subseteq completed
  /\ \A s \in completed : pc[s] = "returned" /\ status[s] \in Outcomes

\* Once a result in stop_on_statuses is recorded no further step starts.
NoStartAfterStop ==
  [][\A s \in Steps : pc[s] = "idle" /\ pc'[s] # "idle" =>
       \A d \in completed : status[d] \notin template.stop]_allVars

\* A failed execution has a step that raised, unless create_workflow would
\* have refused its template: with a validated template the engine never runs
\* out of ready steps.
FailureHasCause ==
  wfStatus = "failed" =>
    (\E s \in Steps : pc[s] = "raised") \/ ~ Validated(template.deps)

\* When the coroutine has ended, its record is final, no step is left running
\* behind it, and an execution that was not stopped and did not fail has
\* every step recorded, none with a status it should have stopped at.
EndIsConsistent ==
  WfEnded =>
    /\ wfStatus \in Terminal
    /\ \A s \in Steps : pc[s] \in Ended \cup {"idle"}
    /\ stopped = "none" /\ wfStatus # "failed" =>
         completed = Steps /\ \A s \in Steps : status[s] \notin template.stop

\* The queue holds at most one review of the execution, with its final status,
\* and none of its steps, whatever publications fail.  A failed execution has
\* none, however many of its steps were blocked or escalated before.
OneReviewPerWorkflow ==
  /\ \A i \in DOMAIN reviews :
       /\ reviews[i].run \notin Steps
       /\ reviews[i].run = Workflow =>
            reviews[i].trigger = wfStatus /\ wfStatus \in {"blocked", "escalated"}
  /\ \A i, j \in DOMAIN reviews :
       reviews[i].run = Workflow /\ reviews[j].run = Workflow => i = j

\* Under the default stop_on_statuses a step that was blocked or escalated puts
\* the execution into the review queue, unless the execution then fails: steps
\* have no review of their own, so that the workflow's must not be missing.
DefaultStop == template.stop = NeedsReview

StepsReachAnOperator ==
  /\ WfEnded /\ DefaultStop /\ wfStatus # "failed"
  /\ \E s \in Steps : status[s] \in NeedsReview
  => \/ \E i \in DOMAIN reviews : reviews[i].run = Workflow
     \/ Len(reviews) = ReviewLimit

\* orchestrator.py:607 titles the review of a workflow one of whose steps raised
\* "failed and requires operator review": it is in the queue when the workflow has
\* ended, or newer ones have pushed it out.
FailedWorkflowsAreReviewed ==
  /\ WfEnded /\ wfStatus = "failed"
  /\ Validated(template.deps)
  => \/ \E i \in DOMAIN reviews : reviews[i].run = Workflow
     \/ Len(reviews) = ReviewLimit

\* README.md:141 limits an operator to reviews of low and medium risk: the
\* review of a stopped workflow carries the risk of the status it stopped with.
StopKeepsItsRisk ==
  /\ wfStatus \in {"blocked", "escalated"}
  /\ \E i \in DOMAIN reviews : reviews[i].run = Workflow
  => ReviewRisk = RiskOf(wfStatus)

\* A started execution comes to an end.
WorkflowEnds == wfPc = "collect" ~> WfEnded

\* The execution as WorkflowPromise sees it.
Phase ==
  IF wfPc = "idle" THEN "idle"
  ELSE IF wfPc \in {"gather", "collect"}
       THEN IF stopped = "none" THEN "open" ELSE "closing"
  ELSE IF wfStatus = "failed" THEN "failed"
  ELSE IF stopped = "none" THEN "completed" ELSE "stopped"

Launched == {s \in Steps : pc[s] # "idle"}

Promise == INSTANCE WorkflowPromise
             WITH needs <- template.deps, phase <- Phase,
                  launched <- Launched, recorded <- completed

\* The engine implements the promise.
ImplementsPromise == Promise!Spec
=============================================================================
