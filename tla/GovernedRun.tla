---------------------------- MODULE GovernedRun ----------------------------
(***************************************************************************)
(* One governed execution in the kernel: KernelOrchestrator.run_agent and  *)
(* run_task, with the pipeline they drive (run_pipeline), the execution    *)
(* record the registry keeps and the review item it queues.  Any number of *)
(* executions are in flight at once; they are coroutines of one event loop *)
(* and interleave at every await.  An action is the code between two       *)
(* awaits whose outcome matters.  Awaits that can neither raise nor change *)
(* state (_persist_registry and _publish_bus_event swallow every           *)
(* exception) are not steps; what the store receives is not modelled here. *)
(***************************************************************************)
EXTENDS Naturals, Sequences

CONSTANTS
  Runs,         \* the executions that may be requested
  Kind,         \* how each is requested, see Kinds
  Dangling,     \* task executions whose task or agent is not in the registry
  ReviewLimit   \* REVIEW_QUEUE_LIMIT, the length of the review deque

\* "agent": POST agents/{id}/runs;  "task": POST tasks/{id}/runs;
\* "step": run_task called by a workflow, with queue_review=False.
Kinds == {"agent", "task", "step"}

ASSUME KindAssumption == Kind \in [Runs -> Kinds]
ASSUME DanglingAssumption == \A r \in Dangling : r \in Runs /\ Kind[r] # "agent"
ASSUME ReviewLimitAssumption == ReviewLimit \in Nat \ {0}

VARIABLES
  pc,          \* where each coroutine is
  status,      \* TaskExecutionRecord.status ("absent": no record)
  decision,    \* governance_decision["action_taken"] ("none": not evaluated)
  dispatched,  \* executions whose action reached the action service
  agentRun,    \* AgentRunResult.status kept by record_run ("absent": none)
  reviews      \* registry._review_queue, newest first

runVars == <<pc, status, decision, dispatched, agentRun>>
vars == <<pc, status, decision, dispatched, agentRun, reviews>>

Decisions == {"ALLOW", "MONITOR", "BLOCK", "ESCALATE"}
Outcomes == {"completed", "monitored", "blocked", "escalated"}
Terminal == Outcomes \cup {"failed"}
Statuses == Terminal \cup {"absent", "running"}
PCs == {"idle", "perceive", "evaluate", "dispatch", "publish", "complete",
        "review", "except", "reviewFailure", "returned", "raised"}
Ended == {"returned", "raised"}

\* status_from_governance and task_status_from_governance: the same table.
StatusOf(d) ==
  [ALLOW |-> "completed", MONITOR |-> "monitored",
   BLOCK |-> "blocked", ESCALATE |-> "escalated"][d]

\* _should_queue_review
NeedsReview == {"blocked", "escalated", "failed"}

ReviewsOf(Sources) == [run : Sources, trigger : NeedsReview]

\* Mutant of Enqueue: a deque built without maxlen.
EnqueueUnbounded(run, trigger) ==
  reviews' = <<[run |-> run, trigger |-> trigger]>> \o reviews

\* registry.queue_review: appendleft on a deque with maxlen, so that a full
\* queue drops its oldest item, resolved or not.
Enqueue(run, trigger) ==
  LET longer == <<[run |-> run, trigger |-> trigger]>> \o reviews
  IN  reviews' = SubSeq(longer, 1, IF Len(longer) < ReviewLimit
                                   THEN Len(longer) ELSE ReviewLimit)

Goto(r, label) == pc' = [pc EXCEPT ![r] = label]

Init ==
  /\ pc = [r \in Runs |-> "idle"]
  /\ status = [r \in Runs |-> "absent"]
  /\ decision = [r \in Runs |-> "none"]
  /\ dispatched = {}
  /\ agentRun = [r \in Runs |-> "absent"]
  /\ reviews = <<>>
-----------------------------------------------------------------------------
\* The call up to its first await.  start_task_execution creates the record
\* as pending and moves it to running with no await in between.
Start(r) ==
  /\ pc[r] = "idle"
  /\ r \notin Dangling
  /\ Goto(r, "perceive")
  /\ status' = IF Kind[r] = "agent" THEN status
               ELSE [status EXCEPT ![r] = "running"]
  /\ UNCHANGED <<decision, dispatched, agentRun, reviews>>

\* execute_step and run_task raise before any record exists when the task or
\* its agent is unknown.
LookupFails(r) ==
  /\ pc[r] = "idle"
  /\ r \in Dangling
  /\ Goto(r, "raised")
  /\ UNCHANGED <<status, decision, dispatched, agentRun, reviews>>

\* run_pipeline up to the governance call: register streams, emit packets,
\* wait for fusion, fuse, store the memory node, reason.
Perceive(r) ==
  /\ pc[r] = "perceive"
  /\ Goto(r, "evaluate")
  /\ UNCHANGED <<status, decision, dispatched, agentRun, reviews>>

\* Mutant of Evaluate: a MONITOR decision dispatches as well.
EvaluateIgnoringMonitor(r, d) ==
  /\ pc[r] = "evaluate"
  /\ decision' = [decision EXCEPT ![r] = d]
  /\ Goto(r, IF d \in {"ALLOW", "MONITOR"} THEN "dispatch" ELSE "publish")
  /\ UNCHANGED <<status, dispatched, agentRun, reviews>>

\* run_pipeline asks governance; only ALLOW goes on to the action service.
Evaluate(r, d) ==
  /\ pc[r] = "evaluate"
  /\ decision' = [decision EXCEPT ![r] = d]
  /\ Goto(r, IF d = "ALLOW" THEN "dispatch" ELSE "publish")
  /\ UNCHANGED <<status, dispatched, agentRun, reviews>>

\* clients.dispatch_action answered.
Dispatch(r) ==
  /\ pc[r] = "dispatch"
  /\ dispatched' = dispatched \cup {r}
  /\ Goto(r, "publish")
  /\ UNCHANGED <<status, decision, agentRun, reviews>>

\* Mutant of Raise: the pipeline is retried for ever.
RaiseRetrying(r) == Goto(r, "perceive")

\* Where an exception of the pipeline surfaces: run_agent has no handler,
\* run_task catches it.
Raise(r) == Goto(r, IF Kind[r] = "agent" THEN "raised" ELSE "except")

\* A client call of the pipeline raises (connection, HTTP status, timeout).
\* At the last stage it is _publish_pipeline_state, when the realtime service
\* refuses the fallback publication too.
PipelineRaises(r) ==
  /\ pc[r] \in {"perceive", "evaluate", "dispatch", "publish"}
  /\ Raise(r)
  /\ UNCHANGED <<status, decision, dispatched, agentRun, reviews>>

\* dispatch_action raises although the action service received the action:
\* its answer was lost or came after the client's timeout.
DispatchAnswerLost(r) ==
  /\ pc[r] = "dispatch"
  /\ dispatched' = dispatched \cup {r}
  /\ Raise(r)
  /\ UNCHANGED <<status, decision, agentRun, reviews>>

\* The rest of run_agent: record_run, and for a run of its own the review.
FinishPipeline(r) ==
  LET outcome == StatusOf(decision[r])
  IN  /\ pc[r] = "publish"
      /\ agentRun' = [agentRun EXCEPT ![r] = outcome]
      /\ IF Kind[r] # "agent"
         THEN Goto(r, "complete") /\ UNCHANGED reviews
         ELSE IF outcome \in NeedsReview
              THEN Goto(r, "review") /\ Enqueue(r, outcome)
              ELSE Goto(r, "returned") /\ UNCHANGED reviews
      /\ UNCHANGED <<status, decision, dispatched>>

\* Mutant of CompleteTask: the outcome is not written to the record.
CompleteTaskUnrecorded(r) ==
  /\ pc[r] = "complete"
  /\ Goto(r, "returned")
  /\ UNCHANGED <<status, decision, dispatched, agentRun, reviews>>

\* Mutant of CompleteTask: the review is forgotten.
CompleteTaskQuietly(r) ==
  /\ pc[r] = "complete"
  /\ status' = [status EXCEPT ![r] = StatusOf(decision[r])]
  /\ Goto(r, "returned")
  /\ UNCHANGED <<decision, dispatched, agentRun, reviews>>

\* Mutant of CompleteTask: a step of a workflow queues a review as well.
CompleteTaskForAnyCaller(r) ==
  LET outcome == StatusOf(decision[r])
  IN  /\ pc[r] = "complete"
      /\ status' = [status EXCEPT ![r] = outcome]
      /\ IF outcome \in NeedsReview
         THEN Goto(r, "review") /\ Enqueue(r, outcome)
         ELSE Goto(r, "returned") /\ UNCHANGED reviews
      /\ UNCHANGED <<decision, dispatched, agentRun>>

\* run_task after run_agent returned: complete_task_execution and, unless a
\* workflow called it, queue_review.
CompleteTask(r) ==
  LET outcome == StatusOf(decision[r])
  IN  /\ pc[r] = "complete"
      /\ status' = [status EXCEPT ![r] = outcome]
      /\ IF Kind[r] = "task" /\ outcome \in NeedsReview
         THEN Goto(r, "review") /\ Enqueue(r, outcome)
         ELSE Goto(r, "returned") /\ UNCHANGED reviews
      /\ UNCHANGED <<decision, dispatched, agentRun>>

\* _publish_review_item succeeds; persist, bus event and return follow.
PublishReview(r) ==
  /\ pc[r] = "review"
  /\ Goto(r, "returned")
  /\ UNCHANGED <<status, decision, dispatched, agentRun, reviews>>

\* Mutant of PublishReviewRaises: the lost publication queues the review anew.
PublishReviewAnew(r) ==
  /\ pc[r] = "review"
  /\ Enqueue(r, StatusOf(decision[r]))
  /\ UNCHANGED <<pc, status, decision, dispatched, agentRun>>

\* _publish_review_item raises: its fallback call to the realtime service,
\* made in the except branch, failed as well.  In run_task this lands in the
\* handler that fails the task, whose status is terminal already.
PublishReviewRaises(r) ==
  /\ pc[r] = "review"
  /\ Raise(r)
  /\ UNCHANGED <<status, decision, dispatched, agentRun, reviews>>

\* Mutant of FailTask: the failure is recorded but not put up for review.
FailTaskWithoutReview(r) ==
  /\ pc[r] = "except"
  /\ status' = [status EXCEPT ![r] = "failed"]
  /\ Goto(r, "raised")
  /\ UNCHANGED <<decision, dispatched, agentRun, reviews>>

\* The except branch of run_task up to its first await.
FailTask(r) ==
  /\ pc[r] = "except"
  /\ status' = [status EXCEPT ![r] = "failed"]
  /\ IF Kind[r] = "task"
     THEN Goto(r, "reviewFailure") /\ Enqueue(r, "failed")
     ELSE Goto(r, "raised") /\ UNCHANGED reviews
  /\ UNCHANGED <<decision, dispatched, agentRun>>

\* The failure review is published, or that raises too: run_task raises
\* either way, the original exception or the new one.
PublishFailureReview(r) ==
  /\ pc[r] = "reviewFailure"
  /\ Goto(r, "raised")
  /\ UNCHANGED <<status, decision, dispatched, agentRun, reviews>>
-----------------------------------------------------------------------------
\* A request is accepted; it may also never come.
Request(r) == Start(r) \/ LookupFails(r)

\* What an accepted execution does of its own accord.
Progress(r) ==
  \/ Perceive(r)
  \/ \E d \in Decisions : Evaluate(r, d)
  \/ Dispatch(r)
  \/ PipelineRaises(r)
  \/ DispatchAnswerLost(r)
  \/ FinishPipeline(r)
  \/ CompleteTask(r)
  \/ PublishReview(r)
  \/ PublishReviewRaises(r)
  \/ FailTask(r)
  \/ PublishFailureReview(r)

Next == \E r \in Runs : Request(r) \/ Progress(r)

\* The event loop runs every coroutine that is ready, and every client call
\* has a timeout (httpx.Timeout in clients.py), so that no await hangs.
Fairness == \A r \in Runs : WF_vars(Progress(r))

Spec == Init /\ [][Next]_vars /\ Fairness
-----------------------------------------------------------------------------
RunTypeOK ==
  /\ pc \in [Runs -> PCs]
  /\ status \in [Runs -> Statuses]
  /\ decision \in [Runs -> Decisions \cup {"none"}]
  /\ dispatched \subseteq Runs
  /\ agentRun \in [Runs -> Outcomes \cup {"absent"}]

QueueTypeOK(Sources) ==
  /\ reviews \in Seq(ReviewsOf(Sources))
  /\ Len(reviews) <= ReviewLimit

\* Type invariant.  The review queue never outgrows its limit.
TypeOK == RunTypeOK /\ QueueTypeOK(Runs)

\* ADR 0002: no external action without an ALLOW, whatever fails afterwards,
\* and no record that says the run was stopped for one that acted.
DispatchOnlyAllowed ==
  \A r \in dispatched :
    /\ decision[r] = "ALLOW"
    /\ status[r] \in {"absent", "running", "completed", "failed"}
    /\ agentRun[r] \in {"absent", "completed"}

\* What the operator should see of a run: the outcome its record carries.
RecordedOutcome(r) == IF Kind[r] = "agent" THEN agentRun[r] ELSE status[r]

\* A run of its own that has come to a halt with an outcome for an operator
\* is in the review queue, unless newer items filled the queue.
StoppedRunsAreQueued ==
  \A r \in Runs :
    /\ pc[r] \in Ended
    /\ Kind[r] # "step"
    /\ RecordedOutcome(r) \in NeedsReview
    => \/ \E i \in DOMAIN reviews : reviews[i].run = r
       \/ Len(reviews) = ReviewLimit

\* The newest review of a run tells the outcome its record tells, also when a
\* lost publication turned a blocked task into a failed one.  A step of a
\* workflow has no review of its own.
NewestReviewMatchesRecord ==
  \A i \in DOMAIN reviews :
    LET r == reviews[i].run
    IN  (\A j \in 1 .. i - 1 : reviews[j].run # r) =>
          /\ Kind[r] # "step"
          /\ reviews[i].trigger = RecordedOutcome(r)

\* At most two reviews per run, and two only for a blocked or escalated task
\* whose first review could not be published.
SecondReviewOnlyAfterLostPublication ==
  \A i, j \in DOMAIN reviews :
    i < j /\ reviews[i].run = reviews[j].run =>
      LET r == reviews[i].run
      IN  /\ Kind[r] = "task"
          /\ reviews[i].trigger = "failed"
          /\ reviews[j].trigger = StatusOf(decision[r])
          /\ status[r] = "failed"

\* The status of a finished task changes only from blocked or escalated to
\* failed, and never for a step of a workflow, whose engine has read it.
FinalStatusStable ==
  [][\A r \in Runs :
       status[r] \in Terminal /\ status'[r] # status[r] =>
         /\ Kind[r] = "task"
         /\ status[r] \in {"blocked", "escalated"}
         /\ status'[r] = "failed"]_vars

\* Every accepted execution returns or raises.
EveryRunEnds == \A r \in Runs : pc[r] # "idle" ~> pc[r] \in Ended
=============================================================================
