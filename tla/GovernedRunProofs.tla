------------------------- MODULE GovernedRunProofs -------------------------
(***************************************************************************)
(* Proofs about GovernedRun, for every set of executions and every length  *)
(* of the review queue.                                                    *)
(***************************************************************************)
EXTENDS GovernedRun, SequenceTheorems, TLAPS

\* Where each execution stands, for every value of its program counter: the
\* part of the inductive invariant that TypeOK does not say.
Early == {"idle", "perceive", "evaluate", "dispatch", "publish"}

Control(r) ==
  /\ pc[r] \in Early => status[r] \in {"absent", "running"} /\ agentRun[r] = "absent"
  /\ pc[r] \in Early \ {"idle"} /\ Kind[r] # "agent" => status[r] = "running"
  /\ pc[r] \in {"idle", "perceive", "evaluate"} => r \notin dispatched
  /\ pc[r] = "dispatch" => decision[r] = "ALLOW"
  /\ pc[r] \in {"publish", "complete", "review"} => decision[r] \in Decisions
  /\ pc[r] = "complete" => Kind[r] # "agent" /\ status[r] = "running"
  /\ pc[r] = "review" => /\ RecordedOutcome(r) \in {"blocked", "escalated"}
                         /\ RecordedOutcome(r) = StatusOf(decision[r])
                         /\ Kind[r] # "step"
  /\ pc[r] = "except" =>
       \/ Kind[r] # "agent" /\ status[r] = "running"
       \/ Kind[r] = "task" /\ status[r] \in {"blocked", "escalated"}
  /\ pc[r] = "returned" /\ Kind[r] # "agent" => status[r] \in Outcomes

IInv == TypeOK /\ DispatchOnlyAllowed /\ \A r \in Runs : Control(r)

\* What queue_review does to the queue, item by item: the new item comes
\* first, the others move up by one, and the limit is kept.
LEMMA EnqueueShape ==
  ASSUME NEW Sources, reviews \in Seq(ReviewsOf(Sources)), Len(reviews) <= ReviewLimit,
         NEW run \in Sources, NEW trigger \in NeedsReview,
         Enqueue(run, trigger)
  PROVE  /\ reviews' \in Seq(ReviewsOf(Sources))
         /\ Len(reviews') \in 1 .. ReviewLimit
         /\ Len(reviews') = Len(reviews) + 1 \/ Len(reviews') = ReviewLimit
         /\ Len(reviews') <= Len(reviews) + 1
         /\ reviews'[1] = [run |-> run, trigger |-> trigger]
         /\ \A i \in 2 .. Len(reviews') : reviews'[i] = reviews[i - 1]
<1> DEFINE new == [run |-> run, trigger |-> trigger]
           longer == <<new>> \o reviews
           kept == IF Len(longer) < ReviewLimit THEN Len(longer) ELSE ReviewLimit
<1>1. new \in ReviewsOf(Sources)
  BY DEF ReviewsOf
<1>2. /\ longer \in Seq(ReviewsOf(Sources))
      /\ Len(longer) = Len(reviews) + 1
      /\ longer[1] = new
      /\ \A i \in 2 .. Len(longer) : longer[i] = reviews[i - 1]
  BY <1>1
<1>3. /\ kept \in 1 .. Len(longer)
      /\ kept <= ReviewLimit
      /\ kept = Len(reviews) + 1 \/ kept = ReviewLimit
  BY <1>2, ReviewLimitAssumption
<1>4. reviews' = SubSeq(longer, 1, kept)
  BY DEF Enqueue
<1>5. /\ reviews' \in Seq(ReviewsOf(Sources))
      /\ Len(reviews') = kept
      /\ \A i \in 1 .. kept : reviews'[i] = longer[i]
  BY <1>2, <1>3, <1>4, SubSeqProperties
<1> QED
  BY <1>2, <1>3, <1>5

\* The only execution a step moves is its own, and it queues a review only
\* for itself, never for a step of a workflow.
LEMMA OwnStepOnly ==
  ASSUME RunTypeOK, NEW r \in Runs, Request(r) \/ Progress(r)
  PROVE  /\ \A o \in Runs \ {r} : /\ pc'[o] = pc[o]
                                  /\ status'[o] = status[o]
                                  /\ decision'[o] = decision[o]
                                  /\ agentRun'[o] = agentRun[o]
                                  /\ o \in dispatched' <=> o \in dispatched
         /\ \/ UNCHANGED reviews
            \/ Kind[r] # "step" /\ \E t \in NeedsReview : Enqueue(r, t)
BY DEF RunTypeOK, Request, Progress, Start, LookupFails, Perceive, Evaluate,
       Dispatch, PipelineRaises, DispatchAnswerLost, FinishPipeline,
       CompleteTask, PublishReview, PublishReviewRaises, FailTask,
       PublishFailureReview, Goto, Raise, NeedsReview

LEMMA InitIInv == Init => IInv
BY ReviewLimitAssumption
   DEF Init, IInv, TypeOK, RunTypeOK, QueueTypeOK, PCs, Statuses, Decisions,
       Outcomes, Terminal, DispatchOnlyAllowed, Control, Early

LEMMA StatusRange ==
  \A d \in Decisions : /\ StatusOf(d) \in Outcomes
                       /\ StatusOf(d) # "failed"
                       /\ StatusOf(d) = "completed" <=> d = "ALLOW"
BY DEF StatusOf, Decisions, Outcomes

\* A coroutine that has returned or raised does nothing more, and a request
\* is taken up once.
LEMMA EndedIsFinal ==
  ASSUME NEW r \in Runs, Request(r) \/ Progress(r)
  PROVE  /\ pc[r] \notin Ended
         /\ Request(r) => pc[r] = "idle"
         /\ Progress(r) => pc[r] # "idle"
BY DEF Ended, Request, Progress, Start, LookupFails, Perceive, Evaluate,
       Dispatch, PipelineRaises, DispatchAnswerLost, FinishPipeline,
       CompleteTask, PublishReview, PublishReviewRaises, FailTask,
       PublishFailureReview

LEMMA NeverIdleAgain ==
  ASSUME RunTypeOK, NEW r \in Runs, Request(r) \/ Progress(r)
  PROVE  pc'[r] # "idle"
BY DEF RunTypeOK, Request, Progress, Start, LookupFails, Perceive, Evaluate,
       Dispatch, PipelineRaises, DispatchAnswerLost, FinishPipeline,
       CompleteTask, PublishReview, PublishReviewRaises, FailTask,
       PublishFailureReview, Goto, Raise

\* A step keeps the types of the execution it moves.
LEMMA StepType ==
  ASSUME RunTypeOK, NEW r \in Runs, Control(r), Request(r) \/ Progress(r)
  PROVE  RunTypeOK'
<1> USE DEF Control, RunTypeOK, PCs, Statuses, Decisions, Outcomes, Terminal, Goto
<1>1. CASE Start(r) BY <1>1 DEF Start
<1>2. CASE LookupFails(r) BY <1>2 DEF LookupFails
<1>3. CASE Perceive(r) BY <1>3 DEF Perceive
<1>4. ASSUME NEW d \in Decisions, Evaluate(r, d) PROVE RunTypeOK'
  BY <1>4 DEF Evaluate
<1>5. CASE Dispatch(r) BY <1>5 DEF Dispatch
<1>6. CASE PipelineRaises(r) BY <1>6 DEF PipelineRaises, Raise
<1>7. CASE DispatchAnswerLost(r) BY <1>7 DEF DispatchAnswerLost, Raise
<1>8. CASE FinishPipeline(r) BY <1>8, StatusRange DEF FinishPipeline
<1>9. CASE CompleteTask(r) BY <1>9, StatusRange DEF CompleteTask
<1>10. CASE PublishReview(r) BY <1>10 DEF PublishReview
<1>11. CASE PublishReviewRaises(r) BY <1>11 DEF PublishReviewRaises, Raise
<1>12. CASE FailTask(r) BY <1>12 DEF FailTask
<1>13. CASE PublishFailureReview(r) BY <1>13 DEF PublishFailureReview
<1> QED
  BY <1>1, <1>2, <1>3, <1>4, <1>5, <1>6, <1>7, <1>8, <1>9, <1>10, <1>11,
     <1>12, <1>13 DEF Request, Progress

\* A step keeps the control invariant of the execution it moves.
LEMMA StepControl ==
  ASSUME RunTypeOK, NEW r \in Runs, Control(r), Request(r) \/ Progress(r)
  PROVE  Control(r)'
<1> USE KindAssumption, DanglingAssumption
    DEF RunTypeOK, PCs, Decisions, Outcomes, Early, Control, RecordedOutcome,
        Kinds, Goto
<1>1. CASE Start(r) BY <1>1 DEF Start
<1>2. CASE LookupFails(r) BY <1>2 DEF LookupFails
<1>3. CASE Perceive(r) BY <1>3 DEF Perceive
<1>4. ASSUME NEW d \in Decisions, Evaluate(r, d) PROVE Control(r)'
  BY <1>4 DEF Evaluate
<1>5. CASE Dispatch(r) BY <1>5 DEF Dispatch
<1>6. CASE PipelineRaises(r) BY <1>6 DEF PipelineRaises, Raise
<1>7. CASE DispatchAnswerLost(r) BY <1>7 DEF DispatchAnswerLost, Raise
<1>8. CASE FinishPipeline(r) BY <1>8 DEF FinishPipeline, StatusOf,
                                          NeedsReview
<1>9. CASE CompleteTask(r) BY <1>9 DEF CompleteTask, StatusOf, NeedsReview
<1>10. CASE PublishReview(r) BY <1>10 DEF PublishReview
<1>11. CASE PublishReviewRaises(r) BY <1>11 DEF PublishReviewRaises, Raise
<1>12. CASE FailTask(r) BY <1>12 DEF FailTask
<1>13. CASE PublishFailureReview(r) BY <1>13 DEF PublishFailureReview
<1> QED
  BY <1>1, <1>2, <1>3, <1>4, <1>5, <1>6, <1>7, <1>8, <1>9, <1>10, <1>11,
     <1>12, <1>13 DEF Request, Progress

\* A dispatched action had an ALLOW and its run never says otherwise.
LEMMA StepDispatch ==
  ASSUME RunTypeOK, NEW r \in Runs, Control(r), DispatchOnlyAllowed,
         Request(r) \/ Progress(r)
  PROVE  DispatchOnlyAllowed'
<1> SUFFICES ASSUME NEW o \in dispatched'
             PROVE  /\ decision'[o] = "ALLOW"
                    /\ status'[o] \in {"absent", "running", "completed", "failed"}
                    /\ agentRun'[o] \in {"absent", "completed"}
  BY DEF DispatchOnlyAllowed
<1>1. o \in Runs
  BY StepType DEF RunTypeOK
<1>2. CASE o # r
  BY <1>1, <1>2, OwnStepOnly DEF DispatchOnlyAllowed
<1>3. CASE o = r
  <2> USE <1>3 DEF DispatchOnlyAllowed, RunTypeOK, Control, Early, Goto
  <2>1. CASE Start(r) BY <2>1 DEF Start
  <2>2. CASE LookupFails(r) BY <2>2 DEF LookupFails
  <2>3. CASE Perceive(r) BY <2>3 DEF Perceive
  <2>4. ASSUME NEW d \in Decisions, Evaluate(r, d) PROVE FALSE
    BY <2>4 DEF Evaluate
  <2>5. CASE Dispatch(r) BY <2>5 DEF Dispatch
  <2>6. CASE PipelineRaises(r) BY <2>6 DEF PipelineRaises
  <2>7. CASE DispatchAnswerLost(r) BY <2>7 DEF DispatchAnswerLost
  <2>8. CASE FinishPipeline(r) BY <2>8, StatusRange DEF FinishPipeline, Outcomes
  <2>9. CASE CompleteTask(r) BY <2>9, StatusRange DEF CompleteTask, Outcomes
  <2>10. CASE PublishReview(r) BY <2>10 DEF PublishReview
  <2>11. CASE PublishReviewRaises(r) BY <2>11 DEF PublishReviewRaises
  <2>12. CASE FailTask(r) BY <2>12 DEF FailTask
  <2>13. CASE PublishFailureReview(r) BY <2>13 DEF PublishFailureReview
  <2> QED
    BY <2>1, <2>2, <2>3, <2>4, <2>5, <2>6, <2>7, <2>8, <2>9, <2>10, <2>11,
       <2>12, <2>13 DEF Request, Progress
<1> QED
  BY <1>2, <1>3

\* The review queue keeps its type and its limit.
LEMMA StepQueue ==
  ASSUME NEW Sources, Runs \subseteq Sources, QueueTypeOK(Sources),
         RunTypeOK, NEW r \in Runs, Request(r) \/ Progress(r)
  PROVE  QueueTypeOK(Sources)'
<1>1. CASE UNCHANGED reviews
  BY <1>1 DEF QueueTypeOK
<1>2. ASSUME NEW t \in NeedsReview, Enqueue(r, t) PROVE QueueTypeOK(Sources)'
  <2>1. r \in Sources /\ reviews \in Seq(ReviewsOf(Sources)) /\ Len(reviews) <= ReviewLimit
    BY DEF QueueTypeOK
  <2>2. reviews' \in Seq(ReviewsOf(Sources)) /\ Len(reviews') \in 1 .. ReviewLimit
    BY <1>2, <2>1, EnqueueShape
  <2> QED
    BY <2>2, ReviewLimitAssumption DEF QueueTypeOK
<1>3. UNCHANGED reviews \/ \E t \in NeedsReview : Enqueue(r, t)
  BY OwnStepOnly
<1> QED
  BY <1>1, <1>2, <1>3

LEMMA NextIInv == IInv /\ [Next]_vars => IInv'
<1> SUFFICES ASSUME IInv, [Next]_vars PROVE IInv'
  OBVIOUS
<1>1. CASE UNCHANGED vars
  BY <1>1 DEF vars, IInv, TypeOK, RunTypeOK, QueueTypeOK, DispatchOnlyAllowed,
              Control, RecordedOutcome
<1>2. ASSUME NEW r \in Runs, Request(r) \/ Progress(r) PROVE IInv'
  <2> USE <1>2 DEF IInv, TypeOK
  <2>1. RunTypeOK'
    BY StepType
  <2>2. QueueTypeOK(Runs)'
    BY StepQueue
  <2>3. DispatchOnlyAllowed'
    BY StepDispatch
  <2>4. ASSUME NEW o \in Runs PROVE Control(o)'
    <3>1. CASE o = r
      BY <3>1, StepControl
    <3>2. CASE o # r
      BY <3>2, OwnStepOnly DEF Control, RecordedOutcome
    <3> QED
      BY <3>1, <3>2
  <2> QED
    BY <2>1, <2>2, <2>3, <2>4
<1> QED
  BY <1>1, <1>2 DEF Next

THEOREM Invariance == Spec => []IInv
BY InitIInv, NextIInv, PTL DEF Spec

\* Every variable keeps its type; in particular the review queue never
\* exceeds REVIEW_QUEUE_LIMIT.
THEOREM TypeCorrect == Spec => []TypeOK
<1>1. IInv => TypeOK
  BY DEF IInv
<1> QED
  BY <1>1, Invariance, PTL

\* ADR 0002: governance precedes external action, through every failure.
THEOREM GovernanceFirst == Spec => []DispatchOnlyAllowed
<1>1. IInv => DispatchOnlyAllowed
  BY DEF IInv
<1> QED
  BY <1>1, Invariance, PTL

\* The only terminal status that is ever rewritten is that of a blocked or
\* escalated task whose review could not be published.
LEMMA StepStatus ==
  ASSUME RunTypeOK, NEW r \in Runs, Control(r), Request(r) \/ Progress(r),
         NEW o \in Runs, status[o] \in Terminal, status'[o] # status[o]
  PROVE  /\ Kind[o] = "task"
         /\ status[o] \in {"blocked", "escalated"}
         /\ status'[o] = "failed"
<1>1. o = r
  BY OwnStepOnly
<1>2. \/ Start(r) \/ CompleteTask(r) \/ FailTask(r)
  BY <1>1 DEF Request, Progress, LookupFails, Perceive, Evaluate, Dispatch,
              PipelineRaises, DispatchAnswerLost, FinishPipeline,
              PublishReview, PublishReviewRaises, PublishFailureReview
<1> USE <1>1 DEF RunTypeOK, Control, Early, Terminal, Outcomes
<1>3. CASE Start(r) BY <1>3 DEF Start
<1>4. CASE CompleteTask(r) BY <1>4 DEF CompleteTask
<1>5. CASE FailTask(r) BY <1>5 DEF FailTask
<1> QED
  BY <1>2, <1>3, <1>4, <1>5

THEOREM StatusStability == Spec => FinalStatusStable
<1> DEFINE Stable ==
      \A r \in Runs :
        status[r] \in Terminal /\ status'[r] # status[r] =>
          /\ Kind[r] = "task"
          /\ status[r] \in {"blocked", "escalated"}
          /\ status'[r] = "failed"
<1>1. IInv /\ [Next]_vars => [Stable]_vars
  <2> SUFFICES ASSUME IInv, Next PROVE Stable
    OBVIOUS
  <2>1. PICK r \in Runs : Request(r) \/ Progress(r)
    BY DEF Next
  <2> QED
    BY <2>1, StepStatus DEF IInv, TypeOK
<1> QED
  BY <1>1, Invariance, PTL DEF Spec, FinalStatusStable
-----------------------------------------------------------------------------
\* What the review queue tells of the executions.

\* Where an execution stands that has an item in the queue, and what the item
\* can tell of it: a task may have been blocked or escalated first and failed
\* afterwards.
Told(x) ==
  LET r == x.run
  IN  \/ /\ Kind[r] = "agent"
         /\ x.trigger = agentRun[r]
         /\ pc[r] \in {"review"} \cup Ended
      \/ /\ Kind[r] = "task" /\ x.trigger # "failed"
         /\ x.trigger = StatusOf(decision[r])
         /\ status[r] \in {x.trigger, "failed"}
         /\ pc[r] \in {"review", "except", "reviewFailure"} \cup Ended
      \/ /\ Kind[r] = "task" /\ x.trigger = "failed"
         /\ status[r] = "failed"
         /\ pc[r] \in {"reviewFailure"} \cup Ended

Items == 1 .. Len(reviews)

\* Two items of one execution are a failure in front of what it was before.
FailureInFront ==
  \A i, j \in Items :
    i < j /\ reviews[i].run = reviews[j].run =>
      /\ Kind[reviews[i].run] = "task"
      /\ reviews[i].trigger = "failed"
      /\ reviews[j].trigger # "failed"

\* An item that is no longer true stands behind the one that is: the queue
\* forgets from the other end.
OutdatedIsBehind ==
  \A i \in Items :
    /\ Kind[reviews[i].run] = "task"
    /\ status[reviews[i].run] = "failed"
    /\ reviews[i].trigger # "failed"
    => \E j \in Items :
         j < i /\ reviews[j].run = reviews[i].run /\ reviews[j].trigger = "failed"

Owed(r) == Kind[r] # "step" /\ RecordedOutcome(r) \in NeedsReview

NothingOwed ==
  \A r \in Runs :
    Owed(r) => \/ \E i \in Items : reviews[i].run = r
               \/ Len(reviews) = ReviewLimit

QueueOK ==
  /\ \A i \in Items : Told(reviews[i])
  /\ FailureInFront
  /\ OutdatedIsBehind
  /\ NothingOwed

\* What an item tells stays true of its execution whatever step is taken.
LEMMA ToldStays ==
  ASSUME RunTypeOK, NEW r \in Runs, Control(r), Request(r) \/ Progress(r),
         NEW x \in ReviewsOf(Runs), Told(x)
  PROVE  Told(x)'
<1>1. x.run \in Runs
  BY DEF ReviewsOf
<1>2. CASE x.run # r
  BY <1>1, <1>2, OwnStepOnly DEF Told
<1>3. CASE x.run = r
  <2>1. pc[r] \in {"review", "except", "reviewFailure"} /\ Kind[r] # "step"
    BY <1>3, EndedIsFinal DEF Told
  <2>2. PublishReview(r) \/ PublishReviewRaises(r) \/ FailTask(r) \/ PublishFailureReview(r)
    BY <2>1 DEF Request, Progress, Start, LookupFails, Perceive, Evaluate, Dispatch,
                PipelineRaises, DispatchAnswerLost, FinishPipeline, CompleteTask
  <2> USE <1>3 DEF RunTypeOK, Told, Ended, Goto
  <2>3. CASE PublishReview(r) BY <2>3 DEF PublishReview
  <2>4. CASE PublishReviewRaises(r) BY <2>4 DEF PublishReviewRaises, Raise
  <2>5. CASE FailTask(r) BY <2>5, <2>1 DEF FailTask
  <2>6. CASE PublishFailureReview(r) BY <2>6 DEF PublishFailureReview
  <2> QED
    BY <2>2, <2>3, <2>4, <2>5, <2>6
<1> QED
  BY <1>2, <1>3

\* Either a step owes no review that was not owed before, or it queues one;
\* then the execution has none in the queue, or it fails behind its review.
LEMMA QueueingStep ==
  ASSUME RunTypeOK, NEW r \in Runs, Control(r), Request(r) \/ Progress(r)
  PROVE  \/ /\ UNCHANGED reviews
            /\ Owed(r)' => Owed(r)
            /\ Kind[r] = "task" /\ status'[r] = "failed" => status[r] = "failed"
         \/ \E t \in NeedsReview :
              /\ Enqueue(r, t)
              /\ Told([run |-> r, trigger |-> t])'
              /\ \/ /\ pc[r] \in {"publish", "complete"} /\ t # "failed"
                    /\ Kind[r] = "task" => status'[r] = t
                 \/ pc[r] = "except" /\ t = "failed" /\ Kind[r] = "task"
<1> USE KindAssumption DEF RunTypeOK, Owed, RecordedOutcome, NeedsReview, Goto
<1>1. CASE Start(r) BY <1>1 DEF Start
<1>2. CASE LookupFails(r) BY <1>2 DEF LookupFails
<1>3. CASE Perceive(r) BY <1>3 DEF Perceive
<1>4. ASSUME NEW d \in Decisions, Evaluate(r, d)
      PROVE  /\ UNCHANGED reviews
             /\ Owed(r)' => Owed(r)
             /\ Kind[r] = "task" /\ status'[r] = "failed" => status[r] = "failed"
  BY <1>4 DEF Evaluate
<1>5. CASE Dispatch(r) BY <1>5 DEF Dispatch
<1>6. CASE PipelineRaises(r) BY <1>6 DEF PipelineRaises
<1>7. CASE DispatchAnswerLost(r) BY <1>7 DEF DispatchAnswerLost
<1>8. CASE FinishPipeline(r)
  <2>1. decision[r] \in Decisions /\ StatusOf(decision[r]) # "failed"
    BY <1>8, StatusRange DEF FinishPipeline, Control
  <2>2. CASE Kind[r] # "agent"
    BY <1>8, <2>2 DEF FinishPipeline
  <2>3. CASE Kind[r] = "agent" /\ StatusOf(decision[r]) \in NeedsReview
    <3>1. PICK t \in NeedsReview : t = StatusOf(decision[r])
      BY <2>3
    <3>2. /\ Enqueue(r, t)
          /\ agentRun'[r] = t
          /\ pc'[r] = "review" /\ pc[r] = "publish"
      BY <1>8, <2>3, <3>1 DEF FinishPipeline
    <3>3. Told([run |-> r, trigger |-> t])'
      BY <2>3, <3>2 DEF Told
    <3> QED
      BY <2>1, <2>3, <3>1, <3>2, <3>3
  <2>4. CASE Kind[r] = "agent" /\ StatusOf(decision[r]) \notin NeedsReview
    BY <1>8, <2>4 DEF FinishPipeline
  <2> QED
    BY <2>2, <2>3, <2>4
<1>9. CASE CompleteTask(r)
  <2>1. decision[r] \in Decisions /\ StatusOf(decision[r]) # "failed" /\ Kind[r] # "agent"
    BY <1>9, StatusRange DEF CompleteTask, Control
  <2>2. CASE Kind[r] = "task" /\ StatusOf(decision[r]) \in NeedsReview
    <3>1. PICK t \in NeedsReview : t = StatusOf(decision[r])
      BY <2>2
    <3>2. /\ Enqueue(r, t)
          /\ status'[r] = t /\ decision' = decision
          /\ pc'[r] = "review" /\ pc[r] = "complete"
      BY <1>9, <2>2, <3>1 DEF CompleteTask
    <3>3. Told([run |-> r, trigger |-> t])'
      BY <2>1, <2>2, <3>1, <3>2 DEF Told
    <3> QED
      BY <2>1, <2>2, <3>1, <3>2, <3>3
  <2>3. CASE ~ (Kind[r] = "task" /\ StatusOf(decision[r]) \in NeedsReview)
    BY <1>9, <2>1, <2>3 DEF CompleteTask, Kinds
  <2> QED
    BY <2>2, <2>3
<1>10. CASE PublishReview(r) BY <1>10 DEF PublishReview
<1>11. CASE PublishReviewRaises(r) BY <1>11 DEF PublishReviewRaises
<1>12. CASE FailTask(r)
  <2>1. CASE Kind[r] = "task"
    <3>1. /\ Enqueue(r, "failed")
          /\ status'[r] = "failed"
          /\ pc'[r] = "reviewFailure" /\ pc[r] = "except"
      BY <1>12, <2>1 DEF FailTask
    <3>2. Told([run |-> r, trigger |-> "failed"])'
      BY <3>1, <2>1 DEF Told
    <3> QED
      BY <3>1, <3>2, <2>1
  <2>2. CASE Kind[r] # "task"
    BY <1>12, <2>2 DEF FailTask, Control, Kinds
  <2> QED
    BY <2>1, <2>2
<1>13. CASE PublishFailureReview(r) BY <1>13 DEF PublishFailureReview
<1> QED
  BY <1>1, <1>2, <1>3, <1>4, <1>5, <1>6, <1>7, <1>8, <1>9, <1>10, <1>11,
     <1>12, <1>13 DEF Request, Progress

\* EnqueueShape for the queue of this module.
LEMMA Shifted ==
  ASSUME TypeOK, NEW r \in Runs, NEW t \in NeedsReview, Enqueue(r, t)
  PROVE  /\ Len(reviews) \in Nat /\ Len(reviews') \in Nat
         /\ 1 \in Items'
         /\ reviews'[1] = [run |-> r, trigger |-> t]
         /\ \A i \in Items' : i # 1 => i - 1 \in Items /\ reviews'[i] = reviews[i - 1]
         /\ \A i \in Items : i + 1 \in Items' \/ Len(reviews') = ReviewLimit
         /\ Len(reviews) = ReviewLimit => Len(reviews') = ReviewLimit
<1>1. reviews \in Seq(ReviewsOf(Runs)) /\ Len(reviews) <= ReviewLimit
  BY DEF TypeOK, QueueTypeOK
<1>2. /\ Len(reviews') \in 1 .. ReviewLimit
      /\ Len(reviews') = Len(reviews) + 1 \/ Len(reviews') = ReviewLimit
      /\ Len(reviews') <= Len(reviews) + 1
      /\ reviews'[1] = [run |-> r, trigger |-> t]
      /\ \A i \in 2 .. Len(reviews') : reviews'[i] = reviews[i - 1]
  BY <1>1, EnqueueShape
<1>3. Len(reviews) \in Nat /\ ReviewLimit \in Nat
  BY <1>1, ReviewLimitAssumption
<1> QED
  BY <1>2, <1>3 DEF Items

LEMMA ItemsAreReviews ==
  ASSUME TypeOK
  PROVE  /\ \A i \in Items : reviews[i] \in ReviewsOf(Runs) /\ reviews[i].run \in Runs
         /\ DOMAIN reviews = Items /\ Len(reviews) \in Nat
<1>1. reviews \in Seq(ReviewsOf(Runs))
  BY DEF TypeOK, QueueTypeOK
<1>2. \A i \in Items : reviews[i] \in ReviewsOf(Runs)
  BY <1>1 DEF Items
<1>3. \A x \in ReviewsOf(Runs) : x.run \in Runs
  BY DEF ReviewsOf
<1> QED
  BY <1>1, <1>2, <1>3 DEF Items

\* A step that queues nothing.
LEMMA QuietStep ==
  ASSUME IInv, QueueOK, NEW r \in Runs, Request(r) \/ Progress(r),
         UNCHANGED reviews, Owed(r)' => Owed(r),
         Kind[r] = "task" /\ status'[r] = "failed" => status[r] = "failed"
  PROVE  QueueOK'
<1>1. Items' = Items
  BY DEF Items
<1>2. \A i \in Items : Told(reviews[i])'
  <2> SUFFICES ASSUME NEW i \in Items PROVE Told(reviews[i])'
    OBVIOUS
  <2>1. reviews[i] \in ReviewsOf(Runs) /\ Told(reviews[i])
    BY ItemsAreReviews DEF IInv, QueueOK
  <2> QED
    BY <2>1, ToldStays DEF IInv, TypeOK, Told
<1>3. FailureInFront'
  BY <1>1 DEF QueueOK, FailureInFront
<1>4. OutdatedIsBehind'
  <2>1. \A o \in Runs : Kind[o] = "task" /\ status'[o] = "failed" => status[o] = "failed"
    BY OwnStepOnly DEF IInv, TypeOK
  <2> QED
    BY <1>1, <2>1, ItemsAreReviews DEF QueueOK, OutdatedIsBehind, IInv
<1>5. NothingOwed'
  <2>1. \A o \in Runs : Owed(o)' => Owed(o)
    BY OwnStepOnly DEF IInv, TypeOK, Owed, RecordedOutcome
  <2> QED
    BY <1>1, <2>1 DEF QueueOK, NothingOwed
<1> QED
  BY <1>1, <1>2, <1>3, <1>4, <1>5 DEF QueueOK

\* A step that queues a review.
LEMMA QueueingKeepsOrder ==
  ASSUME IInv, QueueOK, NEW r \in Runs, Request(r) \/ Progress(r),
         NEW t \in NeedsReview, Enqueue(r, t), Told([run |-> r, trigger |-> t])',
         \/ /\ pc[r] \in {"publish", "complete"} /\ t # "failed"
            /\ Kind[r] = "task" => status'[r] = t
         \/ pc[r] = "except" /\ t = "failed" /\ Kind[r] = "task"
  PROVE  QueueOK'
<1>1. /\ Len(reviews) \in Nat /\ Len(reviews') \in Nat
      /\ 1 \in Items'
      /\ reviews'[1] = [run |-> r, trigger |-> t]
      /\ \A i \in Items' : i # 1 => i - 1 \in Items /\ reviews'[i] = reviews[i - 1]
      /\ \A i \in Items : i + 1 \in Items' \/ Len(reviews') = ReviewLimit
      /\ Len(reviews) = ReviewLimit => Len(reviews') = ReviewLimit
  BY Shifted DEF IInv
<1>2. \A i \in Items' : i \in Nat
  BY DEF Items
<1>3. \A i \in Items : reviews[i] \in ReviewsOf(Runs) /\ reviews[i].run \in Runs
  BY ItemsAreReviews DEF IInv
<1>4. \A i \in Items' : Told(reviews[i])'
  <2>1. \A x \in ReviewsOf(Runs) : Told(x) => Told(x)'
    BY ToldStays DEF IInv, TypeOK
  <2> SUFFICES ASSUME NEW i \in Items' PROVE Told(reviews[i])'
    OBVIOUS
  <2>2. CASE i = 1
    BY <1>1, <2>2 DEF Told
  <2>3. CASE i # 1
    <3>1. reviews'[i] \in ReviewsOf(Runs) /\ Told(reviews[i - 1]) /\ reviews'[i] = reviews[i - 1]
      BY <1>1, <1>3, <2>3 DEF QueueOK
    <3> QED
      BY <2>1, <3>1 DEF Told
  <2> QED
    BY <2>2, <2>3
\* An item of the same execution is one of a task that fails now.
<1>5. \A i \in Items :
        reviews[i].run = r =>
          Kind[r] = "task" /\ t = "failed" /\ reviews[i].trigger # "failed"
  BY DEF QueueOK, Told, Ended
<1>6. FailureInFront'
  <2> SUFFICES ASSUME NEW i \in Items', NEW j \in Items', i < j,
                      reviews'[i].run = reviews'[j].run
               PROVE  /\ Kind[reviews'[i].run] = "task"
                      /\ reviews'[i].trigger = "failed"
                      /\ reviews'[j].trigger # "failed"
    BY DEF FailureInFront
  <2>1. j # 1 /\ j - 1 \in Items /\ reviews'[j] = reviews[j - 1]
    BY <1>1, <1>2 DEF Items
  <2>2. CASE i = 1
    BY <1>1, <1>5, <2>1, <2>2
  <2>3. CASE i # 1
    <3>1. i - 1 \in Items /\ reviews'[i] = reviews[i - 1] /\ i - 1 < j - 1
      BY <1>1, <1>2, <2>3 DEF Items
    <3> QED
      BY <2>1, <3>1 DEF QueueOK, FailureInFront
  <2> QED
    BY <2>2, <2>3
<1>7. OutdatedIsBehind'
  <2> SUFFICES ASSUME NEW i \in Items',
                      Kind[reviews'[i].run] = "task",
                      status'[reviews'[i].run] = "failed",
                      reviews'[i].trigger # "failed"
               PROVE  \E j \in Items' :
                        /\ j < i
                        /\ reviews'[j].run = reviews'[i].run
                        /\ reviews'[j].trigger = "failed"
    BY DEF OutdatedIsBehind
  <2>1. i # 1
    BY <1>1
  <2>2. i - 1 \in Items /\ reviews'[i] = reviews[i - 1]
    BY <1>1, <2>1
  <2>3. CASE reviews[i - 1].run = r
    <3>1. reviews'[1].run = reviews'[i].run /\ reviews'[1].trigger = "failed" /\ 1 < i
      BY <1>1, <1>2, <1>5, <2>1, <2>2, <2>3 DEF Items
    <3> QED
      BY <1>1, <3>1
  <2>4. CASE reviews[i - 1].run # r
    <3>1. status[reviews[i - 1].run] = "failed"
      BY <1>3, <2>2, <2>4, OwnStepOnly DEF IInv, TypeOK
    <3>2. PICK j \in Items : /\ j < i - 1
                            /\ reviews[j].run = reviews[i - 1].run
                            /\ reviews[j].trigger = "failed"
      BY <2>2, <3>1 DEF QueueOK, OutdatedIsBehind
    <3>3. j + 1 \in Items' /\ j + 1 < i /\ j + 1 # 1 /\ (j + 1) - 1 = j
      BY <1>1, <1>2, <2>2, <3>2 DEF Items
    <3>4. reviews'[j + 1] = reviews[j]
      BY <1>1, <3>3
    <3> QED
      BY <2>2, <3>2, <3>3, <3>4
  <2> QED
    BY <2>3, <2>4
<1>8. NothingOwed'
  <2> SUFFICES ASSUME NEW o \in Runs, Owed(o)'
               PROVE  \/ \E i \in Items' : reviews'[i].run = o
                      \/ Len(reviews') = ReviewLimit
    BY DEF NothingOwed
  <2>1. CASE o = r
    BY <1>1, <2>1
  <2>2. CASE o # r
    <3>1. Owed(o)
      BY <2>2, OwnStepOnly DEF IInv, TypeOK, Owed, RecordedOutcome
    <3>2. CASE \E i \in Items : reviews[i].run = o
      <4>1. PICK i \in Items : reviews[i].run = o
        BY <3>2
      <4>2. CASE i + 1 \in Items'
        <5>1. i + 1 # 1 /\ (i + 1) - 1 = i
          BY DEF Items
        <5> QED
          BY <1>1, <4>1, <4>2, <5>1
      <4> QED
        BY <1>1, <4>2
    <3>3. CASE Len(reviews) = ReviewLimit
      BY <1>1, <3>3
    <3> QED
      BY <3>1, <3>2, <3>3 DEF QueueOK, NothingOwed
  <2> QED
    BY <2>1, <2>2
<1> QED
  BY <1>4, <1>6, <1>7, <1>8 DEF QueueOK

LEMMA QueueNext == IInv /\ QueueOK /\ [Next]_vars => QueueOK'
<1> SUFFICES ASSUME IInv, QueueOK, [Next]_vars PROVE QueueOK'
  OBVIOUS
<1>1. CASE UNCHANGED vars
  BY <1>1 DEF vars, QueueOK, Items, Told, FailureInFront, OutdatedIsBehind,
              NothingOwed, Owed, RecordedOutcome
<1>2. ASSUME NEW r \in Runs, Request(r) \/ Progress(r) PROVE QueueOK'
  BY <1>2, QueueingStep, QuietStep, QueueingKeepsOrder DEF IInv, TypeOK
<1> QED
  BY <1>1, <1>2 DEF Next

LEMMA QueueInvariance == Spec => [](IInv /\ QueueOK)
<1>1. Init => QueueOK
  BY DEF Init, QueueOK, Items, FailureInFront, OutdatedIsBehind, NothingOwed,
         Owed, RecordedOutcome, NeedsReview
<1> QED
  BY <1>1, InitIInv, NextIInv, QueueNext, PTL DEF Spec

\* Whatever fails on the way, the outcome of a run of its own that an operator
\* should see is in the queue until newer items have pushed it out.
THEOREM StoppedRunsReachTheQueue == Spec => []StoppedRunsAreQueued
<1>1. IInv /\ QueueOK => StoppedRunsAreQueued
  BY ItemsAreReviews DEF IInv, QueueOK, NothingOwed, Owed, StoppedRunsAreQueued
<1> QED
  BY <1>1, QueueInvariance, PTL

\* The newest item about a run agrees with its record.
THEOREM NewestReviewIsTrue == Spec => []NewestReviewMatchesRecord
<1>1. IInv /\ QueueOK => NewestReviewMatchesRecord
  <2> SUFFICES ASSUME IInv, QueueOK, NEW i \in Items,
                      \A j \in 1 .. i - 1 : reviews[j].run # reviews[i].run
               PROVE  /\ Kind[reviews[i].run] # "step"
                      /\ reviews[i].trigger = RecordedOutcome(reviews[i].run)
    BY ItemsAreReviews DEF NewestReviewMatchesRecord, IInv
  <2>1. Told(reviews[i]) /\ i \in Nat
    BY DEF QueueOK, Items
  <2>2. ASSUME Kind[reviews[i].run] = "task", status[reviews[i].run] = "failed",
               reviews[i].trigger # "failed"
        PROVE  FALSE
    <3>1. PICK j \in Items : j < i /\ reviews[j].run = reviews[i].run
      BY <2>2 DEF QueueOK, OutdatedIsBehind
    <3>2. j \in 1 .. i - 1
      BY <2>1, <3>1 DEF Items
    <3> QED
      BY <3>1, <3>2
  <2> QED
    BY <2>1, <2>2 DEF Told, RecordedOutcome
<1> QED
  BY <1>1, QueueInvariance, PTL

\* A second item about a run is that of a task whose first review, of a
\* blocked or escalated outcome, could not be published.
THEOREM SecondReviewIsAFailure == Spec => []SecondReviewOnlyAfterLostPublication
<1>1. IInv /\ QueueOK => SecondReviewOnlyAfterLostPublication
  <2> SUFFICES ASSUME IInv, QueueOK, NEW i \in Items, NEW j \in Items,
                      i < j, reviews[i].run = reviews[j].run
               PROVE  /\ Kind[reviews[i].run] = "task"
                      /\ reviews[i].trigger = "failed"
                      /\ reviews[j].trigger = StatusOf(decision[reviews[i].run])
                      /\ status[reviews[i].run] = "failed"
    BY ItemsAreReviews DEF SecondReviewOnlyAfterLostPublication, IInv
  <2>1. Told(reviews[i]) /\ Told(reviews[j])
    BY DEF QueueOK
  <2>2. /\ Kind[reviews[i].run] = "task"
        /\ reviews[i].trigger = "failed"
        /\ reviews[j].trigger # "failed"
    BY DEF QueueOK, FailureInFront
  <2> QED
    BY <2>1, <2>2 DEF Told
<1> QED
  BY <1>1, QueueInvariance, PTL
=============================================================================
