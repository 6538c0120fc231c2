-------------------------- MODULE ReviewResolution --------------------------
(***************************************************************************)
(* POST reviews/{id}/resolve: the endpoint of main.py with the role gate   *)
(* of security.py, KernelOrchestrator.resolve_review, and the registry's   *)
(* bounded queue.  Requests interleave only while a replay awaits and when *)
(* the decision is published: a coroutine that awaits another does not     *)
(* yield by itself, so that the call up to the replay, and the end of the  *)
(* replay with the decision, are each one step.  The replay is an          *)
(* execution of GovernedRun or WorkflowEngine: here it queues at most two  *)
(* reviews of its own, then returns or raises.                             *)
(***************************************************************************)
EXTENDS Naturals, Sequences

CONSTANTS
  Requests,      \* the operators' requests
  NoRequest,     \* none of them
  Roles,         \* the roles they may have, of AllRoles
  Risks,         \* the risk levels reviews may have, of AllRisks
  MaxReviews,    \* bound: reviews ever queued
  ReviewLimit    \* REVIEW_QUEUE_LIMIT

ASSUME NoRequestAssumption == NoRequest \notin Requests
ASSUME BoundsAssumption == MaxReviews \in Nat /\ ReviewLimit \in Nat \ {0}

\* Reviews are numbered in the order in which they are queued.
Reviews == 1 .. MaxReviews

Privileged == {"mission_controller", "admin", "system"}
\* "observer" stands for every role without the right to resolve.
AllRoles == {"observer", "analyst", "operator", "shift_lead"} \cup Privileged
AllRisks == {"low", "medium", "high", "critical"}
ASSUME TriedAssumption == Roles \subseteq AllRoles /\ Risks \subseteq AllRisks

Resolutions == {"approved", "rejected"}

Calls == [review : Reviews, role : Roles, rerun : BOOLEAN, resolution : Resolutions]
NoCall == [review |-> 0]

VARIABLES
  issued,    \* how many reviews have been queued
  queue,     \* registry._review_queue, newest first
  risk,      \* ReviewQueueItem.risk_level ("none": not queued yet)
  history,   \* metadata["resolution_history"]; resolved means not empty
  replayOf,  \* the request whose replay metadata["replay"] tells of
  pc,        \* where each request is
  call,      \* what each request asked for, if it was not turned down
  spawned    \* reviews the replay of each request has queued

vars == <<issued, queue, risk, history, replayOf, pc, call, spawned>>

PCs == {"idle", "replay", "publish", "returned", "raised", "notFound", "lost", "refused"}
Ended == {"returned", "raised", "notFound", "lost", "refused"}

Queued(v) == \E i \in DOMAIN queue : queue[i] = v

\* Mutant of Permitted: the replay is not looked at.
PermittedWithReplay(c, level) ==
  \/ c.role \in Privileged
  \/ c.role = "shift_lead" /\ level # "critical"
  \/ c.role = "operator" /\ level \in {"low", "medium"}
  \/ c.role = "analyst" /\ c.resolution = "rejected" /\ level \in {"low", "medium"}

\* authorize_review_resolution raises no PermissionError.
Permitted(c, level) ==
  \/ c.role \in Privileged
  \/ c.role = "shift_lead" /\ level # "critical"
  \/ c.role = "operator" /\ ~ c.rerun /\ level \in {"low", "medium"}
  \/ /\ c.role = "analyst"
     /\ ~ c.rerun
     /\ c.resolution = "rejected"
     /\ level \in {"low", "medium"}

\* Mutant of Enqueue: the newest item is refused when the queue is full.
EnqueueOrDrop(level) ==
  /\ issued < MaxReviews
  /\ issued' = issued + 1
  /\ risk' = [risk EXCEPT ![issued + 1] = level]
  /\ queue' = IF Len(queue) < ReviewLimit THEN <<issued + 1>> \o queue ELSE queue

\* Mutant of Enqueue: a deque built without maxlen.
EnqueueUnbounded(level) ==
  /\ issued < MaxReviews
  /\ issued' = issued + 1
  /\ risk' = [risk EXCEPT ![issued + 1] = level]
  /\ queue' = <<issued + 1>> \o queue

\* queue_review: appendleft on the bounded deque.
Enqueue(level) ==
  LET longer == <<issued + 1>> \o queue
  IN  /\ issued < MaxReviews
      /\ issued' = issued + 1
      /\ risk' = [risk EXCEPT ![issued + 1] = level]
      /\ queue' = SubSeq(longer, 1, IF Len(longer) < ReviewLimit
                                    THEN Len(longer) ELSE ReviewLimit)

Goto(r, label) == pc' = [pc EXCEPT ![r] = label]

Init ==
  /\ issued = 0
  /\ queue = <<>>
  /\ risk = [v \in Reviews |-> "none"]
  /\ history = [v \in Reviews |-> <<>>]
  /\ replayOf = [v \in Reviews |-> NoRequest]
  /\ pc = [r \in Requests |-> "idle"]
  /\ call = [r \in Requests |-> NoCall]
  /\ spawned = [r \in Requests |-> 0]
-----------------------------------------------------------------------------
\* Another execution of the kernel queues a review.
QueueReview ==
  /\ \E level \in Risks : Enqueue(level)
  /\ UNCHANGED <<history, replayOf, pc, call, spawned>>

\* registry.resolve_review, and the replay summary, with no await between
\* them.  A resolved item may be decided again: nothing looks at its status.
Record(r, c) ==
  /\ Goto(r, "publish")
  /\ history' = [history EXCEPT ![c.review] = Append(@, r)]
  /\ replayOf' = IF c.rerun THEN [replayOf EXCEPT ![c.review] = r] ELSE replayOf

\* The request is turned down before it can change anything.
TurnDown(r, c) ==
  /\ pc[r] = "idle"
  /\ \/ ~ Queued(c.review) /\ Goto(r, "notFound")
     \/ /\ Queued(c.review)
        /\ ~ Permitted(c, risk[c.review])
        /\ Goto(r, "refused")
  /\ UNCHANGED <<issued, queue, risk, history, replayOf, call, spawned>>

\* Without rerun_source the endpoint decides before it first yields.
DecideAtOnce(r, c) ==
  /\ pc[r] = "idle"
  /\ ~ c.rerun
  /\ Queued(c.review)
  /\ Permitted(c, risk[c.review])
  /\ call' = [call EXCEPT ![r] = c]
  /\ Record(r, c)
  /\ UNCHANGED <<issued, queue, risk, spawned>>

\* _run_review_replay starts; it holds the item it was called with.
StartReplay(r, c) ==
  /\ pc[r] = "idle"
  /\ c.rerun
  /\ Queued(c.review)
  /\ Permitted(c, risk[c.review])
  /\ Goto(r, "replay")
  /\ call' = [call EXCEPT ![r] = c]
  /\ UNCHANGED <<issued, queue, risk, history, replayOf, spawned>>

\* The replayed run is itself put up for review, perhaps a second time after
\* the publication was lost (SecondReviewOnlyAfterLostPublication).
ReplayQueues(r) ==
  /\ pc[r] = "replay"
  /\ spawned[r] < 2
  /\ spawned' = [spawned EXCEPT ![r] = @ + 1]
  /\ \E level \in Risks : Enqueue(level)
  /\ UNCHANGED <<history, replayOf, pc, call>>

\* Mutant of ReplayReturns: the replay is linked although the item is gone
\* and no decision recorded.
ReplayReturnsLinkingFirst(r) ==
  /\ pc[r] = "replay"
  /\ spawned[r] < 2
  /\ replayOf' = [replayOf EXCEPT ![call[r].review] = r]
  /\ IF Queued(call[r].review)
     THEN /\ Goto(r, "publish")
          /\ history' = [history EXCEPT ![call[r].review] = Append(@, r)]
     ELSE Goto(r, "lost") /\ UNCHANGED history
  /\ UNCHANGED <<issued, queue, risk, call, spawned>>

\* The replay returns, and the decision is taken on the item the queue holds
\* now.  When newer reviews have pushed it out, the answer is "not found" as
\* for an unknown review, but the source was run again: "lost".
ReplayReturns(r) ==
  /\ pc[r] = "replay"
  /\ spawned[r] < 2
  /\ IF Queued(call[r].review)
     THEN Record(r, call[r])
     ELSE Goto(r, "lost") /\ UNCHANGED <<history, replayOf>>
  /\ UNCHANGED <<issued, queue, risk, call, spawned>>

\* Mutant of ReplayRaises: a failed replay is tried again.
ReplayRaisesRetrying(r) ==
  /\ pc[r] = "replay"
  /\ UNCHANGED vars

\* The source is gone, or the run raised: no decision.
ReplayRaises(r) ==
  /\ pc[r] = "replay"
  /\ Goto(r, "raised")
  /\ UNCHANGED <<issued, queue, risk, history, replayOf, call, spawned>>

\* Mutant of Publish: a lost publication starts the resolution anew.
PublishOrStartOver(r) ==
  /\ pc[r] = "publish"
  /\ Goto(r, "returned") \/ Goto(r, "replay")
  /\ UNCHANGED <<issued, queue, risk, history, replayOf, call, spawned>>

\* _publish_review_item: the endpoint returns the decision, or fails with an
\* exception it does not handle although the decision stands.
Publish(r) ==
  /\ pc[r] = "publish"
  /\ Goto(r, "returned") \/ Goto(r, "raised")
  /\ UNCHANGED <<issued, queue, risk, history, replayOf, call, spawned>>
-----------------------------------------------------------------------------
Request(r) == \E c \in Calls : TurnDown(r, c) \/ DecideAtOnce(r, c) \/ StartReplay(r, c)

Progress(r) == ReplayReturns(r) \/ ReplayRaises(r) \/ Publish(r)

Next ==
  \/ QueueReview
  \/ \E r \in Requests : Request(r) \/ ReplayQueues(r) \/ Progress(r)

\* The replay ends (EveryRunEnds, WorkflowEnds), and the event loop goes on
\* with every coroutine.
Fairness == \A r \in Requests : WF_vars(Progress(r))

Spec == Init /\ [][Next]_vars /\ Fairness
-----------------------------------------------------------------------------
\* Type invariant.
TypeOK ==
  /\ issued \in 0 .. MaxReviews
  /\ queue \in Seq(1 .. issued) /\ Len(queue) <= ReviewLimit
  /\ risk \in [Reviews -> Risks \cup {"none"}]
  /\ history \in [Reviews -> Seq(Requests)]
  /\ replayOf \in [Reviews -> Requests \cup {NoRequest}]
  /\ pc \in [Requests -> PCs]
  /\ call \in [Requests -> Calls \cup {NoCall}]
  /\ spawned \in [Requests -> 0 .. 2]

Decided(r, v) == \E i \in DOMAIN history[v] : history[v][i] = r

\* README.md:141, for what happened in the end: whoever decided on a review,
\* or had its source run again, has a role for its risk; analysts only reject.
GatedByRole ==
  \A r \in Requests :
    (pc[r] = "replay" \/ \E v \in Reviews : Decided(r, v)) =>
      LET c == call[r]
      IN  /\ risk[c.review] = "critical" => c.role \in Privileged
          /\ risk[c.review] = "high" \/ c.rerun
               => c.role \in Privileged \cup {"shift_lead"}
          /\ c.role = "analyst" => c.resolution = "rejected"

\* The replay an item tells of is the one of its last decision with a replay,
\* also when several operators resolve it at the same time.
ReplayLinkIsLatest ==
  \A v \in Reviews :
    LET reruns == {i \in DOMAIN history[v] : call[history[v][i]].rerun}
    IN  IF reruns = {} THEN replayOf[v] = NoRequest
        ELSE \E i \in reruns : /\ \A j \in reruns : j <= i
                               /\ replayOf[v] = history[v][i]

\* A review leaves the queue only for as many newer ones as it holds, and only
\* then is a replay run whose decision ends as not found, and is not recorded.
LostOnlyToNewerReviews ==
  /\ \A v \in 1 .. issued : Queued(v) \/ issued - v >= ReviewLimit
  /\ \A r \in Requests :
       pc[r] = "lost" => /\ issued - call[r].review >= ReviewLimit
                         /\ \A v \in Reviews : ~ Decided(r, v)

\* Every request is answered.
ResolutionsEnd == \A r \in Requests : pc[r] # "idle" ~> pc[r] \in Ended

\* The requests as ReviewLedger sees them.
Phase(r) ==
  CASE pc[r] = "idle" -> "idle"
    [] pc[r] = "replay" -> "open"
    [] pc[r] = "publish" -> "decided"
    [] pc[r] = "returned" -> "acknowledged"
    [] pc[r] = "raised" /\ (\E v \in Reviews : Decided(r, v)) -> "unanswered"
    [] OTHER -> "turnedDown"

Ledger == INSTANCE ReviewLedger WITH phase <- [r \in Requests |-> Phase(r)]

\* The endpoint implements the ledger.
ImplementsLedger == Ledger!Spec
=============================================================================
