# AETHER in TLA+

This directory holds TLA+ models of the AETHER kernel, the TLC configurations
that check them on small instances, and TLAPS proofs of their main properties
for every instance.  Every definition was translated from the source under
`src/`; `PROJECT.json` maps each to its lines.

## The system

AETHER is a set of Python services (FastAPI, asyncio) around an event bus.  The
kernel drives the others.  The models take one process of each service, as
`docker-compose.yml` starts them; the Helm values
(`infra/helm/aether-os/values-production.yaml:6`) deploy replicas, whose
registries, caches and dictionaries nothing shares, and those are not modelled.

| part | state | operations | what must hold |
|---|---|---|---|
| kernel: agent and task execution (`services/kernel/app/orchestrator.py`, `registry.py`) | execution records, run deques, review queue (`deque(maxlen=100)`) | `run_agent`, `run_task`, `run_pipeline`, `queue_review` | no external action without ALLOW; the record, the queue and the outcome agree; every run ends |
| kernel: workflow engine (`orchestrator.py`) | the coroutine's locals and `WorkflowExecutionRecord` | `run_workflow` | dependency order, stop rule, one final status, at most one review, an end |
| kernel: reviews (`orchestrator.py`, `registry.py`, `main.py`) | `ReviewQueueItem.status`, resolution history | `resolve_review`, replay | every accepted decision stays in the history, whoever took it had the role for it, the replay shown is that of the last decision with one |
| kernel: persistence (`persistence.py`, `main.py`) | one snapshot row | `save_snapshot`, `load_snapshot`, `hydrate_state` | what was acknowledged survives a restart |
| kernel: workflow validation (`registry.py`) | none | `_validate_workflow_steps` | accepts exactly the acyclic graphs |
| kernel: operator sessions (`security.py`) | session secrets and expiry | `create_session`, `authorize_review_resolution` | the role matches the risk level |
| action service (`services/action`) | idempotency cache, dead letters | `dispatch` | a key is executed again only by overlapping dispatches; answers, dead letters and effects agree |
| governance service (`services/governance`) | rules, audit chain, escalation queue | `evaluate_action` | stops are hard; the two services that evaluate an action agree |
| fusion service (`services/fusion`) | packet buffer | `ingest`, `fuse_window` | the packets of a request are in its window |
| event bus (`packages/aether_core`) | stream positions, subscriber queues | `publish`, `subscribe`, pumps | what a subscriber gets is one piece of the stream, in order |
| realtime gateway (`services/realtime`) | a list per topic, sockets | `publish`, `consume_topic` | an answered message is shown, whatever failed on its way |
| memory service (`services/memory`) | the same nodes and causal links in a dictionary, PostgreSQL and Neo4j | `store`, `link_causal`, `query`, `consolidate` | only another store of a node takes an answered link away; the graph comes to say what the table says |
| circuit breaker (`packages/aether_core`) | failure count, opening time | `allow`, `record_*` | open for the whole recovery time |
| ingestion, reasoning | stream dictionary; none | synthetic data, numeric heuristics | (no control worth a model) |

The kernel's endpoints call the orchestrator; the orchestrator calls the other
services over HTTP with a timeout and shares one in-memory registry among all
requests, which are coroutines of one event loop.  They interleave at every
`await` and nowhere else.  Records go to the event bus (errors swallowed), to
the realtime gateway (errors swallowed or not, depending on the place) and, as
one snapshot of everything, to PostgreSQL (errors swallowed).

What is hard here: several requests and the parallel steps of a workflow
interleave; every call may fail, and may fail after it took effect; the handlers
of failures publish, and can fail themselves; the review queue forgets; the
snapshot is written by whoever gets there last, and a kill can come between any
two of its writes; a service that could not reach Redis at startup talks to
itself; a pump or consumer that raises is gone; the memory service writes three
stores one after the other, repairs nothing, and overwrites what it is sent
again.  `PROJECT.json` lists these hazards at their lines.

## Modules

| module | models | how |
|---|---|---|
| `GovernedRun` | `run_agent`, `run_task`, `run_pipeline`, `queue_review` | any number of executions; `pc[r]` is the await the coroutine stands at, one action per stretch of code between two awaits |
| `MCGovernedRun` | | its instance for TLC |
| `WorkflowPromise` | nothing in particular | what a workflow execution promises: launch, record, complete, stop, fail |
| `WorkflowEngine` | `run_workflow` | extends `GovernedRun`: the steps are executions of kind `"step"`, started by the `gather` of the batch; implements `WorkflowPromise` |
| `MCWorkflowEngine` | | its instances for TLC |
| `ReviewLedger` | nothing in particular | what resolving reviews promises: open, decide, turn down, answer |
| `ReviewResolution` | `POST reviews/{id}/resolve`, `authorize_review_resolution`, `resolve_review`, `_run_review_replay` | any number of requests at once on a bounded queue of numbered reviews; implements `ReviewLedger` |
| `MCReviewResolution` | | its instance for TLC |
| `GovernanceRules` | `evaluate_action`, `_rule_matches`, `DEFAULT_RULES` | operators: the first rule of a list that matches, or raises, decides |
| `ActionDispatch` | `ActionOrchestrator.dispatch`, and the kernel's side of it | any number of dispatches by clients and by the kernel; extends `GovernanceRules` |
| `MCActionDispatch` | | its instance for TLC, with the default rules |
| `WorkflowTemplates` | `workflow_steps`, `_normalize_workflow_steps`, `_validate_workflow_steps` | functions on templates: the three-coloured search, and what it is compared with, `AcyclicGraph` |
| `ControlPlaneStore` | `KernelPersistenceStore`, `export_state`, `hydrate_state`, the kernel's `lifespan`, and every handler up to its saves | any number of creations, task executions and decisions over one registry and one row; exports are numbered, a write stays in `writes` until the database takes it |
| `MCControlPlaneStore` | | its instances for TLC |
| `EventBus` | one topic of `RedisStreamsEventBus`, `KafkaRedisEventBus` and `InMemoryEventBus` | the actions of a pump, and `Published` for the services that extend it |
| `FusionFeed` | `emit_packet`, `consume_stream_packets`, `ingest`, `_await_fusion_buffer`, `fuse_window` | extends `EventBus`: pipeline runs of the kernel, the consumer and the buffer of the fusion service, and a clock |
| `MCFusionFeed` | | its instance for TLC |
| `RealtimeHub` | `publish/{topic}`, `consume_topic`, `BroadcastHub.publish` | extends `EventBus`: the gateway as publisher and as subscriber of a topic |
| `MCRealtimeHub` | | its instance for TLC |
| `MemoryGraph` | `DurableMemoryRepository`, `InMemoryMemoryRepository`, the `MemoryGraph` class | any number of requests to store nodes, also the same node, and to link them, a consolidation and a query, over the three stores, one action per call of a backend |
| `CausalChains` | `extract_causal_chain` in memory and in Neo4j | a recursive function and a set of paths, compared in `MCMemoryGraph` and `MemoryGraphProofs` |
| `MCMemoryGraph` | | the instance of `MemoryGraph`, and the comparison |
| `GovernedRunProofs`, `WorkflowEngineProofs`, `ReviewResolutionProofs`, `ActionDispatchProofs`, `ControlPlaneStoreProofs`, `FusionFeedProofs`, `RealtimeHubProofs`, `MemoryGraphProofs` | | the theorems |

**State.** `status`, `agentRun` and `reviews` are the registry's records, the
status of the last agent run of an execution, and the review deque, newest
first.  `decision` and `dispatched` are what governance answered and which
actions reached the action service.  In `WorkflowEngine`, `batch` holds the
results that the `for result in results` loop has not reached, `completed` is
`completed_step_ids`, `stopped` is `terminal_status` once `stop_triggered`, and
`lastStatus` is the status of `task_runs[-1]`.  In `ReviewResolution` a review is
the number of its place in the order of `queue_review` calls; `risk` and
`history` are its `risk_level` and `resolution_history`, `replayOf` the request
whose replay its metadata tell of, and `call[r]` what request `r` asked for.
A review counts as resolved when its history is not empty, because the code
writes both together.

In
`ActionDispatch`, `cached` and `deadLetters` are the service's, `outcome` is the
kernel's record; `executed` and `before` (the dispatches of the same key that
were answered when one arrived) are history the properties need.

In `ControlPlaneStore`, `mem` and `row.state` are a registry as far as a restart
can tell: the ids it knows, the status of each task execution, and each review
with its status.  `newest`, `unsaved` and `overtaken` are history.  In
`EventBus`, `seen` is everything a pump has put into its subscriber's queue and
`taken` how much of it was taken out; `position` and `anchored` are `last_id`.
`buffer` of `FusionFeed` counts how often each packet is in `packet_buffer`.  In
`MemoryGraph`, `local`, `rows`, `vertices` and `edges` are the three stores as
functions on the nodes they hold.  Each store request has a `MemoryNode` object
of its own, which the dictionary refers to and the request goes on to write
from: `object[r]`, while `local[n]` and the field `by` of a row name the request.
`ends` (the objects the last request for a link has linked), `raced`, `gone` and
`due` (which change of a row the graph is to see last) are history.

**Atomicity.** `_persist_registry` and `_publish_bus_event` swallow every
exception and change nothing a model reads, so they are not steps of their own.
`_publish_review_item` is one, because its fallback call can raise, and where it
raises matters: in `run_task` it lands in the handler that fails the task.  The
stages before governance (streams, packets, fusion, memory, reasoning) are one
action: nothing in the kernel's state depends on how far they got.  `FusionFeed`
takes apart those of them that feed the fusion buffer, and `ControlPlaneStore`
takes `_persist_registry` apart: there the export is taken with the change,
before the first await, and the write is a step of its own.

**Failures.** Every client call can raise at every stage (`PipelineRaises`);
`dispatch_action` can raise after the action service acted
(`DispatchAnswerLost`); the publication of a review can raise
(`PublishReviewRaises`, `PublishFailureReview`, `PublishWorkflowReview`); a task
or its agent can be missing (`LookupFails`, the constant `Dangling`).  A workflow
that fails ends at the `AttributeError` of its own handler (`Fail`).

In `ActionDispatch` the kernel's request can be lost, its timeout can come at any
time while the service goes on, and the executor can fail.

In `ControlPlaneStore` a write can fail, which is swallowed; the writes of
concurrent requests land in any order; the process can be killed at any time,
which loses the registry, the requests and the writes under way; and a start can
find no database or fail to load the row.  In the modules of the bus a service
can have failed to reach Redis at startup, a publication can fail or lose its
answer, and a pump or a consumer can end for good.  In `MemoryGraph` each call of
PostgreSQL and Neo4j can raise before or after it took effect, clients ask for a
link again, store a node again, before or after its links, or send one that is
already old, and the service can be killed and find other backends when it
starts.  `MaxFaults` bounds the calls that raise and the restarts together.

**Data.** In `GovernedRun` governance is an arbitrary decision.  In
`GovernanceRules` a value of a context is what the predicates of the default
rules can tell of it: above or below the limit, or malformed when `float()`
raises on it.  A review is the execution it is
about and the status that triggered it.  A memory node is its kind, whether it was
touched, and its links; a timestamp is what the thresholds of a consolidation
tell of it.  Which rows a query selects is arbitrary.  Queries, the content of
packets, parameters and detail texts are left out.

## Runs

| run | instance | question | states |
|---|---|---|---|
| `governed_runs` | an agent run, a task run, a step, a dangling task; queue of 2 | governance, records, reviews, termination | 60,480 |
| `workflow_graphs` | 3 steps, every loop-free graph with a dependency up to the names of the steps (cyclic ones too) with the default stop list, the fan-in graph with three others, and a task of another client; queue of 2 | order, stop rule, endings, refinement; do the stops of steps reach an operator, and does everything end | 607,626 |
| `review_resolution` | 2 requests of 4 roles, 3 reviews of 3 risk levels, queue of 2 | gate, history, replay and eviction; does every request get an answer | 664,367 |
| `action_dispatch` | 2 clients with one key and a kernel run; 5 kinds of actions, 3 of confidences | effects, answers, records, and the two evaluations | 50,974 |
| `control_plane_store` | a task and a workflow that needs it are created, a task is run, its review resolved; 2 kills | what does a restart find; what of the answered is lost, and when; is the row the registry once all is quiet | 1,424,256 |
| `fusion_feed` | 2 pipeline runs with 2 and 1 packets, any centre of a window, a payload that is no packet; 3 instants | is a fused event complete whose run waited for its own packets | 10,153,929 |
| `realtime_hub` | 2 posts and a message of another service | is a subscriber given one piece of the stream; is every answered post shown | 20,410 |
| `memory_graph` | 2 nodes, the effect stored twice, as an unimportant working and as an episodic node; a link; 1 fault | are answered links stored, and kept; does the graph follow the table | 3,619,867 |
| `hard_stops` | as `action_dispatch` | is what a BLOCK or ESCALATE rule matches never executed? No: see below | violated |
| `workflow_review_risk` | as `workflow_graphs` | does the review of a stopped workflow carry the risk of the stop? No: see below | violated |
| `restored_after_restart` | as `control_plane_store` | is everything answered restored after a restart? No: see below | violated |
| `failed_workflows_unreviewed` | as `workflow_graphs` | does a failed workflow reach an operator? No: see below | violated |

**Bounds.** The executions of `GovernedRun` interact only through the review
queue, so one of each kind with a queue shorter than the three reviews they can
produce shows every eviction.  Three steps are the least that have a batch of
two followed by a third step, a chain, a fan-out, a fan-in, and cycles of two
and three.  Of the acyclic graphs the run takes those whose steps depend on
earlier ones, and a chain that goes backwards: the position of a step only
orders the results of a batch, and the rest is renaming.  Three steps that need
nothing are left out: two results show how those of a batch meet, and a third
multiplies the states.  The task of another client can be queued twice, so that
with the workflow's there are three reviews for a queue of two, and the
workflow's can be pushed out.  Two requests on three reviews with a queue of two
show both that resolutions of one review overlap and that a review is pushed
out, by others or by the replay itself, while its replay is under way; no third
request adds a kind of overlap, because a request meets the others only in the
history and the queue.  Two dispatches of a key are enough to overlap or follow
one another at every attempt, and the kinds of actions cover a stop before and
behind the MONITOR rule, no match, and an evaluation that raises.  The other
runs' bounds follow from these.  `MaxReviews` cuts off only reviews after the
third.

`MaxCrashes = 2` lets a restart load what an earlier restart has written; two
creations, one of which needs the other, a task and a decision are four requests
at once, which is also the number of connections of the pool, so that letting
any pending write land next is exact.  In `FusionFeed` `HalfWindow = 0` and
`Horizon = 1` keep the order of half a window and three windows of the source,
and three instants (`MaxTime = 2`) let a packet outlive its window and then the
buffer; two runs are enough for a wait to count packets of another; the centre
of a window is any of the instants, past or future.  `RealtimeHub` sends each
message once; a third message adds no new place where one can be lost.  One link
and its two nodes have every overlap of a link, a consolidation and a query with
the stores; two stores of one end overlap each other, in memory, in the table
and in the graph, and differ in their kind and in what a consolidation does to
them.  Only the unimportant one is touched by queries or grows a day old,
because nothing reads either of the others.  One fault leaves one request half
done, for the others to meet; what further faults add is in the theorems, which
hold for every bound.  The other models are finite by themselves.

**Fairness.** `WF(Progress(r))` for every execution: the event loop runs each
ready coroutine, and every await ends because every client call has a timeout
(`httpx.Timeout` in `clients.py`).  The workflow coroutine and the start of each
step that `gather` scheduled get the same; in `ReviewResolution` the replay's
end and the publication do, since the replayed execution ends (`EveryRunEnds`,
`WorkflowEnds`), and in `ActionDispatch` every coroutine of the service goes on
and the kernel hears or gives up.  In `RealtimeHub` the handler of a post
(`PostReturns` or `PostFallsBack`), the consumer and the pump are fair each, as
three tasks of one event loop are; the pump may die instead, and the publication
itself is not fair, since its failure is one of the cases.  Requests are not
fair: a client may never come.  That is why the runs do not check deadlock: when
every request has ended, the system may stop.

**The violations.** When a step of a workflow raises, or no step is ready,
`run_workflow` records the execution as failed and builds the arguments of
`queue_review`, with the title "... failed and requires operator review"
(`orchestrator.py:607` and `:560`).  One of them is `execution.governance_action`
(`:610`, `:563`), a field that `WorkflowExecutionRecord` (`models.py:291`) does not
have.  The `AttributeError` ends the coroutine there: no review is queued or
published, the registry is not saved, the event `workflow_failed` is not sent,
and the caller gets this exception in place of the step's.  Blocked steps of the
same batch lose their review with it.  `FailedWorkflowsAreReviewed` states what
the title says and is violated; `StepsReachAnOperator` says that a workflow that
does not fail has its review, and `OneReviewPerWorkflow` that one that fails has
none.

`run_workflow` goes through all results of a batch before it stops, and then
gives the review the risk level of `task_runs[-1]` (`orchestrator.py:688`), the
last one.  When the first step of a batch is blocked and the last allowed, the
review of the blocked workflow has risk level low, and the role gate, which
`README.md:141` describes ("`operator` is limited to low/medium actions"), lets
an operator approve what needs a shift lead.  `StopKeepsItsRisk` states the
contrary and is violated.

The action service refuses what its rules block or escalate and executes what
they monitor; the first matching rule decides, and the MONITOR rule for low
confidence stands before the BLOCK rules for protected data and harm.  A direct
dispatch with protected data and a low `sensor_confidence` is executed, although
`docs/security-audit.md:6` says governance rules enforce "hard stops for privacy,
harmful intent, ...".  `HardStops` is violated; `StopsUnlessMasked` says that
this is the only way, and that runs of the kernel are never affected.

`save_snapshot` writes with an unconditional upsert (`persistence.py:102`) what
was exported before the connection was awaited.  Of two requests that save at
the same time the one that exported first may write last; both are answered, and
after a kill the newer change is gone, while `README.md:143` says that the
kernel stores a durable snapshot "so agents, task runs, workflow runs, and
review decisions are restored after restart".  `RestoredAfterRestart` is
violated. `AcknowledgedSurvives` says when an answered request is lost: its own
save failed, the process has no database, a start could not load the row, or a
kill came while an older export had overwritten a newer one.

**What the runs show besides.** `run_task` records the outcome and queues its
review inside the `try` whose handler says "Task failed before completion"
(`orchestrator.py:476`).  When neither the bus nor the realtime service takes
the review of a blocked or escalated task, the record is overwritten as
`failed` and a second review is queued.  `SecondReviewOnlyAfterLostPublication`,
`NewestReviewMatchesRecord` and `FinalStatusStable` say exactly how far this
goes: only from blocked or escalated, only to failed, never for a step, and the
newest review tells what the record tells.

A wait for the fusion buffer counts the packets
of every run and gives up after two seconds, so that the fused event of a run may
lack its packets; `FusedIsComplete` holds only for a wait whose count was of the
run's own packets, or for a kernel that hands them over itself, and for packets
that are not too old for the buffer yet.  (`README.md:142`,
that fusion consumes them "automatically before `fuse_window` is invoked", is the
intent and not a guarantee.)  A gateway with the bus in memory shows every post
twice.  A payload that is no packet, posted on the topic of the packets, ends the
fusion consumer until the service is started again.  A
store of a node_id that is known, a retry included, overwrites the lists of its
row, so that answered links vanish from memory and the table and stay in Neo4j;
which is all that takes them away (`AnsweredLinksAreStored`).  Of two stores of a
node the older may write its row or its vertex last, so that memory, table and
graph each hold another one; the graph says what the table says again once the
last change of the row has come to it (`GraphFollowsRows`).  The dictionary of
the memory service drifts from the table, and is empty after a restart, when
links of stored nodes are refused.  The search of `extract_causal_chain` in
memory visits a node once, so that with a limited depth a detour can hide
ancestors which the query of Neo4j finds (`ShallowChainsMayMissNodes`).

## Proofs

`GovernedRunProofs` proves for every set of executions and every queue limit
the type invariant, `DispatchOnlyAllowed` and `FinalStatusStable`.  The
invariant `IInv` ties the program counter to the data: an execution past
governance has a decision, one that will publish or complete has an `ALLOW` if
it is in `dispatched`, a record is terminal exactly where the code has written
it.  `DispatchOnlyAllowed` is not inductive alone, because it says nothing of an
execution that is about to dispatch.

`WorkflowEngineProofs` proves for every set of steps, every graph, every stop
list and every position, with the assumptions of `WorkflowEngine` (templates
name known steps; positions are distinct; the execution's identity differs from
its steps'), that the engine keeps `WfIInv`: only steps of the present batch are
under way, everything else has ended or not started; a stop is remembered until
the end; the record matches the program counter.  From it follow
`DependencyOrder`, `FailureHasCause`, `EndIsConsistent`, `NoStartAfterStop`,
`OneReviewPerWorkflow`, and that every step of the engine is a step of
`WorkflowPromise` or changes nothing of it.

`ReviewResolutionProofs` proves, for every number of requests and reviews and
every queue limit, the type invariant, `GatedByRole`, `ReplayLinkIsLatest`,
`LostOnlyToNewerReviews` and the refinement of `ReviewLedger`.  `Shape` gives the
queue in closed form (the newest reviews in order), from which follows that a
review is queued exactly when fewer than the limit are newer; `Caller` keeps for
each request what it was permitted, and that only a request past its decision is
in a history.  The link of the replay is an invariant because decision and link
are written without an await between them.

`ActionDispatchProofs` proves all safety properties of `ActionDispatch` for every
number of dispatches and every list of rules under `RulesAssumption`: rules
monitor or stop, and those that stop do not look at the confidence.  That
assumption, which TLC evaluates for the default rules, is what makes the kernel
and the action service agree.  The invariant says for each dispatch that its
answer tells its effect and that, once past the cache, no dispatch answered
before it arrived has executed its key.

The second part of `GovernedRunProofs` proves, on top of that invariant, the
three properties of the queue: `StoppedRunsAreQueued`,
`NewestReviewMatchesRecord` and `SecondReviewOnlyAfterLostPublication`.  Its
invariant says for every place of the program counter which reviews of the
execution exist and what the newest tells; appending and dropping the oldest
keep it.  `WorkflowEngineProofs` has `OneReviewPerWorkflow` and
`StepsReachAnOperator` in the same way: a review of the workflow is there from
the stop on and tells its status, so that an execution that is recorded as
failed has none.

`ControlPlaneStoreProofs` proves all four properties of `ControlPlaneStore` for
every set of entries and requests and every number of kills.  Every action of a
request has one form (`Works`: the registry changes and is exported, or changes
in what is exported later), for which the invariant is proved once; landing and
losing a write have another (`Ends`).  The invariant orders the exports:
an answered request is in memory and in every pending export that is newer than
what has landed (`AckInv`), no two pending exports have one number and none has
the number of the newest (`NumberInv`), so that the row is the registry once the
last export has landed (`LastInv`).  Consistency of the snapshots follows because
a change and the review it needs are written without an await between them.

`RealtimeHubProofs` proves `ReceivedInOrder` for every stream, whatever pumps and
consumers do: from the first entry on, the position of a reader is the end of
what it was given.  `AnsweredIsHeld` is what `PostsAreShown` rests on, without any
fairness: an answered post is shown, or stands before the first entry the gateway
ever read, or is in its queue, or is on the stream ahead of its pump.  The
invariant (`HubInv`) needs the same of a post that is on the bus and not answered
yet, and the proof follows its place on the stream: `position - Len(seen) + taken`
entries are behind the consumer, and the one it shows next is the following one.

`FusionFeedProofs` proves `TypeOK` and `FusedIsComplete` for every number of runs
and packets.  The count of the buffer is a cardinality, so that the proof can say
what a count decides (`CountDecides`): when a packet is in the buffer at most
once and only packets of one run are, `Buffered >= PerRun[r]` means that all of
them are.  "At most once" has a long way to go: a packet is on the stream once
(`SentOnce`), what the consumer is given is that stream (`Delivered`), so a packet
is taken once, and while the kernel has a bus it comes into the buffer in no
other way (`BufferedOnce`).  After the count a packet can only be lost by
pruning, which spares it as long as it is within the horizon (`Kept`); where the
client put the centre of its window does not matter.

`MemoryGraphProofs` proves `TypeOK`, `AnsweredLinksAreStored` and
`GraphFollowsRows` for every set of nodes, links and store requests and every
bound on the faults.  `OwnerInv` says that each store holds a node under the id
of the request it comes from, `BackendInv` that what is in memory has come to
the graph once its request was answered, or was forgotten.  `LinkInv` follows a
link through its three calls: the linked objects keep it, so that a row that is
written from one later has it too; what was written stays in the rows while they
come from these objects, and an edge of the graph goes only with one of its
nodes.  `DueInv` says of the change that the graph is to see last that the row
still shows it, and `CarriedInv` that what a consolidation removes from the
graph has been deleted from the table; `GraphFollowsRows` is inductive with the
two. Its second part is about `CausalChains`, for every finite history, with
cycles and parents that are gone: `LocalChainIsSound` says that the dictionary
answers no node twice and only ancestors within the depth, and so, up to the 10
that the query is limited to, only what Neo4j would; `DeepChainIsComplete` that
it misses none when the depth is at least the number of nodes less one.  The
search is defined because each call leaves less depth or fewer ids to visit
(`Work`).  What it promises (`Means`) is proved along the same measure: a visit
that the depth cuts off is the only way to miss a parent, and with enough depth
left for every node not yet visited (`DeepEnough`) there is none.  Less depth is
not enough in general, as `ShallowChainsMayMissNodes` shows.

The first part of `WorkflowEngineProofs` is about the validation.
`ValidationIsExact` says of `WorkflowTemplates`' search, for every finite graph
and every order in which it takes the steps, that it raises exactly when the
graph has a cycle; `AcceptedIsExact` and `TaskListsAreAccepted` say what that
means for the requests of `create_workflow`.  `NoHaltOnValidatedTemplate` rests
on it.  A recursive function is a `CHOOSE` of a function with a given equation,
so the proof first shows that there is one (`SearchIsDefined`): the effort of a
state of the search, the number of steps not yet visited times one more than all
steps, plus those still to do, falls in each call, and for each bound on it
there is a function that satisfies the equation below the bound.  Then, again
along the effort, a search that does not raise ends with steps that wait only
for each other in order, and one that raises has a way to a step that leads back
to it (`OnPath`), which is a set of steps that all wait for one of the set. 
These inductions are arguments about the least effort at which a statement
fails.

Assumed everywhere are only the named assumptions of the modules, which TLC
evaluates in the runs; of the steps of a workflow it is that they are finitely
many (`StepsAssumption`).

Checked by TLC only: the liveness properties, because fairness and ENABLED are
beyond the prover.

## Plan

What is left, in this order: the workflow executions in `ControlPlaneStore`, of
which a failed one is not saved until another request saves; overlapping
requests for the same link, and overlapping consolidations, in `MemoryGraph`;
replicas that share the row and the bus; the topic `dashboard`, on which
snapshots of a state replace one another; the sessions of operators;
`CircuitBreaker`.

## Not modelled

The circuit breaker of `aether_core` is used by no service, so that nothing but
itself could be checked.  Sessions are signatures and expiry times; the role
they carry is the input of `ReviewResolution`.  The topic `dashboard` and the
sockets of the gateway, the Kafka consumer (not reached while Redis is
connected), subscriptions from the beginning of a stream (no service has one)
and the closing of the bus are left out.  The audit chain and the escalation
queue of governance, which no code reads back, are not modelled.  Nor are
ingestion's synthetic adapters, causal lists that a client sends with a node,
the reasoning heuristics, embeddings, the ranking of memory queries, metrics,
configuration or the dashboard: data and presentation without control.
