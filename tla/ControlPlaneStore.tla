------------------------- MODULE ControlPlaneStore -------------------------
(***************************************************************************)
(* The kernel's registry in memory and its copy in PostgreSQL: one row     *)
(* that holds a snapshot of everything.  Every handler changes the         *)
(* registry, exports all of it and writes the export through a pool of     *)
(* connections with an unconditional upsert, so that concurrent writes     *)
(* land in any order.  A save that fails is swallowed.  The process can be *)
(* killed at any await; when it starts again it loads the row, merges it   *)
(* over its seeds and writes the result back before it serves.             *)
(*                                                                         *)
(* Exports are numbered.  The pool has four connections; the model lets    *)
(* any pending write be the next to land, which is exact up to four        *)
(* requests at a time.                                                     *)
(***************************************************************************)
EXTENDS Naturals

CONSTANTS
  Seeds,        \* entries the registry is constructed with (build_default_*)
  Creations,    \* requests that create an agent, a tool, a task, a workflow
  Needs,        \* the entries an entry refers to
  Executions,   \* requests that run a task
  Task,         \* the entry each execution runs
  Decisions,    \* requests that resolve the review of an execution
  Boot,         \* names the write of the startup
  MaxCrashes    \* bound on restarts

Entries == Seeds \cup Creations
Requests == Creations \cup Executions \cup Decisions
Writers == Requests \cup {Boot}

ASSUME SortsAssumption ==
  /\ Seeds \cap Creations = {} /\ Creations \cap Executions = {}
  /\ (Creations \cup Executions) \cap Decisions = {}
  /\ Boot \notin Requests
ASSUME NeedsAssumption ==
  /\ Needs \in [Entries -> SUBSET Entries]
  /\ \A e \in Seeds : Needs[e] \subseteq Seeds
ASSUME TaskAssumption == Task \in [Executions -> Entries]
ASSUME MaxCrashesAssumption == MaxCrashes \in Nat

VARIABLES
  mem,       \* the registry in memory
  row,       \* the stored snapshot, with the number of its export
  writes,    \* the exports that wait for the database
  exports,   \* how many exports were taken
  pc,        \* where each request's coroutine is
  target,    \* the review each decision is about
  phase,     \* of the process
  pool,      \* whether this process has a connection pool
  crashes,   \* how often the process was killed
  newest,    \* history: the highest number of an export that landed
  unsaved,   \* history: requests whose own save failed or was not taken,
             \* and those that a failed load has dropped
  overtaken  \* history: requests finished before a kill that found the row
             \* older than an export that had landed

vars == <<mem, row, writes, exports, pc, target, phase, pool, crashes,
          newest, unsaved, overtaken>>
process == <<phase, pool, crashes>>
history == <<newest, unsaved, overtaken>>

Stopped == {"blocked", "failed"}
Statuses == Stopped \cup {"absent", "running", "completed"}
\* A review is known by the execution it is about and the status that made it.
Reviews == Executions \X Stopped
States == [entries : SUBSET Entries, record : [Executions -> Statuses],
           review : [Reviews -> {"none", "pending", "resolved"}]]
PCs == {"idle", "saveStart", "work", "saveRun", "finish", "publish",
        "publishFailure", "save", "saveFailure", "publishDecision",
        "answered", "failed", "raised", "gone"}
Saving == {"saveStart", "saveRun", "save", "saveFailure"}

\* The registry as it is constructed.
Seeded ==
  [entries |-> Seeds,
   record |-> [x \in Executions |-> "absent"],
   review |-> [v \in Reviews |-> "none"]]

NoWrite == [state |-> Seeded, number |-> 0]
Pending == {w \in Writers : writes[w] # NoWrite}

\* Mutant of Hydrated: what is known already is refreshed, nothing is added.
HydratedKnown(state) == [state EXCEPT !.entries = Seeds]

\* AgentRegistry.hydrate_state with merge on a registry that has only its
\* seeds: what the snapshot knows wins, what only the seeds know stays.
Hydrated(state) == [state EXCEPT !.entries = Seeds \cup @]

Init ==
  /\ mem = Seeded
  /\ row = NoWrite
  /\ writes = [w \in Writers |-> NoWrite]
  /\ exports = 0
  /\ pc = [r \in Requests |-> "idle"]
  /\ target \in [Decisions -> Reviews]
  /\ phase = "down"
  /\ pool = FALSE
  /\ crashes = 0
  /\ newest = 0
  /\ unsaved = {}
  /\ overtaken = {}
-----------------------------------------------------------------------------
Goto(r, label) == pc' = [pc EXCEPT ![r] = label]

\* save_snapshot(registry.export_state()) up to its first await: the export
\* and its serialization come before the pool is asked for a connection.
\* Without a pool nothing is written, and nothing is raised.
Export(w, state) ==
  IF pool THEN /\ exports' = exports + 1
               /\ writes' = [writes EXCEPT ![w] =
                               [state |-> state, number |-> exports + 1]]
          ELSE UNCHANGED <<exports, writes>>

\* The lookups of create_task and create_workflow, which answer with 404
\* before anything is stored; agents and tools refer to nothing.
Known(c) == Needs[c] \subseteq mem.entries

\* create_agent, create_tool, create_task, create_workflow of the registry:
\* the entry is stored under its id.
Registered(c) == [mem EXCEPT !.entries = @ \cup {c}]

\* The four POST handlers: look up, store, save.
Create(c) ==
  /\ phase = "up" /\ pc[c] = "idle"
  /\ Known(c)
  /\ mem' = Registered(c)
  /\ Export(c, Registered(c))
  /\ Goto(c, "save")
  /\ UNCHANGED <<row, target, process, history>>

\* run_task up to the save that follows start_task_execution.
StartTask(x) ==
  LET started == [mem EXCEPT !.record[x] = "running"]
  IN  /\ phase = "up" /\ pc[x] = "idle"
      /\ Task[x] \in mem.entries
      /\ mem' = started
      /\ Export(x, started)
      /\ Goto(x, "saveStart")
      /\ UNCHANGED <<row, target, process, history>>

\* run_agent has recorded its run and saves the registry once more; the
\* task's record is still running.
RecordRun(x) ==
  /\ pc[x] = "work"
  /\ Export(x, mem)
  /\ Goto(x, "saveRun")
  /\ UNCHANGED <<mem, row, target, process, history>>

\* Mutant of Ended: the decision of governance is stored as the status.
EndedWithDecision(x, status) ==
  [mem EXCEPT !.record[x] = IF status = "blocked" THEN "BLOCK" ELSE status]

\* What is written into the registry when a task ends with a status: its
\* record, and with no await in between the review of a stopped task.
Ended(x, status) ==
  [mem EXCEPT !.record[x] = status,
              !.review = [v \in Reviews |-> IF v = <<x, status>> THEN "pending"
                                            ELSE mem.review[v]]]

\* Mutant of FinishTask: the record is saved before the review is queued.
FinishTaskSavingFirst(x, status) ==
  LET finished == [mem EXCEPT !.record[x] = status]
  IN  /\ pc[x] = "finish"
      /\ mem' = finished
      /\ Export(x, finished)
      /\ Goto(x, "save")
      /\ UNCHANGED <<row, target, process, history>>

\* complete_task_execution: a blocked task queues its review, whose
\* publication is awaited before the save; a completed one is saved at once.
FinishTask(x, status) ==
  /\ pc[x] = "finish"
  /\ mem' = Ended(x, status)
  /\ IF status \in Stopped
     THEN Goto(x, "publish") /\ UNCHANGED <<writes, exports>>
     ELSE Goto(x, "save") /\ Export(x, Ended(x, status))
  /\ UNCHANGED <<row, target, process, history>>

\* The handler of run_task: the pipeline raised, or the publication of the
\* review of a finished task did.
FailTask(x) ==
  /\ pc[x] \in {"work", "publish"}
  /\ mem' = Ended(x, "failed")
  /\ Goto(x, "publishFailure")
  /\ UNCHANGED <<row, writes, exports, target, process, history>>

\* The review is published; the save follows.
Published(x) ==
  /\ pc[x] \in {"publish", "publishFailure"}
  /\ Export(x, mem)
  /\ Goto(x, IF pc[x] = "publish" THEN "save" ELSE "saveFailure")
  /\ UNCHANGED <<mem, row, target, process, history>>

\* The publication of a failure review raises inside the handler: the save
\* after it is never reached.
FailureUnpublished(x) ==
  /\ pc[x] = "publishFailure"
  /\ Goto(x, "raised")
  /\ unsaved' = unsaved \cup {x}
  /\ UNCHANGED <<mem, row, writes, exports, target, process, newest, overtaken>>

\* Mutant of Decide: the registry is exported before the decision is in it.
DecideSavingFirst(d) ==
  /\ phase = "up" /\ pc[d] = "idle"
  /\ mem.review[target[d]] # "none"
  /\ mem' = [mem EXCEPT !.review[target[d]] = "resolved"]
  /\ Export(d, mem)
  /\ Goto(d, "save")
  /\ UNCHANGED <<row, target, process, history>>

\* orchestrator.resolve_review without replay: the decision is written into
\* the review, then saved, then published.
Decide(d) ==
  LET decided == [mem EXCEPT !.review[target[d]] = "resolved"]
  IN  /\ phase = "up" /\ pc[d] = "idle"
      /\ mem.review[target[d]] # "none"
      /\ mem' = decided
      /\ Export(d, decided)
      /\ Goto(d, "save")
      /\ UNCHANGED <<row, target, process, history>>

\* _publish_review_item of the resolved review returns or raises.
DecisionPublished(d) ==
  /\ pc[d] = "publishDecision"
  /\ \E label \in {"answered", "raised"} : Goto(d, label)
  /\ UNCHANGED <<mem, row, writes, exports, target, process, history>>
-----------------------------------------------------------------------------
\* What follows a save, whether it succeeded or not.
AfterSave(r) ==
  IF r \in Decisions THEN "publishDecision"
  ELSE CASE pc[r] = "saveStart" -> "work"
         [] pc[r] = "saveRun" -> "finish"
         [] pc[r] = "save" -> "answered"
         [] pc[r] = "saveFailure" -> "failed"

\* The coroutine goes on; the startup begins to serve.
Resume(w) ==
  IF w = Boot
  THEN phase' = "up" /\ UNCHANGED pc
  ELSE pc[w] \in Saving /\ Goto(w, AfterSave(w)) /\ UNCHANGED phase

\* INSERT .. ON CONFLICT DO UPDATE: the row is replaced, whatever it held.
Land(w) ==
  /\ w \in Pending
  /\ row' = writes[w]
  /\ writes' = [writes EXCEPT ![w] = NoWrite]
  /\ newest' = IF newest < writes[w].number THEN writes[w].number ELSE newest
  /\ Resume(w)
  /\ UNCHANGED <<mem, exports, target, pool, crashes, unsaved, overtaken>>

\* The write raises; persist_runtime_state and _persist_registry swallow it.
SaveFails(w) ==
  /\ w \in Pending
  /\ writes' = [writes EXCEPT ![w] = NoWrite]
  /\ unsaved' = unsaved \cup ({w} \cap Requests)
  /\ Resume(w)
  /\ UNCHANGED <<mem, row, exports, target, pool, crashes, newest, overtaken>>

\* save_snapshot returned False: the process has no pool.
NotSaved(w) ==
  /\ ~ pool
  /\ IF w = Boot THEN phase = "starting" ELSE pc[w] \in Saving
  /\ unsaved' = unsaved \cup ({w} \cap Requests)
  /\ Resume(w)
  /\ UNCHANGED <<mem, row, writes, exports, target, pool, crashes, newest,
                 overtaken>>
-----------------------------------------------------------------------------
Finished == {r \in Requests : pc[r] \in {"answered", "failed", "raised"}}

\* KernelPersistenceStore.initialize: after its attempts there is a pool, or
\* there is none for as long as the process lives.
Connects == BOOLEAN

\* The registry lifespan goes on with: load_snapshot answers with the row,
\* with None where there is no row or no pool, or raises; without a snapshot
\* the seeds stay.
Loaded(hasPool, loads) ==
  IF hasPool /\ loads /\ row # NoWrite THEN Hydrated(row.state) ELSE Seeded

\* lifespan up to its save: initialize, load_snapshot, hydrate_state, and the
\* export of the registry that results, whatever it is, before serving.
Start(hasPool, loads) ==
  LET loaded == Loaded(hasPool, loads)
  IN  /\ phase = "down"
      /\ phase' = "starting"
      /\ pool' = hasPool
      /\ mem' = loaded
      /\ IF hasPool
         THEN /\ exports' = exports + 1
              /\ writes' = [writes EXCEPT ![Boot] =
                              [state |-> loaded, number |-> exports + 1]]
         ELSE UNCHANGED <<exports, writes>>
      /\ unsaved' = IF hasPool /\ loads THEN unsaved
                    ELSE unsaved \cup Finished
      /\ UNCHANGED <<row, pc, target, crashes, newest, overtaken>>

\* The process is killed: its memory, its requests and the writes that have
\* not reached the database are gone.
Crash ==
  /\ phase # "down" /\ crashes < MaxCrashes
  /\ phase' = "down"
  /\ crashes' = crashes + 1
  /\ mem' = Seeded
  /\ writes' = [w \in Writers |-> NoWrite]
  /\ pc' = [r \in Requests |-> IF pc[r] \in {"idle"} \/ r \in Finished
                               THEN pc[r] ELSE "gone"]
  /\ overtaken' = IF row.number < newest THEN overtaken \cup Finished
                  ELSE overtaken
  /\ UNCHANGED <<row, exports, target, pool, newest, unsaved>>

Request ==
  \/ \E c \in Creations : Create(c)
  \/ \E x \in Executions : StartTask(x)
  \/ \E d \in Decisions : Decide(d)

Progress(r) ==
  \/ r \in Executions /\ \/ RecordRun(r)
                         \/ \E status \in {"completed", "blocked"} :
                              FinishTask(r, status)
                         \/ FailTask(r)
                         \/ Published(r)
                         \/ FailureUnpublished(r)
  \/ r \in Decisions /\ DecisionPublished(r)

Save(w) == Land(w) \/ SaveFails(w) \/ NotSaved(w)

Next ==
  \/ Request
  \/ \E r \in Requests : Progress(r)
  \/ \E w \in Writers : Save(w)
  \/ \E hasPool \in Connects, loads \in BOOLEAN : Start(hasPool, loads)
  \/ Crash

Spec == Init /\ [][Next]_vars
-----------------------------------------------------------------------------
\* Type invariant.
TypeOK ==
  /\ mem \in States
  /\ row \in [state : States, number : 0..exports]
  /\ writes \in [Writers -> [state : States, number : 0..exports]]
  /\ exports \in Nat /\ newest \in 0..exports
  /\ pc \in [Requests -> PCs]
  /\ target \in [Decisions -> Reviews]
  /\ phase \in {"down", "starting", "up"}
  /\ pool \in BOOLEAN
  /\ crashes \in 0..MaxCrashes
  /\ unsaved \subseteq Requests /\ overtaken \subseteq Requests

\* A registry in which a stopped task has a review and no other has one, and
\* in which everything refers to known entries.
Consistent(state) ==
  /\ \A x \in Executions :
       /\ state.record[x] \in Stopped =>
            state.review[<<x, state.record[x]>>] # "none"
       /\ \A s \in Stopped :
            state.review[<<x, s>>] # "none" => state.record[x] \in {s, "failed"}
       /\ state.record[x] # "absent" => Task[x] \in state.entries
  /\ \A e \in state.entries : Needs[e] \subseteq state.entries

\* Whichever of the concurrent exports the database holds, and whatever was
\* lost on the way: after a restart no review is without its stopped task,
\* no stopped task without its review, and nothing refers to an entry the
\* registry does not know.
SnapshotsAreConsistent ==
  /\ Consistent(mem) /\ Consistent(row.state)
  /\ \A w \in Writers : Consistent(writes[w].state)

\* What a request has changed is in a registry.
Holds(r, state) ==
  IF r \in Creations THEN r \in state.entries
  ELSE IF r \in Executions THEN state.record[r] \notin {"absent", "running"}
  ELSE state.review[target[r]] = "resolved"

\* What was answered is in the row, or in a registry that still serves, and
\* stays there through restarts, unless its own save failed, a failed load
\* has dropped it, or the process was killed while the row was older than an
\* export that had landed before.
AcknowledgedSurvives ==
  \A r \in Requests :
    pc[r] = "answered" /\ r \notin unsaved \cup overtaken =>
      /\ phase # "down" => Holds(r, mem)
      /\ row.number = newest => Holds(r, row.state)

\* When no write is under way and the newest export is the one stored, the
\* row is the registry, but for tasks whose failure could not be published.
QuietRowIsCurrent ==
  phase = "up" /\ pool /\ Pending = {} /\ row.number = exports =>
    /\ row.state.entries = mem.entries
    /\ \A x \in Executions :
         pc[x] \notin {"publish", "publishFailure", "raised"} =>
           /\ row.state.record[x] = mem.record[x]
           /\ \A s \in Stopped :
                row.state.review[<<x, s>>] = mem.review[<<x, s>>]

\* README.md, "Data Plane Notes": "the kernel stores a durable control-plane
\* snapshot so agents, task runs, workflow runs, and review decisions are
\* restored after restart".  Violated: an older export may land last.
RestoredAfterRestart ==
  \A r \in Requests :
    pc[r] = "answered" /\ phase # "down" /\ r \notin unsaved => Holds(r, mem)
=============================================================================
