--------------------------- MODULE ActionDispatch ---------------------------
(***************************************************************************)
(* ActionOrchestrator.dispatch with its idempotency cache, its retries and *)
(* its dead letters, for concurrent requests: some of clients, some of the *)
(* kernel, which evaluates the same template before it sends it, gives up  *)
(* after its timeout, and never gives a key of its own.  One action per    *)
(* stretch between two awaits.                                             *)
(***************************************************************************)
EXTENDS GovernanceRules

CONSTANTS
  Calls,        \* the dispatches
  FromKernel,   \* those that run_pipeline makes
  Key,          \* Key[c]: idempotency_key of dispatch c
  Templates     \* what a dispatch may ask for: contexts of the action service

\* idempotency_key is a fresh uuid unless the client gives it; the kernel does
\* not.
ASSUME CallsAssumption ==
  /\ FromKernel \subseteq Calls
  /\ \A c \in FromKernel, d \in Calls : Key[c] = Key[d] => c = d
ASSUME TemplatesAssumption == Templates \subseteq Contexts

VARIABLES
  template,      \* what each dispatch asks for
  pc,            \* where each dispatch is
  attempt,       \* attempts begun
  answer,        \* status the service answers with
  outcome,       \* for the kernel's dispatches: what the run is recorded as
  cached,        \* the keys of idempotency_cache
  deadLetters,   \* dead_letter_queue
  executed,      \* the dispatches whose action was executed, in the world
  before         \* before[c]: dispatches of its key answered when c arrived

vars == <<template, pc, attempt, answer, outcome, cached, deadLetters, executed, before>>

Limit == 3
PCs == {"idle", "sent", "executing", "backoff", "answered", "unsent"}
Answers == {"executed", "deduplicated", "block", "escalate", "failed", "error"}
Outcomes == {"running", "stopped", "completed", "failed"}

\* Mutant of KernelContext: the amount is not handed on.
KernelContextWithoutAmount(t, confidence) ==
  [t EXCEPT !.sensor_confidence = confidence, !.amount = "small"]

\* _build_governance_context: the confidence is that of the fused event.
KernelContext(t, confidence) == [t EXCEPT !.sensor_confidence = confidence]

Answered(c, status) ==
  /\ pc' = [pc EXCEPT ![c] = "answered"]
  /\ answer' = [answer EXCEPT ![c] = status]

Init ==
  /\ template \in [Calls -> Templates]
  /\ pc = [c \in Calls |-> "idle"]
  /\ attempt = [c \in Calls |-> 0]
  /\ answer = [c \in Calls |-> "none"]
  /\ outcome = [c \in Calls |-> "none"]
  /\ cached = {}
  /\ deadLetters = <<>>
  /\ executed = {}
  /\ before = [c \in Calls |-> {}]
-----------------------------------------------------------------------------
\* The kernel asks the governance service, and dispatches what it allows.  An
\* error of the evaluation fails the run; everything else stops the action.
KernelEvaluates(c, confidence) ==
  /\ pc[c] = "idle"
  /\ c \in FromKernel
  /\ LET verdict == Verdict(KernelContext(template[c], confidence))
     IN  \/ /\ verdict = "ALLOW"
            /\ pc' = [pc EXCEPT ![c] = "sent"]
            /\ outcome' = [outcome EXCEPT ![c] = "running"]
         \/ /\ verdict # "ALLOW"
            /\ pc' = [pc EXCEPT ![c] = "unsent"]
            /\ outcome' = [outcome EXCEPT ![c] = IF verdict = "error" THEN "failed"
                                                 ELSE "stopped"]
  /\ UNCHANGED <<template, attempt, answer, cached, deadLetters, executed, before>>

\* Another client of the action service.
ClientSends(c) ==
  /\ pc[c] = "idle"
  /\ c \notin FromKernel
  /\ pc' = [pc EXCEPT ![c] = "sent"]
  /\ UNCHANGED <<template, attempt, answer, outcome, cached, deadLetters, executed, before>>

\* dispatch, up to its first await: the cache, then the service's own rules.
Arrive(c) ==
  /\ pc[c] = "sent"
  /\ before' = [before EXCEPT ![c] = {d \in Calls : Key[d] = Key[c] /\ pc[d] = "answered"}]
  /\ LET verdict == Verdict(template[c])
     IN  \/ /\ Key[c] \in cached
            /\ Answered(c, "deduplicated")
            /\ UNCHANGED attempt
         \/ /\ Key[c] \notin cached
            /\ verdict \in Stops \cup {"error"}
            /\ Answered(c, CASE verdict = "BLOCK" -> "block"
                             [] verdict = "ESCALATE" -> "escalate"
                             [] OTHER -> "error")
            /\ UNCHANGED attempt
         \/ /\ Key[c] \notin cached
            /\ verdict \in {"ALLOW", "MONITOR"}
            /\ pc' = [pc EXCEPT ![c] = "executing"]
            /\ attempt' = [attempt EXCEPT ![c] = 1]
            /\ UNCHANGED answer
  /\ UNCHANGED <<template, outcome, cached, deadLetters, executed>>

\* Mutant of Succeed: the result is not cached.
SucceedUncached(c) ==
  /\ pc[c] = "executing"
  /\ executed' = executed \cup {c}
  /\ Answered(c, "executed")
  /\ UNCHANGED <<template, attempt, outcome, cached, deadLetters, before>>

\* _execute returns: cached and answered without an await between.
Succeed(c) ==
  /\ pc[c] = "executing"
  /\ executed' = executed \cup {c}
  /\ cached' = cached \cup {Key[c]}
  /\ Answered(c, "executed")
  /\ UNCHANGED <<template, attempt, outcome, deadLetters, before>>

\* Mutant of Fail: the last failure is answered but not kept.
FailWithoutDeadLetter(c) ==
  /\ pc[c] = "executing"
  /\ IF attempt[c] = Limit THEN Answered(c, "failed")
     ELSE pc' = [pc EXCEPT ![c] = "backoff"] /\ UNCHANGED answer
  /\ UNCHANGED <<template, attempt, outcome, cached, deadLetters, executed, before>>

\* Mutant of Fail: the last attempt is not told from the others.
FailUncounted(c) ==
  /\ pc[c] = "executing"
  /\ pc' = [pc EXCEPT ![c] = "backoff"]
  /\ UNCHANGED <<template, attempt, answer, outcome, cached, deadLetters, executed, before>>

\* _execute raises: sleep and try again, or after three attempts the dead
\* letters.  Its key is not cached.  (The stand-in for executors that the
\* repository has does not raise; the loop is there for those that will.)
Fail(c) ==
  /\ pc[c] = "executing"
  /\ IF attempt[c] = Limit
     THEN Answered(c, "failed") /\ deadLetters' = Append(deadLetters, c)
     ELSE /\ pc' = [pc EXCEPT ![c] = "backoff"]
          /\ UNCHANGED <<answer, deadLetters>>
  /\ UNCHANGED <<template, attempt, outcome, cached, executed, before>>

\* Mutant of Resume: the loop starts over.
ResumeFromStart(c) ==
  /\ pc[c] = "backoff"
  /\ pc' = [pc EXCEPT ![c] = "executing"]
  /\ attempt' = [attempt EXCEPT ![c] = 1]
  /\ UNCHANGED <<template, answer, outcome, cached, deadLetters, executed, before>>

\* The sleep between two attempts ends.  The cache is not looked at again.
Resume(c) ==
  /\ pc[c] = "backoff"
  /\ pc' = [pc EXCEPT ![c] = "executing"]
  /\ attempt' = [attempt EXCEPT ![c] = @ + 1]
  /\ UNCHANGED <<template, answer, outcome, cached, deadLetters, executed, before>>

\* Mutant of KernelHears: the HTTP status is not looked at either.
KernelHearsAnything(c) ==
  /\ pc[c] = "answered"
  /\ outcome[c] = "running"
  /\ outcome' = [outcome EXCEPT ![c] = "completed"]
  /\ UNCHANGED <<template, pc, attempt, answer, cached, deadLetters, executed, before>>

\* The kernel gets the answer.  Only the HTTP status counts (raise_for_status);
\* the status in the answer is published, but the run is recorded from the
\* decision alone.
KernelHears(c) ==
  /\ pc[c] = "answered"
  /\ outcome[c] = "running"
  /\ outcome' = [outcome EXCEPT ![c] = IF answer[c] = "error" THEN "failed"
                                       ELSE "completed"]
  /\ UNCHANGED <<template, pc, attempt, answer, cached, deadLetters, executed, before>>

\* The kernel's timeout, or a lost connection: the request was lost, or the
\* service goes on with it.
KernelGivesUp(c) ==
  /\ outcome[c] = "running"
  /\ outcome' = [outcome EXCEPT ![c] = "failed"]
  /\ pc' \in {pc, [pc EXCEPT ![c] = IF @ = "sent" THEN "unsent" ELSE @]}
  /\ UNCHANGED <<template, attempt, answer, cached, deadLetters, executed, before>>
-----------------------------------------------------------------------------
Serve(c) == Arrive(c) \/ Succeed(c) \/ Fail(c) \/ Resume(c)

Next ==
  \E c \in Calls :
    \/ ClientSends(c)
    \/ \E confidence \in {"low", "high", "malformed"} : KernelEvaluates(c, confidence)
    \/ Serve(c)
    \/ KernelHears(c)
    \/ KernelGivesUp(c)

\* The service goes on with every coroutine, sleeps end, and the kernel hears
\* or gives up.
Fairness ==
  \A c \in Calls : WF_vars(Serve(c)) /\ WF_vars(KernelHears(c) \/ KernelGivesUp(c))

Spec == Init /\ [][Next]_vars /\ Fairness
-----------------------------------------------------------------------------
\* Type invariant.
TypeOK ==
  /\ template \in [Calls -> Templates]
  /\ pc \in [Calls -> PCs]
  /\ attempt \in [Calls -> 0 .. Limit]
  /\ answer \in [Calls -> Answers \cup {"none"}]
  /\ outcome \in [Calls -> Outcomes \cup {"none"}]
  /\ cached \subseteq {Key[c] : c \in Calls}
  /\ deadLetters \in Seq(Calls)
  /\ executed \subseteq Calls
  /\ before \in [Calls -> SUBSET Calls]

\* One key is executed twice only by dispatches that overlapped: whichever
\* arrived later found the earlier one not answered yet.
RepeatsOnlyWhenConcurrent ==
  \A c, d \in executed : c # d /\ Key[c] = Key[d] => c \notin before[d]

Dead(c) == \E i \in DOMAIN deadLetters : deadLetters[i] = c

\* What a dispatch is told is what happened: "executed" and "failed" exactly
\* for what was executed, or died after three attempts and is kept once;
\* "deduplicated" only after an execution of its key.
AnswersTellEffects ==
  /\ \A c \in Calls : c \in executed <=> answer[c] = "executed"
  /\ \A c \in Calls : Dead(c) <=> answer[c] = "failed"
  /\ \A c \in Calls : Dead(c) => attempt[c] = Limit
  /\ \A i, j \in DOMAIN deadLetters : deadLetters[i] = deadLetters[j] => i = j
  /\ \A c \in Calls : answer[c] = "deduplicated" =>
       executed \cap before[c] # {}

\* What the kernel's governance allowed, the action service does not refuse,
\* although it builds its context itself, and with another confidence.
AllowedIsNotRefused ==
  \A c \in FromKernel : answer[c] \notin {"block", "escalate", "deduplicated"}

\* A stop rule that matches an executed action was masked by a MONITOR rule
\* before it, and never for an action of the kernel.
StopsUnlessMasked ==
  \A c \in executed, i \in 1 .. Len(Rules) :
    Rules[i].action \in Stops /\ Matches(i, template[c]) =>
      /\ c \notin FromKernel
      /\ \E j \in 1 .. i - 1 : Rules[j].action = "MONITOR" /\ Matches(j, template[c])

\* The kernel's record of a run: nothing stopped was executed, and a completed
\* run's action was executed or is among the dead letters.
OutcomeTellsEffect ==
  \A c \in FromKernel :
    /\ outcome[c] = "stopped" => c \notin executed
    /\ outcome[c] = "completed" => c \in executed \/ Dead(c)

\* Every dispatch that is sent is answered or lost, and no run hangs on one.
DispatchesEnd ==
  \A c \in Calls : pc[c] = "sent" ~> pc[c] \in {"answered", "unsent"} /\ outcome[c] # "running"

\* docs/security-audit.md:6: "Governance rules enforce hard stops for privacy,
\* harmful intent, large transfers, and irreversible actions".
HardStops ==
  \A c \in executed, i \in 1 .. Len(Rules) :
    Rules[i].action \in Stops => ~ Matches(i, template[c])
=============================================================================
