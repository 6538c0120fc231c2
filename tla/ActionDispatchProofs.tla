------------------------ MODULE ActionDispatchProofs ------------------------
(***************************************************************************)
(* Proofs about ActionDispatch, for every list of rules whose stops do not *)
(* look at the confidence, and every number of dispatches.                 *)
(***************************************************************************)
EXTENDS ActionDispatch, SequenceTheorems, WellFoundedInduction, TLAPS

\* A search through the list that can end does end, at its first rule.
LEMMA FirstHit ==
  ASSUME NEW c, Hits(c) # {}
  PROVE  LET i == CHOOSE i \in Hits(c) : \A j \in Hits(c) : i <= j
         IN  i \in Hits(c) /\ \A j \in Hits(c) : i <= j
<1>1. Hits(c) \subseteq Nat
  BY DEF Hits
<1>2. PICK i \in Hits(c) : \A j \in Hits(c) : ~ (<<j, i>> \in OpToRel(<, Nat))
  BY <1>1, WFMin, NatLessThanWellFounded
<1>3. \A j \in Hits(c) : ~ (j < i)
  BY <1>1, <1>2 DEF OpToRel
<1>4. \A j \in Hits(c) : i <= j
  BY <1>1, <1>3
<1> QED
  BY <1>4

\* What the evaluation answers, and why.
LEMMA VerdictMeaning ==
  ASSUME NEW c
  PROVE  \/ Verdict(c) = "ALLOW" /\ Hits(c) = {}
         \/ \E i \in Hits(c) :
              /\ \A j \in Hits(c) : i <= j
              /\ Verdict(c) = IF Raises(i, c) THEN "error" ELSE Rules[i].action
              /\ Verdict(c) # "ALLOW"
<1>1. CASE Hits(c) = {}
  BY <1>1 DEF Verdict
<1>2. CASE Hits(c) # {}
  <2> DEFINE i == CHOOSE i \in Hits(c) : \A j \in Hits(c) : i <= j
  <2>1. i \in Hits(c) /\ \A j \in Hits(c) : i <= j
    BY <1>2, FirstHit
  <2>2. Verdict(c) = IF Raises(i, c) THEN "error" ELSE Rules[i].action
    BY <1>2 DEF Verdict
  <2>3. i \in 1 .. Len(Rules)
    BY <2>1 DEF Hits
  <2>4. Rules[i].action # "ALLOW"
    BY <2>3, RulesAssumption DEF Stops
  <2> QED
    BY <2>1, <2>2, <2>4
<1> QED
  BY <1>1, <1>2

\* A rule that stops sees the same in the kernel's context and the service's.
LEMMA StopsSeeTheSame ==
  ASSUME NEW t \in Contexts, NEW confidence, NEW i \in 1 .. Len(Rules),
         Rules[i].action \in Stops
  PROVE  /\ Matches(i, KernelContext(t, confidence)) <=> Matches(i, t)
         /\ Raises(i, KernelContext(t, confidence)) <=> Raises(i, t)
<1>1. LooksAt(i) \subseteq Keys \ {"sensor_confidence"}
  BY RulesAssumption
<1>2. \A k \in Keys \ {"sensor_confidence"} : KernelContext(t, confidence)[k] = t[k]
  BY DEF Keys, KernelContext, Contexts
<1>3. \A k \in LooksAt(i) : KernelContext(t, confidence)[k] = t[k]
  BY <1>1, <1>2
<1> QED
  BY <1>3 DEF Matches, Raises

\* What the kernel's governance allows, the service's does not stop.
LEMMA KernelAllows ==
  ASSUME NEW t \in Contexts, NEW confidence,
         Verdict(KernelContext(t, confidence)) = "ALLOW"
  PROVE  /\ Verdict(t) \notin Stops
         /\ \A i \in 1 .. Len(Rules) : Rules[i].action \in Stops => ~ Matches(i, t)
<1>1. Hits(KernelContext(t, confidence)) = {}
  BY VerdictMeaning
<1>2. ASSUME NEW i \in 1 .. Len(Rules), Rules[i].action \in Stops
      PROVE  ~ Matches(i, t)
  BY <1>1, <1>2, StopsSeeTheSame DEF Hits
<1>3. Verdict(t) \notin Stops
  <2> SUFFICES ASSUME Verdict(t) \in Stops PROVE FALSE
    OBVIOUS
  <2>1. PICK i \in Hits(t) : Verdict(t) = IF Raises(i, t) THEN "error" ELSE Rules[i].action
    BY VerdictMeaning DEF Stops
  <2>2. i \in 1 .. Len(Rules) /\ Matches(i, t) /\ Rules[i].action \in Stops
    BY <2>1 DEF Hits, Stops
  <2> QED
    BY <1>2, <2>2
<1> QED
  BY <1>2, <1>3

\* A stop that matches what is not stopped stands behind a MONITOR rule.
LEMMA MaskedByMonitor ==
  ASSUME NEW t, Verdict(t) \in {"ALLOW", "MONITOR"},
         NEW i \in 1 .. Len(Rules), Rules[i].action \in Stops, Matches(i, t)
  PROVE  \E j \in 1 .. i - 1 : Rules[j].action = "MONITOR" /\ Matches(j, t)
<1>1. i \in Hits(t)
  BY DEF Hits
<1>2. PICK j \in Hits(t) : /\ j <= i
                           /\ Verdict(t) = IF Raises(j, t) THEN "error" ELSE Rules[j].action
                           /\ Verdict(t) # "ALLOW"
  BY <1>1, VerdictMeaning
<1>3. j \in 1 .. Len(Rules) /\ Matches(j, t) /\ Rules[j].action = "MONITOR"
  BY <1>2 DEF Hits
<1>4. j # i
  BY <1>3 DEF Stops
<1>5. j \in 1 .. i - 1
  BY <1>2, <1>3, <1>4
<1> QED
  BY <1>3, <1>5

-----------------------------------------------------------------------------
\* What is true of one dispatch: its answer tells its effect, it executes only
\* what its key had not executed when it arrived and its rules did not stop,
\* and it was sent by the kernel only when allowed there.
Call(c) ==
  /\ answer[c] # "none" <=> pc[c] = "answered"
  /\ c \in executed <=> answer[c] = "executed"
  /\ pc[c] = "executing" => attempt[c] \in 1 .. Limit
  /\ pc[c] = "backoff" => attempt[c] \in 1 .. Limit - 1
  /\ \A d \in before[c] : pc[d] = "answered" /\ Key[d] = Key[c]
  /\ pc[c] \in {"executing", "backoff"} \/ answer[c] \in {"executed", "failed"} =>
       before[c] \cap executed = {} /\ Verdict(template[c]) \in {"ALLOW", "MONITOR"}
  /\ answer[c] = "deduplicated" => executed \cap before[c] # {}
  /\ answer[c] \in {"block", "escalate"} => Verdict(template[c]) \in Stops
  /\ c \in FromKernel /\ pc[c] \notin {"idle", "unsent"} =>
       \E confidence \in {"low", "high", "malformed"} :
         Verdict(KernelContext(template[c], confidence)) = "ALLOW"
  /\ outcome[c] = "stopped" => pc[c] = "unsent"
  /\ outcome[c] = "completed" => pc[c] = "answered" /\ answer[c] # "error"

\* The cache holds what was executed, the dead letters what failed.
Kept ==
  /\ cached = {Key[c] : c \in executed}
  /\ \A c \in Calls : Dead(c) <=> answer[c] = "failed"
  /\ \A c \in Calls : Dead(c) => attempt[c] = Limit
  /\ \A i, j \in DOMAIN deadLetters : deadLetters[i] = deadLetters[j] => i = j

IInv == TypeOK /\ Kept /\ \A c \in Calls : Call(c)

\* What a step of dispatch c leaves alone, and that it takes no answer back.
Frame(c) ==
  /\ \A d \in Calls \ {c} : /\ pc'[d] = pc[d] /\ attempt'[d] = attempt[d]
                            /\ answer'[d] = answer[d] /\ outcome'[d] = outcome[d]
                            /\ before'[d] = before[d]
  /\ template' = template
  /\ executed' = executed \/ (executed' = executed \cup {c} /\ pc[c] # "answered")
  /\ pc[c] = "answered" => pc'[c] = "answered"

\* A dispatch is not disturbed by the steps of another.
LEMMA OthersUndisturbed ==
  ASSUME IInv, NEW c \in Calls, Frame(c), NEW d \in Calls, d # c
  PROVE  Call(d)'
<1>1. Call(d) /\ before[d] \subseteq Calls
  BY DEF IInv, TypeOK
<1>2. \A e \in before[d] : pc'[e] = "answered" /\ Key[e] = Key[d]
  BY <1>1 DEF Call, Frame
<1>3. before[d] \cap executed' = before[d] \cap executed
  BY <1>1 DEF Call, Frame
<1>4. d \in executed' <=> d \in executed
  BY DEF Frame
<1> QED
  BY <1>1, <1>2, <1>3, <1>4 DEF Call, Frame, KernelContext

\* The dead letters do not change, nor does any failed answer.
LEMMA KeptUnchanged ==
  ASSUME Kept, NEW c \in Calls, Frame(c), UNCHANGED <<deadLetters, cached, executed>>,
         answer[c] = "failed" <=> answer'[c] = "failed",
         answer[c] = "failed" => attempt'[c] = attempt[c]
  PROVE  Kept'
<1>1. \A d \in Calls : Dead(d)' <=> Dead(d)
  BY DEF Dead
<1>2. \A d \in Calls : answer'[d] = "failed" <=> answer[d] = "failed"
  BY DEF Frame
<1>3. \A d \in Calls : Dead(d) => attempt'[d] = Limit
  BY DEF Kept, Frame
<1> QED
  BY <1>1, <1>2, <1>3 DEF Kept, Frame

\* A dispatch without an answer has left no trace.
LEMMA Unanswered ==
  ASSUME IInv, NEW c \in Calls, pc[c] # "answered"
  PROVE  /\ answer[c] = "none" /\ c \notin executed /\ ~ Dead(c)
         /\ \A d \in Calls : c \notin before[d]
         /\ before[c] \subseteq Calls \ {c}
<1>1. answer[c] = "none" /\ c \notin executed
  BY DEF IInv, Call
<1>2. ~ Dead(c)
  BY <1>1 DEF IInv, Kept
<1>3. \A d \in Calls : c \notin before[d]
  BY DEF IInv, Call
<1>4. before[c] \subseteq Calls
  BY DEF IInv, TypeOK
<1> QED
  BY <1>1, <1>2, <1>3, <1>4

LEMMA InitIInv == Init => IInv
  BY SMTT(20) DEF Init, IInv, TypeOK, Kept, Call, PCs, Outcomes, Answers, Dead, Limit

\* The dispatch is sent, or is not.
LEMMA SendKeeps ==
  ASSUME IInv, NEW c \in Calls,
         ClientSends(c) \/ \E confidence \in {"low", "high", "malformed"} :
                             KernelEvaluates(c, confidence)
  PROVE  IInv'
<1>1. TypeOK'
  BY DEF IInv, TypeOK, ClientSends, KernelEvaluates, PCs, Outcomes
<1>2. Frame(c)
  BY DEF IInv, TypeOK, ClientSends, KernelEvaluates, Frame
<1>3. Kept'
  BY <1>2, KeptUnchanged DEF IInv, ClientSends, KernelEvaluates
<1>4. /\ pc[c] = "idle" /\ pc'[c] \in {"sent", "unsent"}
      /\ UNCHANGED <<template, answer, executed, before, attempt>>
      /\ outcome'[c] = "stopped" => outcome[c] = "stopped" \/ pc'[c] = "unsent"
      /\ outcome'[c] = "completed" => outcome[c] = "completed"
      /\ c \in FromKernel /\ pc'[c] # "unsent" =>
           \E confidence \in {"low", "high", "malformed"} :
             Verdict(KernelContext(template[c], confidence)) = "ALLOW"
  BY DEF IInv, TypeOK, ClientSends, KernelEvaluates
<1>5. answer[c] = "none" /\ c \notin executed /\ before[c] \subseteq Calls \ {c}
  BY <1>4, Unanswered
<1>6. Call(c) /\ \A d \in before[c] : pc'[d] = "answered" /\ Key[d] = Key[c]
  BY <1>2, <1>5 DEF IInv, Call, Frame
<1>7. outcome[c] \notin {"stopped", "completed"}
  BY <1>4, <1>6 DEF Call
<1>8. Call(c)'
  BY <1>4, <1>5, <1>6, <1>7 DEF Call, KernelContext
<1> QED
  BY <1>1, <1>2, <1>3, <1>8, OthersUndisturbed DEF IInv

LEMMA ArriveKeeps == ASSUME IInv, NEW c \in Calls, Arrive(c) PROVE IInv'
<1> DEFINE earlier == {d \in Calls : Key[d] = Key[c] /\ pc[d] = "answered"}
<1>1. TypeOK' /\ Frame(c)
  BY DEF IInv, TypeOK, Arrive, Answered, PCs, Answers, Frame, Limit
<1>2. Kept'
  <2>1. answer[c] # "failed"
    BY DEF IInv, Call, Arrive
  <2>2. answer'[c] # "failed"
    BY <2>1 DEF IInv, TypeOK, Arrive, Answered
  <2> QED
    BY <1>1, <2>1, <2>2, KeptUnchanged DEF IInv, Arrive
<1>3. before'[c] = earlier /\ executed' = executed /\ template' = template
  BY DEF IInv, TypeOK, Arrive
<1>4. \A d \in earlier : pc'[d] = "answered" /\ Key[d] = Key[c]
  BY DEF IInv, TypeOK, Arrive, Answered
<1>5. Key[c] \in cached <=> earlier \cap executed # {}
  <2>1. \A d \in executed : d \in Calls /\ pc[d] = "answered"
    BY DEF IInv, TypeOK, Call
  <2>2. cached = {Key[d] : d \in executed}
    BY DEF IInv, Kept
  <2> QED
    BY <2>1, <2>2
<1>6. /\ answer'[c] # "none" <=> pc'[c] = "answered"
      /\ c \notin executed /\ answer'[c] # "executed" /\ answer'[c] # "failed"
      /\ pc'[c] = "executing" => attempt'[c] \in 1 .. Limit
      /\ pc'[c] \in {"executing", "answered"}
  BY DEF IInv, TypeOK, Call, Arrive, Answered, Limit
<1>7. pc'[c] = "executing" => earlier \cap executed = {} /\ Verdict(template[c]) \in {"ALLOW", "MONITOR"}
  BY <1>5 DEF IInv, TypeOK, Arrive, Answered
<1>8. answer'[c] = "deduplicated" => earlier \cap executed # {}
  BY <1>5 DEF IInv, TypeOK, Call, Arrive, Answered
<1>9. answer'[c] \in {"block", "escalate"} => Verdict(template[c]) \in Stops
  BY DEF IInv, TypeOK, Call, Arrive, Answered
<1>10. c \in FromKernel => \E confidence \in {"low", "high", "malformed"} :
                             Verdict(KernelContext(template[c], confidence)) = "ALLOW"
  BY DEF IInv, Call, Arrive
<1>11. outcome'[c] = outcome[c] /\ outcome[c] \notin {"stopped", "completed"}
  BY DEF IInv, Call, Arrive
<1>12. Call(c)'
  <2> HIDE DEF earlier
  <2> QED
    BY <1>3, <1>4, <1>6, <1>7, <1>8, <1>9, <1>10, <1>11 DEF Call, KernelContext
<1> QED
  BY <1>1, <1>2, <1>12, OthersUndisturbed DEF IInv

LEMMA SucceedKeeps == ASSUME IInv, NEW c \in Calls, Succeed(c) PROVE IInv'
<1>1. TypeOK' /\ Frame(c)
  BY DEF IInv, TypeOK, Succeed, Answered, PCs, Answers, Frame
<1>2. Kept'
  <2>1. cached' = {Key[d] : d \in executed'}
    BY DEF IInv, Kept, Succeed
  <2>2. answer[c] # "failed" /\ answer'[c] # "failed"
    BY Unanswered DEF IInv, TypeOK, Succeed, Answered
  <2>3. \A d \in Calls : Dead(d)' <=> Dead(d)
    BY DEF Succeed, Dead
  <2>4. \A d \in Calls : answer'[d] = "failed" <=> answer[d] = "failed"
    BY <1>1, <2>2 DEF Frame
  <2> QED
    BY <2>1, <2>3, <2>4 DEF IInv, Kept, Succeed
<1>3. c \notin before[c] /\ before[c] \subseteq Calls
  BY Unanswered DEF Succeed
<1>4. /\ pc[c] = "executing" /\ pc'[c] = "answered" /\ answer'[c] = "executed"
      /\ executed' = executed \cup {c}
      /\ UNCHANGED <<template, before, outcome>>
  BY DEF IInv, TypeOK, Succeed, Answered
<1>5. Call(c) /\ \A d \in before[c] : pc'[d] = "answered" /\ Key[d] = Key[c]
  BY <1>1, <1>3 DEF IInv, Call, Frame
<1>6. before[c] \cap executed' = {} /\ Verdict(template[c]) \in {"ALLOW", "MONITOR"}
  BY <1>3, <1>4, <1>5 DEF Call
<1>7. outcome[c] # "stopped"
  BY <1>4, <1>5 DEF Call
<1>8. Call(c)'
  BY <1>4, <1>5, <1>6, <1>7 DEF Call, KernelContext
<1> QED
  BY <1>1, <1>2, <1>8, OthersUndisturbed DEF IInv

\* A failure that is tried again, and its next attempt.
LEMMA RetryKeeps ==
  ASSUME IInv, NEW c \in Calls, Resume(c) \/ (Fail(c) /\ attempt[c] # Limit)
  PROVE  IInv'
<1>1. TypeOK' /\ Frame(c)
  BY DEF IInv, TypeOK, Call, Resume, Fail, PCs, Frame, Limit
<1>2. Kept'
  BY <1>1, KeptUnchanged DEF IInv, Call, Resume, Fail
<1>3. /\ pc[c] \in {"executing", "backoff"}
      /\ pc'[c] = "executing" => attempt'[c] \in 1 .. Limit
      /\ pc'[c] = "backoff" => attempt'[c] \in 1 .. Limit - 1
      /\ pc'[c] \in {"executing", "backoff"}
      /\ UNCHANGED <<template, answer, executed, before, outcome>>
  BY DEF IInv, TypeOK, Call, Resume, Fail, Limit
<1>4. answer[c] = "none" /\ before[c] \subseteq Calls \ {c}
  BY <1>3, Unanswered
<1>5. Call(c) /\ \A d \in before[c] : pc'[d] = "answered" /\ Key[d] = Key[c]
  BY <1>1, <1>4 DEF IInv, Call, Frame
<1>6. Call(c)'
  BY <1>3, <1>4, <1>5 DEF Call, KernelContext
<1> QED
  BY <1>1, <1>2, <1>6, OthersUndisturbed DEF IInv

\* The last failure.
LEMMA DieKeeps ==
  ASSUME IInv, NEW c \in Calls, Fail(c), attempt[c] = Limit
  PROVE  IInv'
<1>0. deadLetters \in Seq(Calls) /\ deadLetters' = Append(deadLetters, c)
  BY DEF IInv, TypeOK, Fail
<1>1. TypeOK' /\ Frame(c)
  <2>1. deadLetters' \in Seq(Calls)
    BY <1>0, AppendProperties
  <2> QED
    BY <2>1 DEF IInv, TypeOK, Fail, Answered, PCs, Answers, Frame
<1>2. /\ deadLetters' \in Seq(Calls)
      /\ Len(deadLetters') = Len(deadLetters) + 1
      /\ \A i \in 1 .. Len(deadLetters) : deadLetters'[i] = deadLetters[i]
      /\ deadLetters'[Len(deadLetters) + 1] = c
      /\ Len(deadLetters) \in Nat
      /\ DOMAIN deadLetters = 1 .. Len(deadLetters)
      /\ DOMAIN deadLetters' = 1 .. Len(deadLetters) + 1
  BY <1>0, AppendProperties
<1>3. answer[c] = "none" /\ answer'[c] = "failed" /\ UNCHANGED <<cached, executed, attempt>>
  BY Unanswered DEF IInv, TypeOK, Fail, Answered
<1>4. ~ Dead(c)
  BY <1>3 DEF IInv, Kept
<1>5. \A i \in 1 .. Len(deadLetters) + 1 : i \in 1 .. Len(deadLetters) \/ i = Len(deadLetters) + 1
  BY <1>2
<1>6. \A d \in Calls : Dead(d)' <=> Dead(d) \/ d = c
  <2>1. /\ Len(deadLetters) + 1 \in 1 .. Len(deadLetters) + 1
        /\ \A i \in 1 .. Len(deadLetters) : i \in 1 .. Len(deadLetters) + 1
    BY <1>2
  <2> QED
    BY <1>2, <1>5, <2>1 DEF Dead
<1>7. \A i, j \in DOMAIN deadLetters' : deadLetters'[i] = deadLetters'[j] => i = j
  BY <1>2, <1>4, <1>5 DEF IInv, Kept, Dead
<1>8. \A d \in Calls : answer'[d] = "failed" <=> answer[d] = "failed" \/ d = c
  BY <1>1, <1>3 DEF Frame
<1>9. Kept'
  BY <1>3, <1>6, <1>7, <1>8 DEF IInv, Kept
<1>10. /\ pc[c] = "executing" /\ pc'[c] = "answered" /\ before[c] \subseteq Calls \ {c}
       /\ UNCHANGED <<template, before, outcome>>
  BY Unanswered DEF IInv, TypeOK, Fail, Answered
<1>11. Call(c) /\ \A d \in before[c] : pc'[d] = "answered" /\ Key[d] = Key[c]
  BY <1>1, <1>10 DEF IInv, Call, Frame
<1>12. Call(c)'
  BY <1>3, <1>10, <1>11 DEF Call, KernelContext
<1> QED
  BY <1>1, <1>9, <1>12, OthersUndisturbed DEF IInv

\* The kernel hears of the dispatch, or no longer waits.
LEMMA HearKeeps ==
  ASSUME IInv, NEW c \in Calls, KernelHears(c) \/ KernelGivesUp(c)
  PROVE  IInv'
<1>1. TypeOK'
  BY DEF IInv, TypeOK, KernelHears, KernelGivesUp, PCs, Outcomes
<1>2. Frame(c)
  BY DEF IInv, TypeOK, KernelHears, KernelGivesUp, Frame
<1>3. Kept'
  BY <1>2, KeptUnchanged DEF IInv, KernelHears, KernelGivesUp
<1>4. /\ pc'[c] = pc[c] \/ (pc[c] = "sent" /\ pc'[c] = "unsent")
      /\ \A d \in Calls : pc[d] = "answered" => pc'[d] = "answered"
      /\ outcome'[c] \in {"failed", "completed"}
      /\ outcome'[c] = "completed" => pc'[c] = "answered" /\ answer[c] # "error"
      /\ UNCHANGED <<template, attempt, answer, executed, before>>
  BY DEF IInv, TypeOK, KernelHears, KernelGivesUp
<1>5. Call(c) /\ \A d \in before[c] : pc'[d] = "answered" /\ Key[d] = Key[c]
  BY <1>4 DEF IInv, TypeOK, Call
<1>6. Call(c)'
  BY <1>4, <1>5 DEF Call, KernelContext
<1> QED
  BY <1>1, <1>2, <1>3, <1>6, OthersUndisturbed DEF IInv

\* Nothing that clients, retries and the kernel's timeouts do together breaks
\* the invariant.
THEOREM Invariance == Spec => []IInv
<1>1. ASSUME IInv, Next PROVE IInv'
  <2>1. PICK c \in Calls :
          \/ ClientSends(c)
          \/ \E confidence \in {"low", "high", "malformed"} : KernelEvaluates(c, confidence)
          \/ Serve(c) \/ KernelHears(c) \/ KernelGivesUp(c)
    BY <1>1 DEF Next
  <2> QED
    BY <1>1, <2>1, SendKeeps, ArriveKeeps, SucceedKeeps, RetryKeeps, DieKeeps, HearKeeps
       DEF Serve
<1>2. ASSUME IInv, UNCHANGED vars PROVE IInv'
  BY <1>2 DEF vars, IInv, TypeOK, Kept, Dead, Call, KernelContext
<1> QED
  BY <1>1, <1>2, InitIInv, PTL DEF Spec

\* Every reachable state is well typed: no dispatch is attempted a fourth time.
THEOREM TypeCorrect == Spec => []TypeOK
<1>1. IInv => TypeOK
  BY DEF IInv
<1> QED
  BY <1>1, Invariance, PTL

\* The idempotency cache does its work for dispatches that do not overlap.
THEOREM Idempotency == Spec => []RepeatsOnlyWhenConcurrent
<1>1. ASSUME IInv, NEW c \in executed, NEW d \in executed PROVE c \notin before[d]
  <2>1. d \in Calls /\ answer[d] = "executed"
    BY <1>1 DEF IInv, TypeOK, Call
  <2>2. before[d] \cap executed = {}
    BY <1>1, <2>1 DEF IInv, Call
  <2> QED
    BY <1>1, <2>2
<1>2. IInv => RepeatsOnlyWhenConcurrent
  BY <1>1 DEF RepeatsOnlyWhenConcurrent
<1> QED
  BY <1>2, Invariance, PTL

\* The answers of the service, its dead letters and what was executed agree.
THEOREM TruthfulAnswers == Spec => []AnswersTellEffects
<1>1. IInv => AnswersTellEffects
  BY DEF IInv, Kept, Call, AnswersTellEffects
<1> QED
  BY <1>1, Invariance, PTL

\* Two services evaluate contexts built by two pieces of code, and agree.
THEOREM Agreement == Spec => []AllowedIsNotRefused
<1>1. ASSUME IInv, NEW c \in FromKernel
      PROVE  answer[c] \notin {"block", "escalate", "deduplicated"}
  <2>1. c \in Calls /\ Call(c) /\ template[c] \in Contexts
    BY <1>1, CallsAssumption, TemplatesAssumption DEF IInv, TypeOK
  <2>2. pc[c] = "answered" => Verdict(template[c]) \notin Stops
    BY <1>1, <2>1, KernelAllows DEF Call
  <2>3. answer[c] \notin {"block", "escalate"}
    BY <2>1, <2>2 DEF Call
  <2>4. ASSUME answer[c] = "deduplicated" PROVE FALSE
    <3>1. PICK d \in before[c] : d \in executed
      BY <2>1, <2>4 DEF Call
    <3>2. d \in Calls /\ Key[c] = Key[d]
      BY <1>1, <2>1, <3>1 DEF IInv, TypeOK, Call
    <3>3. d = c
      BY <1>1, <3>2, CallsAssumption
    <3> QED
      BY <2>1, <2>4, <3>1, <3>3 DEF Call
  <2> QED
    BY <2>3, <2>4
<1>2. IInv => AllowedIsNotRefused
  BY <1>1 DEF AllowedIsNotRefused
<1> QED
  BY <1>2, Invariance, PTL

\* How far the order of the rules softens the stops: behind a MONITOR rule, for
\* clients other than the kernel, and no further.
THEOREM StopsBehindMonitor == Spec => []StopsUnlessMasked
<1>1. ASSUME IInv, NEW c \in executed, NEW i \in 1 .. Len(Rules),
             Rules[i].action \in Stops, Matches(i, template[c])
      PROVE  /\ c \notin FromKernel
             /\ \E j \in 1 .. i - 1 : Rules[j].action = "MONITOR" /\ Matches(j, template[c])
  <2>1. c \in Calls /\ Call(c) /\ template[c] \in Contexts
    BY <1>1, TemplatesAssumption DEF IInv, TypeOK
  <2>2. pc[c] = "answered" /\ Verdict(template[c]) \in {"ALLOW", "MONITOR"}
    BY <1>1, <2>1 DEF Call
  <2>3. c \notin FromKernel
    BY <1>1, <2>1, <2>2, KernelAllows DEF Call
  <2> QED
    BY <1>1, <2>2, <2>3, MaskedByMonitor
<1>2. IInv => StopsUnlessMasked
  BY <1>1 DEF StopsUnlessMasked
<1> QED
  BY <1>2, Invariance, PTL

\* What the kernel records of a run, against what became of its action.
THEOREM TruthfulOutcomes == Spec => []OutcomeTellsEffect
<1>1. ASSUME IInv, AllowedIsNotRefused, NEW c \in FromKernel
      PROVE  /\ outcome[c] = "stopped" => c \notin executed
             /\ outcome[c] = "completed" => c \in executed \/ Dead(c)
  <2>1. c \in Calls /\ Call(c) /\ answer[c] \in Answers \cup {"none"}
    BY <1>1, CallsAssumption DEF IInv, TypeOK
  <2>2. outcome[c] = "completed" => answer[c] \in {"executed", "failed"}
    BY <1>1, <2>1 DEF Call, Answers, AllowedIsNotRefused
  <2> QED
    BY <1>1, <2>1, <2>2 DEF IInv, Kept, Call
<1>2. IInv /\ AllowedIsNotRefused => OutcomeTellsEffect
  BY <1>1 DEF OutcomeTellsEffect
<1> QED
  BY <1>2, Invariance, Agreement, PTL
=============================================================================
