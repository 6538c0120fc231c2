----------------------- MODULE ReviewResolutionProofs -----------------------
(***************************************************************************)
(* Proofs about ReviewResolution, for every set of operators' requests,    *)
(* every number of reviews and every length of the queue.                  *)
(***************************************************************************)
EXTENDS ReviewResolution, SequenceTheorems, TLAPS

\* The queue holds the newest reviews in order, as many as it can.
Shape ==
  /\ \A i \in 1 .. Len(queue) : queue[i] = issued + 1 - i
  /\ Len(queue) = issued \/ (Len(queue) = ReviewLimit /\ issued >= ReviewLimit)

Accepted == {"replay", "publish", "returned", "raised", "lost"}

\* What a request that was not turned down has asked for, was permitted to
\* ask for, and has decided.
Caller(r) ==
  /\ pc[r] \in Accepted => /\ call[r] \in Calls
                           /\ call[r].review <= issued
                           /\ Permitted(call[r], risk[call[r].review])
  /\ pc[r] = "replay" => call[r].rerun
  /\ pc[r] \in {"publish", "returned"} => Decided(r, call[r].review)
  /\ pc[r] = "lost" => issued - call[r].review >= ReviewLimit
  /\ \A v \in Reviews : Decided(r, v) => /\ pc[r] \in {"publish", "returned", "raised"}
                                         /\ v = call[r].review

IInv == TypeOK /\ Shape /\ (\A r \in Requests : Caller(r)) /\ ReplayLinkIsLatest

\* A review is in the queue exactly when fewer than ReviewLimit are newer.
LEMMA QueuedMeansNew ==
  ASSUME TypeOK, Shape, NEW v \in Reviews
  PROVE  Queued(v) <=> v <= issued /\ issued - v < ReviewLimit
<1>1. /\ issued \in Nat /\ Len(queue) \in Nat /\ v \in Nat /\ v >= 1
      /\ DOMAIN queue = 1 .. Len(queue) /\ Len(queue) <= ReviewLimit
      /\ ReviewLimit \in Nat
  BY BoundsAssumption DEF TypeOK, Reviews
<1>2. ASSUME Queued(v) PROVE v <= issued /\ issued - v < ReviewLimit
  <2>1. PICK i \in 1 .. Len(queue) : queue[i] = v
    BY <1>1, <1>2 DEF Queued
  <2>2. v = issued + 1 - i
    BY <2>1 DEF Shape
  <2> QED
    BY <1>1, <2>1, <2>2
<1>3. ASSUME v <= issued, issued - v < ReviewLimit PROVE Queued(v)
  <2> DEFINE place == issued + 1 - v
  <2>0. Len(queue) = issued \/ (Len(queue) = ReviewLimit /\ issued >= ReviewLimit)
    BY DEF Shape
  <2>1. place \in 1 .. Len(queue)
    <3>1. \A n, l, w, q \in Nat : w >= 1 /\ w <= n /\ n - w < l /\ (q = n \/ q = l)
                                     => n + 1 - w \in 1 .. q
      OBVIOUS
    <3> QED
      BY <1>1, <1>3, <2>0, <3>1
  <2>2. queue[place] = issued + 1 - place
    BY <2>1 DEF Shape
  <2>3. queue[place] = v
    BY <1>1, <2>2
  <2> QED
    BY <1>1, <2>1, <2>3 DEF Queued
<1> QED
  BY <1>2, <1>3

\* queue_review keeps the shape of the queue and the risk of older reviews.
LEMMA EnqueueKeeps ==
  ASSUME TypeOK, Shape, NEW level \in Risks, Enqueue(level)
  PROVE  /\ issued' = issued + 1 /\ issued' \in 0 .. MaxReviews
         /\ queue' \in Seq(1 .. issued') /\ Len(queue') <= ReviewLimit
         /\ risk' \in [Reviews -> Risks \cup {"none"}]
         /\ \A v \in Reviews : v <= issued => risk'[v] = risk[v]
         /\ Shape'
<1> DEFINE longer == <<issued + 1>> \o queue
           kept == IF Len(longer) < ReviewLimit THEN Len(longer) ELSE ReviewLimit
<1>1. /\ issued' = issued + 1 /\ issued' \in 0 .. MaxReviews
      /\ issued \in Nat /\ ReviewLimit \in Nat \ {0} /\ MaxReviews \in Nat
  BY BoundsAssumption DEF TypeOK, Enqueue
<1>2. /\ risk' \in [Reviews -> Risks \cup {"none"}]
      /\ \A v \in Reviews : v <= issued => risk'[v] = risk[v]
  BY <1>1 DEF TypeOK, Enqueue, Reviews
<1>3. /\ queue \in Seq(1 .. issued') /\ <<issued + 1>> \in Seq(1 .. issued')
      /\ Len(<<issued + 1>>) = 1 /\ <<issued + 1>>[1] = issued + 1
  BY <1>1 DEF TypeOK
<1>4. /\ longer \in Seq(1 .. issued')
      /\ Len(longer) = Len(queue) + 1
      /\ longer[1] = issued + 1
      /\ \A i \in 2 .. Len(longer) : longer[i] = queue[i - 1]
  <2>1. Len(queue) \in Nat
    BY <1>3
  <2> QED
    BY <1>3, <2>1, ConcatProperties
<1>5. /\ kept \in 1 .. Len(longer) /\ kept <= ReviewLimit
      /\ kept = Len(queue) + 1 \/ (kept = ReviewLimit /\ Len(queue) >= ReviewLimit)
  <2>1. Len(queue) \in Nat
    BY <1>3
  <2> QED
    BY <1>1, <1>4, <2>1
<1>6. queue' = SubSeq(longer, 1, kept)
  BY DEF Enqueue
<1>7. /\ queue' \in Seq(1 .. issued')
      /\ Len(queue') = kept
      /\ \A i \in 1 .. kept : queue'[i] = longer[i]
  <2>1. kept \in Int /\ \A i \in 1 .. kept : longer[i] \in 1 .. issued'
    <3>1. /\ kept \in Int
          /\ \A i \in 1 .. kept : i \in 1 .. Len(longer)
      BY <1>4, <1>5
    <3> QED
      BY <1>4, <3>1, ElementOfSeq
  <2> HIDE DEF longer, kept
  <2> QED
    BY <1>5, <1>6, <2>1, SubSeqProperties
<1>8. \A i \in 1 .. kept : queue'[i] = issued' + 1 - i
  <2> TAKE i \in 1 .. kept
  <2>1. Len(queue) \in Nat /\ kept \in Nat
    BY <1>3, <1>4, <1>5
  <2>2. CASE i = 1
    BY <1>1, <1>4, <1>7, <2>2
  <2>3. CASE i # 1
    <3>1. i - 1 \in 1 .. Len(queue) /\ i \in 2 .. Len(longer)
      BY <1>4, <1>5, <2>1, <2>3
    <3>2. queue[i - 1] = issued + 1 - (i - 1)
      BY <3>1 DEF Shape
    <3> QED
      BY <1>1, <1>4, <1>7, <3>1, <3>2
  <2> QED
    BY <2>2, <2>3
<1>9. kept = issued' \/ (kept = ReviewLimit /\ issued' >= ReviewLimit)
  BY <1>1, <1>3, <1>5 DEF Shape, TypeOK
<1> QED
  BY <1>1, <1>2, <1>5, <1>7, <1>8, <1>9 DEF Shape

LEMMA InitIInv == Init => IInv
<1> SUFFICES ASSUME Init PROVE IInv
  OBVIOUS
<1>1. TypeOK
  BY BoundsAssumption DEF Init, TypeOK, PCs
<1>2. Shape
  BY DEF Init, Shape
<1>3. \A r \in Requests, v \in Reviews : ~ Decided(r, v)
  BY DEF Init, Decided
<1>4. \A r \in Requests : Caller(r)
  BY <1>3 DEF Init, Caller, Accepted
<1>5. ReplayLinkIsLatest
  BY DEF Init, ReplayLinkIsLatest
<1> QED
  BY <1>1, <1>2, <1>4, <1>5 DEF IInv

\* A decision adds its request to the history of its review and changes no
\* other entry.
LEMMA RecordAdds ==
  ASSUME TypeOK, NEW r \in Requests, NEW c \in Calls, Record(r, c)
  PROVE  /\ history' \in [Reviews -> Seq(Requests)]
         /\ replayOf' \in [Reviews -> Requests \cup {NoRequest}]
         /\ \A v \in Reviews \ {c.review} : history'[v] = history[v]
         /\ Len(history'[c.review]) = Len(history[c.review]) + 1
         /\ \A i \in 1 .. Len(history[c.review]) :
              history'[c.review][i] = history[c.review][i]
         /\ history'[c.review][Len(history[c.review]) + 1] = r
         /\ \A s \in Requests, v \in Reviews :
              Decided(s, v)' <=> Decided(s, v) \/ (s = r /\ v = c.review)
<1> DEFINE old == history[c.review]
           new == history'[c.review]
<1>1. c.review \in Reviews /\ old \in Seq(Requests)
  BY DEF Calls, TypeOK
<1>2. new = Append(old, r)
  BY <1>1 DEF Record, TypeOK
<1>3. /\ new \in Seq(Requests)
      /\ Len(new) = Len(old) + 1
      /\ \A i \in 1 .. Len(old) : new[i] = old[i]
      /\ new[Len(old) + 1] = r
  BY <1>1, <1>2, AppendProperties
<1>4. \A v \in Reviews \ {c.review} : history'[v] = history[v]
  BY DEF Record, TypeOK
<1>5. history' \in [Reviews -> Seq(Requests)]
  BY <1>1, <1>3 DEF Record, TypeOK
<1>6. replayOf' \in [Reviews -> Requests \cup {NoRequest}]
  BY DEF Record, TypeOK
<1>7. ASSUME NEW s \in Requests, NEW v \in Reviews
      PROVE  Decided(s, v)' <=> Decided(s, v) \/ (s = r /\ v = c.review)
  <2>1. CASE v # c.review
    BY <1>4, <2>1 DEF Decided
  <2>2. CASE v = c.review
    <3>1. /\ Len(old) \in Nat
          /\ DOMAIN old = 1 .. Len(old)
          /\ DOMAIN new = 1 .. Len(old) + 1
      BY <1>1, <1>3
    <3>2. (\E i \in DOMAIN new : new[i] = s) <=> (\E i \in DOMAIN old : old[i] = s) \/ s = r
      <4>1. \A i \in 1 .. Len(old) + 1 : i \in 1 .. Len(old) \/ i = Len(old) + 1
        BY <3>1
      <4>2. /\ Len(old) + 1 \in 1 .. Len(old) + 1
            /\ \A i \in 1 .. Len(old) : i \in 1 .. Len(old) + 1
        BY <3>1
      <4> HIDE DEF old, new
      <4> QED
        BY <1>3, <3>1, <4>1, <4>2
    <3> QED
      BY <2>2, <3>2 DEF Decided
  <2> QED
    BY <2>1, <2>2
<1> QED
  BY <1>3, <1>4, <1>5, <1>6, <1>7

\* Queueing a review leaves every request as it stands.
LEMMA EnqueueIInv ==
  ASSUME IInv, NEW level \in Risks, Enqueue(level),
         UNCHANGED <<history, replayOf, pc, call>>,
         spawned' \in [Requests -> 0 .. 2]
  PROVE  IInv'
<1>1. /\ issued' = issued + 1 /\ issued' \in 0 .. MaxReviews
      /\ queue' \in Seq(1 .. issued') /\ Len(queue') <= ReviewLimit
      /\ risk' \in [Reviews -> Risks \cup {"none"}]
      /\ \A v \in Reviews : v <= issued => risk'[v] = risk[v]
      /\ Shape'
  BY EnqueueKeeps DEF IInv
<1>2. TypeOK'
  BY <1>1 DEF IInv, TypeOK
<1>3. \A r \in Requests, v \in Reviews : Decided(r, v)' <=> Decided(r, v)
  BY DEF Decided
<1>4. ASSUME NEW r \in Requests PROVE Caller(r)'
  <2>1. Caller(r) /\ issued \in Nat /\ ReviewLimit \in Nat
    BY BoundsAssumption DEF IInv, TypeOK
  <2>2. pc[r] \in Accepted => /\ call[r].review \in Reviews
                              /\ call[r].review \in Nat
                              /\ call[r].review <= issued
                              /\ risk'[call[r].review] = risk[call[r].review]
    BY <1>1, <2>1 DEF Caller, Calls, Reviews
  <2>3. pc[r] \in Accepted => Permitted(call[r], risk[call[r].review])'
    BY <2>1, <2>2 DEF Caller, Permitted
  <2>4. pc[r] \in Accepted => call[r].review <= issued'
    BY <1>1, <2>1, <2>2
  <2>5. pc[r] = "lost" => issued' - call[r].review >= ReviewLimit
    BY <1>1, <2>1, <2>2 DEF Caller, Accepted
  <2>6. pc[r] \in {"publish", "returned"} => Decided(r, call[r].review)'
    BY <2>1 DEF Caller, Decided
  <2> QED
    BY <1>3, <2>1, <2>3, <2>4, <2>5, <2>6 DEF Caller
<1>5. ReplayLinkIsLatest'
  BY DEF IInv, ReplayLinkIsLatest
<1> QED
  BY <1>1, <1>2, <1>4, <1>5 DEF IInv

\* A request moves on without a decision.
LEMMA MoveIInv ==
  ASSUME IInv, NEW r \in Requests,
         UNCHANGED <<issued, queue, risk, history, replayOf, spawned>>,
         \/ \E c \in Calls : TurnDown(r, c) \/ StartReplay(r, c)
         \/ ReplayReturns(r)
         \/ ReplayRaises(r)
         \/ Publish(r)
  PROVE  IInv'
<1>1. /\ \A s \in Requests \ {r} : pc'[s] = pc[s] /\ call'[s] = call[s]
      /\ pc' \in [Requests -> PCs]
      /\ call' \in [Requests -> Calls \cup {NoCall}]
      /\ \/ pc[r] = "idle" /\ pc'[r] \in {"notFound", "refused"} /\ call'[r] = call[r]
         \/ /\ pc[r] = "idle" /\ pc'[r] = "replay" /\ call'[r] \in Calls
            /\ call'[r].rerun /\ Queued(call'[r].review)
            /\ Permitted(call'[r], risk[call'[r].review])
         \/ /\ pc[r] = "replay" /\ pc'[r] = "lost" /\ call'[r] = call[r]
            /\ ~ Queued(call[r].review)
         \/ pc[r] = "replay" /\ pc'[r] = "raised" /\ call'[r] = call[r]
         \/ pc[r] = "publish" /\ pc'[r] \in {"returned", "raised"} /\ call'[r] = call[r]
  <2>1. CASE \E c \in Calls : TurnDown(r, c)
    BY <2>1 DEF IInv, TypeOK, PCs, TurnDown, Goto
  <2>2. CASE \E c \in Calls : StartReplay(r, c)
    BY <2>2 DEF IInv, TypeOK, PCs, StartReplay, Goto
  <2>3. CASE ReplayReturns(r)
    <3>1. CASE ~ Queued(call[r].review)
      BY <2>3, <3>1 DEF IInv, TypeOK, PCs, ReplayReturns, Goto
    <3>2. CASE Queued(call[r].review)
      <4>1. /\ pc[r] = "replay" /\ Record(r, call[r])
        BY <2>3, <3>2 DEF ReplayReturns
      <4>2. call[r] \in Calls /\ call[r].review \in Reviews
        BY <4>1 DEF IInv, Caller, Accepted, Calls
      <4>3. Len(history'[call[r].review]) = Len(history[call[r].review]) + 1
        BY <4>1, <4>2, RecordAdds DEF IInv
      <4>4. Len(history[call[r].review]) \in Nat
        BY <4>2 DEF IInv, TypeOK
      <4> QED
        BY <4>3, <4>4
    <3> QED
      BY <3>1, <3>2
  <2>4. CASE ReplayRaises(r)
    BY <2>4 DEF IInv, TypeOK, PCs, ReplayRaises, Goto
  <2>5. CASE Publish(r)
    BY <2>5 DEF IInv, TypeOK, PCs, Publish, Goto
  <2> QED
    BY <2>1, <2>2, <2>3, <2>4, <2>5
<1>2. TypeOK' /\ Shape'
  BY <1>1 DEF IInv, TypeOK, Shape
<1>3. \A s \in Requests, v \in Reviews : Decided(s, v)' <=> Decided(s, v)
  BY DEF Decided
<1>4. ASSUME NEW s \in Requests, s # r PROVE Caller(s)'
  <2>1. Caller(s) /\ pc'[s] = pc[s] /\ call'[s] = call[s]
    BY <1>1, <1>4 DEF IInv
  <2>2. pc[s] \in {"publish", "returned"} => Decided(s, call[s].review)'
    BY <2>1 DEF Caller, Decided
  <2> QED
    BY <1>3, <2>1, <2>2 DEF Caller, Permitted
<1>5. Caller(r)'
  <2>1. Caller(r)
    BY DEF IInv
  <2>2. pc'[r] \in Accepted => /\ call'[r] \in Calls
                               /\ call'[r].review <= issued
                               /\ Permitted(call'[r], risk[call'[r].review])
    <3>1. CASE pc'[r] = "replay"
      BY <1>1, <3>1, QueuedMeansNew DEF IInv, Calls
    <3>2. CASE pc'[r] # "replay"
      BY <1>1, <2>1, <3>2 DEF Caller, Accepted
    <3> QED
      BY <3>1, <3>2
  <2>3. pc'[r] = "lost" => issued - call'[r].review >= ReviewLimit
    <3> SUFFICES ASSUME pc'[r] = "lost" PROVE issued - call'[r].review >= ReviewLimit
      OBVIOUS
    <3>1. /\ call'[r] = call[r] /\ ~ Queued(call[r].review)
          /\ call[r].review \in Reviews /\ call[r].review <= issued
      BY <1>1, <2>1 DEF Caller, Accepted, Calls
    <3>2. ~ (issued - call[r].review < ReviewLimit)
      BY <3>1, QueuedMeansNew DEF IInv
    <3> QED
      BY <3>1, <3>2, BoundsAssumption DEF IInv, TypeOK, Reviews
  <2>4. pc'[r] \in {"publish", "returned"} => Decided(r, call[r].review)' /\ call'[r] = call[r]
    BY <1>1, <2>1 DEF Caller, Decided
  <2>5. \A v \in Reviews : Decided(r, v) => pc'[r] \in {"returned", "raised"} /\ v = call'[r].review
    BY <1>1, <2>1 DEF Caller
  <2>6. pc'[r] = "replay" => call'[r].rerun
    BY <1>1
  <2>7. Permitted(call[r], risk[call[r].review])' <=> Permitted(call'[r], risk[call'[r].review])
    BY DEF Permitted
  <2> QED
    BY <1>3, <2>2, <2>3, <2>4, <2>5, <2>6, <2>7 DEF Caller
<1>6. ReplayLinkIsLatest'
  <2>1. ASSUME NEW v \in Reviews, NEW i \in DOMAIN history[v]
        PROVE  call'[history[v][i]] = call[history[v][i]]
    <3>1. history[v][i] \in Requests /\ Decided(history[v][i], v)
      BY <2>1 DEF IInv, TypeOK, Decided
    <3>2. pc[history[v][i]] \in {"publish", "returned", "raised"}
      BY <3>1 DEF IInv, Caller
    <3> QED
      BY <1>1, <3>1, <3>2
  <2> QED
    BY <2>1 DEF IInv, ReplayLinkIsLatest
<1> QED
  BY <1>2, <1>4, <1>5, <1>6 DEF IInv

\* Both ways to a decision, at once or after a replay.
Decides(r, c) ==
  /\ pc[r] \in {"idle", "replay"}
  /\ Queued(c.review)
  /\ Permitted(c, risk[c.review])
  /\ call' = [call EXCEPT ![r] = c]
  /\ Record(r, c)
  /\ UNCHANGED <<issued, queue, risk, spawned>>

\* The last decision with a replay is the one whose replay the item tells of,
\* because the decision and the link are written without an await in between.
LEMMA DecideKeepsLink ==
  ASSUME IInv, NEW r \in Requests, NEW c \in Calls, Decides(r, c)
  PROVE  ReplayLinkIsLatest'
<1>1. /\ \A v \in Reviews \ {c.review} : history'[v] = history[v]
      /\ Len(history'[c.review]) = Len(history[c.review]) + 1
      /\ history' \in [Reviews -> Seq(Requests)]
      /\ \A i \in 1 .. Len(history[c.review]) :
           history'[c.review][i] = history[c.review][i]
      /\ history'[c.review][Len(history[c.review]) + 1] = r
  BY RecordAdds DEF IInv, Decides
<1>2. /\ call' \in [Requests -> Calls \cup {NoCall}]
      /\ call'[r] = c
      /\ \A s \in Requests \ {r} : call'[s] = call[s]
      /\ replayOf \in [Reviews -> Requests \cup {NoRequest}]
      /\ replayOf' = IF c.rerun THEN [replayOf EXCEPT ![c.review] = r] ELSE replayOf
      /\ history \in [Reviews -> Seq(Requests)]
  BY DEF IInv, TypeOK, Decides, Record
<1>3. ASSUME NEW v \in Reviews, NEW i \in DOMAIN history[v]
      PROVE  call'[history[v][i]] = call[history[v][i]]
  <2>1. history[v][i] \in Requests /\ Decided(history[v][i], v)
    BY <1>2, <1>3 DEF Decided
  <2>2. pc[history[v][i]] \in {"publish", "returned", "raised"}
    BY <2>1 DEF IInv, Caller
  <2>3. history[v][i] # r
    BY <2>2 DEF Decides
  <2> QED
    BY <1>2, <2>1, <2>3
<1>4. ASSUME NEW v \in Reviews
      PROVE  LET reruns == {i \in DOMAIN history'[v] : call'[history'[v][i]].rerun}
             IN  IF reruns = {} THEN replayOf'[v] = NoRequest
                 ELSE \E i \in reruns : /\ \A j \in reruns : j <= i
                                        /\ replayOf'[v] = history'[v][i]
  <2> DEFINE before == {i \in DOMAIN history[v] : call[history[v][i]].rerun}
             after == {i \in DOMAIN history'[v] : call'[history'[v][i]].rerun}
             last == Len(history[v]) + 1
  <2>1. IF before = {} THEN replayOf[v] = NoRequest
        ELSE \E i \in before : /\ \A j \in before : j <= i
                               /\ replayOf[v] = history[v][i]
    BY DEF IInv, ReplayLinkIsLatest
  <2>2. CASE v # c.review
    <3>1. history'[v] = history[v] /\ replayOf'[v] = replayOf[v]
      BY <1>1, <1>2, <2>2
    <3>2. after = before
      BY <1>3, <3>1
    <3> QED
      BY <2>1, <3>1, <3>2
  <2>3. CASE v = c.review
    <3>1. /\ Len(history[v]) \in Nat /\ last \in Nat
          /\ DOMAIN history[v] = 1 .. Len(history[v])
          /\ DOMAIN history'[v] = 1 .. last
      BY <1>1, <1>2, <2>3
    <3>2. /\ \A i \in DOMAIN history'[v] : i \in DOMAIN history[v] \/ i = last
          /\ \A i \in DOMAIN history[v] : i \in DOMAIN history'[v] /\ i <= last
          /\ last \in DOMAIN history'[v] /\ last <= last
      BY <3>1
    <3>3. /\ history'[v][last] = r /\ call'[history'[v][last]] = c
          /\ \A i \in DOMAIN history[v] : /\ history'[v][i] = history[v][i]
                                          /\ call'[history'[v][i]] = call[history[v][i]]
      BY <1>1, <1>2, <1>3, <2>3, <3>1
    <3>4. CASE c.rerun
      <4>1. last \in after /\ \A j \in after : j <= last
        BY <3>2, <3>3, <3>4
      <4>2. replayOf'[v] = r
        BY <1>2, <2>3, <3>4
      <4> QED
        BY <3>3, <4>1, <4>2
    <3>5. CASE ~ c.rerun
      <4>1. after = before
        BY <3>2, <3>3, <3>5
      <4>2. replayOf'[v] = replayOf[v]
        BY <1>2, <3>5
      <4>3. \A i \in before : history'[v][i] = history[v][i]
        BY <3>3
      <4> HIDE DEF before, after
      <4> QED
        BY <2>1, <4>1, <4>2, <4>3 DEF after
    <3> QED
      BY <3>4, <3>5
  <2> QED
    BY <2>2, <2>3
<1> QED
  BY <1>4 DEF ReplayLinkIsLatest

LEMMA DecideIInv ==
  ASSUME IInv, NEW r \in Requests, NEW c \in Calls, Decides(r, c)
  PROVE  IInv'
<1>1. /\ history' \in [Reviews -> Seq(Requests)]
      /\ replayOf' \in [Reviews -> Requests \cup {NoRequest}]
      /\ \A s \in Requests, v \in Reviews :
           Decided(s, v)' <=> Decided(s, v) \/ (s = r /\ v = c.review)
  BY RecordAdds DEF IInv, Decides
<1>2. /\ pc' \in [Requests -> PCs] /\ pc'[r] = "publish"
      /\ call' \in [Requests -> Calls \cup {NoCall}] /\ call'[r] = c
      /\ \A s \in Requests \ {r} : pc'[s] = pc[s] /\ call'[s] = call[s]
      /\ UNCHANGED <<issued, queue, risk, spawned>>
  BY DEF IInv, TypeOK, PCs, Decides, Record, Goto
<1>3. TypeOK' /\ Shape'
  BY <1>1, <1>2 DEF IInv, TypeOK, Shape
<1>4. ASSUME NEW s \in Requests, s # r PROVE Caller(s)'
  <2>1. Caller(s) /\ pc'[s] = pc[s] /\ call'[s] = call[s]
    BY <1>2, <1>4 DEF IInv
  <2>2. pc[s] \in {"publish", "returned"} => Decided(s, call[s].review)'
    <3>1. pc[s] \in {"publish", "returned"} =>
            call[s].review \in Reviews /\ Decided(s, call[s].review)
      BY <2>1 DEF Caller, Accepted, Calls
    <3>2. \A v \in Reviews : Decided(s, v)' <=> Decided(s, v)
      BY <1>1, <1>4
    <3> QED
      BY <2>1, <3>1, <3>2 DEF Decided
  <2> QED
    BY <1>1, <1>2, <1>4, <2>1, <2>2 DEF Caller, Permitted
<1>5. Caller(r)'
  <2>1. c.review \in Reviews /\ c.review <= issued
    BY QueuedMeansNew DEF IInv, Decides, Calls
  <2>2. Permitted(call[r], risk[call[r].review])'
    BY <1>2 DEF Decides, Permitted
  <2>3. Decided(r, call[r].review)'
    <3>1. Decided(r, c.review)'
      BY <1>1, <2>1
    <3> QED
      BY <1>2, <3>1 DEF Decided
  <2>4. \A v \in Reviews : ~ Decided(r, v)
    BY DEF IInv, Caller, Decides
  <2> QED
    BY <1>1, <1>2, <2>1, <2>2, <2>3, <2>4 DEF Caller
<1> QED
  BY <1>3, <1>4, <1>5, DecideKeepsLink DEF IInv

\* A replay that returns while its review is still queued.
LEMMA ReturnDecides ==
  ASSUME IInv, NEW r \in Requests, ReplayReturns(r), Queued(call[r].review)
  PROVE  call[r] \in Calls /\ Decides(r, call[r])
<1>1. /\ call[r] \in Calls /\ Permitted(call[r], risk[call[r].review])
      /\ pc[r] = "replay"
  BY DEF IInv, Caller, Accepted, ReplayReturns
<1>2. call' = [call EXCEPT ![r] = call[r]]
  BY DEF IInv, TypeOK, ReplayReturns
<1> QED
  BY <1>1, <1>2 DEF ReplayReturns, Decides

LEMMA StepIInv == ASSUME IInv, Next PROVE IInv'
<1>1. ASSUME QueueReview PROVE IInv'
  BY <1>1, EnqueueIInv DEF QueueReview, IInv, TypeOK
<1>2. ASSUME NEW r \in Requests, ReplayQueues(r) PROVE IInv'
  <2>1. spawned' \in [Requests -> 0 .. 2]
    <3>1. spawned[r] \in 0 .. 2 /\ spawned[r] < 2 /\ spawned \in [Requests -> 0 .. 2]
      BY <1>2 DEF ReplayQueues, IInv, TypeOK
    <3>2. spawned[r] + 1 \in 0 .. 2
      BY <3>1
    <3>3. spawned' = [spawned EXCEPT ![r] = spawned[r] + 1]
      BY <1>2 DEF ReplayQueues
    <3> QED
      BY <3>1, <3>2, <3>3
  <2> QED
    BY <1>2, <2>1, EnqueueIInv DEF ReplayQueues
<1>3. ASSUME NEW r \in Requests, NEW c \in Calls, TurnDown(r, c) \/ StartReplay(r, c)
      PROVE  IInv'
  BY <1>3, MoveIInv DEF TurnDown, StartReplay
<1>4. ASSUME NEW r \in Requests, NEW c \in Calls, DecideAtOnce(r, c) PROVE IInv'
  BY <1>4, DecideIInv DEF DecideAtOnce, Decides
<1>5. ASSUME NEW r \in Requests, ReplayReturns(r) PROVE IInv'
  <2>1. CASE Queued(call[r].review)
    BY <1>5, <2>1, ReturnDecides, DecideIInv
  <2>2. CASE ~ Queued(call[r].review)
    BY <1>5, <2>2, MoveIInv DEF ReplayReturns
  <2> QED
    BY <2>1, <2>2
<1>6. ASSUME NEW r \in Requests, ReplayRaises(r) \/ Publish(r) PROVE IInv'
  BY <1>6, MoveIInv DEF ReplayRaises, Publish
<1> QED
  BY <1>1, <1>2, <1>3, <1>4, <1>5, <1>6 DEF Next, Request, Progress

\* Nothing that operators, replays and other executions do together breaks
\* the invariant.
THEOREM Invariance == Spec => []IInv
<1>1. ASSUME IInv, UNCHANGED vars PROVE IInv'
  BY <1>1 DEF vars, IInv, TypeOK, Shape, Queued, Caller, Decided, Permitted,
              ReplayLinkIsLatest
<1> QED
  BY <1>1, InitIInv, StepIInv, PTL DEF Spec

\* Every reachable state is well typed, and the deque keeps its maximum.
THEOREM TypeCorrect == Spec => []TypeOK
<1>1. IInv => TypeOK
  BY DEF IInv
<1> QED
  BY <1>1, Invariance, PTL

\* The role gate holds for what was done, not only when it was asked for: the
\* risk of a review does not change under a replay that awaits.
THEOREM RoleGate == Spec => []GatedByRole
<1>1. ASSUME IInv, NEW r \in Requests,
             pc[r] = "replay" \/ \E v \in Reviews : Decided(r, v)
      PROVE  Permitted(call[r], risk[call[r].review]) /\ call[r] \in Calls
  BY <1>1 DEF IInv, Caller, Accepted
<1>2. ASSUME NEW c \in Calls, NEW level, Permitted(c, level)
      PROVE  /\ level = "critical" => c.role \in Privileged
             /\ level = "high" \/ c.rerun => c.role \in Privileged \cup {"shift_lead"}
             /\ c.role = "analyst" => c.resolution = "rejected"
  BY <1>2 DEF Permitted, Privileged
<1>3. IInv => GatedByRole
  BY <1>1, <1>2 DEF GatedByRole
<1> QED
  BY <1>3, Invariance, PTL

\* However many operators resolve one review at once, its replay summary is
\* that of the last decision with a replay.
THEOREM LatestReplay == Spec => []ReplayLinkIsLatest
<1>1. IInv => ReplayLinkIsLatest
  BY DEF IInv
<1> QED
  BY <1>1, Invariance, PTL

\* A review is forgotten, and a replay lost, only when as many newer reviews
\* exist as the queue holds.
THEOREM LossOnlyToNewer == Spec => []LostOnlyToNewerReviews
<1>1. ASSUME IInv, NEW v \in 1 .. issued PROVE Queued(v) \/ issued - v >= ReviewLimit
  <2>1. v \in Reviews /\ v \in Nat /\ issued \in Nat /\ ReviewLimit \in Nat /\ v <= issued
    BY <1>1, BoundsAssumption DEF IInv, TypeOK, Reviews
  <2>2. Queued(v) <=> v <= issued /\ issued - v < ReviewLimit
    BY <1>1, <2>1, QueuedMeansNew DEF IInv
  <2> QED
    BY <2>1, <2>2
<1>2. ASSUME IInv, NEW r \in Requests, pc[r] = "lost"
      PROVE  issued - call[r].review >= ReviewLimit /\ \A v \in Reviews : ~ Decided(r, v)
  BY <1>2 DEF IInv, Caller
<1>3. IInv => LostOnlyToNewerReviews
  BY <1>1, <1>2 DEF LostOnlyToNewerReviews
<1> QED
  BY <1>3, Invariance, PTL

\* A request that moves on without a decision changes only its own phase.
LEMMA MovePhase ==
  ASSUME IInv, NEW r \in Requests, NEW label, Goto(r, label), UNCHANGED history
  PROVE  /\ pc'[r] = label
         /\ [s \in Requests |-> Phase(s)]'
              = [[s \in Requests |-> Phase(s)] EXCEPT ![r] = Phase(r)']
<1>1. pc'[r] = label /\ \A s \in Requests \ {r} : pc'[s] = pc[s]
  BY DEF IInv, TypeOK, Goto
<1>2. \A s \in Requests, v \in Reviews : Decided(s, v)' <=> Decided(s, v)
  BY DEF Decided
<1>3. \A s \in Requests \ {r} : Phase(s)' = Phase(s)
  BY <1>1, <1>2 DEF Phase
<1> QED
  BY <1>1, <1>3

\* A decision is one of the ledger, at the moment it is recorded.
LEMMA DecideRefines ==
  ASSUME IInv, NEW r \in Requests, NEW c \in Calls, Decides(r, c)
  PROVE  Ledger!Decide(r, c.review)
<1>1. /\ pc'[r] = "publish" /\ \A s \in Requests \ {r} : pc'[s] = pc[s]
      /\ history' = [history EXCEPT ![c.review] = Append(@, r)]
  BY DEF IInv, TypeOK, Decides, Record, Goto
<1>2. \A s \in Requests, v \in Reviews :
        Decided(s, v)' <=> Decided(s, v) \/ (s = r /\ v = c.review)
  BY RecordAdds DEF IInv, Decides
<1>3. \A s \in Requests \ {r} : Phase(s)' = Phase(s)
  BY <1>1, <1>2 DEF Phase
<1>4. Phase(r) \in {"idle", "open"} /\ Phase(r)' = "decided"
  BY <1>1 DEF Phase, Decides
<1> QED
  BY <1>1, <1>3, <1>4 DEF Ledger!Decide, Ledger!Become

LEMMA StepRefines == ASSUME IInv, Next PROVE [Ledger!Next]_(Ledger!vars)
<1>1. ASSUME \A s \in Requests : pc'[s] = pc[s], UNCHANGED history
      PROVE  UNCHANGED Ledger!vars
  <2>1. \A s \in Requests, v \in Reviews : Decided(s, v)' <=> Decided(s, v)
    BY <1>1 DEF Decided
  <2> QED
    BY <1>1, <2>1 DEF Ledger!vars, Phase
<1>2. ASSUME QueueReview \/ \E r \in Requests : ReplayQueues(r)
      PROVE  UNCHANGED Ledger!vars
  BY <1>1, <1>2 DEF QueueReview, ReplayQueues
<1>3. ASSUME NEW r \in Requests, NEW c \in Calls, TurnDown(r, c) PROVE Ledger!TurnDown(r)
  <2>1. PICK label \in {"notFound", "refused"} : Goto(r, label) /\ UNCHANGED history
    BY <1>3 DEF TurnDown
  <2>2. Phase(r) = "idle" /\ Phase(r)' = "turnedDown"
    BY <1>3, <2>1, MovePhase DEF TurnDown, Phase
  <2> QED
    BY <2>1, <2>2, MovePhase DEF Ledger!TurnDown, Ledger!Become
<1>4. ASSUME NEW r \in Requests, NEW c \in Calls, StartReplay(r, c) PROVE Ledger!Open(r)
  <2>1. Goto(r, "replay") /\ UNCHANGED history
    BY <1>4 DEF StartReplay
  <2>2. Phase(r) = "idle" /\ Phase(r)' = "open"
    <3>1. pc[r] = "idle" /\ pc'[r] = "replay"
      BY <1>4, <2>1, MovePhase DEF StartReplay
    <3> QED
      BY <3>1 DEF Phase
  <2> QED
    BY <2>1, <2>2, MovePhase DEF Ledger!Open, Ledger!Become
<1>5. ASSUME NEW r \in Requests, NEW c \in Calls, DecideAtOnce(r, c)
      PROVE  Ledger!Next
  <2>1. Ledger!Decide(r, c.review)
    BY <1>5, DecideRefines DEF DecideAtOnce, Decides
  <2> QED
    BY <2>1 DEF Ledger!Next, Calls
<1>6. ASSUME NEW r \in Requests, ReplayReturns(r) PROVE Ledger!Next
  <2>1. CASE Queued(call[r].review)
    <3>1. Decides(r, call[r]) /\ call[r] \in Calls
      BY <1>6, <2>1, ReturnDecides
    <3>2. Ledger!Decide(r, call[r].review)
      BY <3>1, DecideRefines
    <3> QED
      BY <3>1, <3>2 DEF Ledger!Next, Calls
  <2>2. CASE ~ Queued(call[r].review)
    <3>1. Goto(r, "lost") /\ UNCHANGED history
      BY <1>6, <2>2 DEF ReplayReturns
    <3>2. Phase(r) = "open" /\ Phase(r)' = "turnedDown"
      <4>1. pc[r] = "replay" /\ pc'[r] = "lost"
        BY <1>6, <3>1, MovePhase DEF ReplayReturns
      <4> QED
        BY <4>1 DEF Phase
    <3>3. Ledger!TurnDown(r)
      BY <3>1, <3>2, MovePhase DEF Ledger!TurnDown, Ledger!Become
    <3> QED
      BY <3>3 DEF Ledger!Next
  <2> QED
    BY <2>1, <2>2
<1>7. ASSUME NEW r \in Requests, ReplayRaises(r) PROVE Ledger!TurnDown(r)
  <2>1. Goto(r, "raised") /\ UNCHANGED history
    BY <1>7 DEF ReplayRaises
  <2>2. \A v \in Reviews : ~ Decided(r, v)'
    BY <1>7, <2>1 DEF IInv, Caller, ReplayRaises, Decided
  <2>3. Phase(r) = "open" /\ Phase(r)' = "turnedDown"
    <3>1. pc[r] = "replay" /\ pc'[r] = "raised"
      BY <1>7, <2>1, MovePhase DEF ReplayRaises
    <3> QED
      BY <2>2, <3>1 DEF Phase
  <2> QED
    BY <2>1, <2>3, MovePhase DEF Ledger!TurnDown, Ledger!Become
<1>8. ASSUME NEW r \in Requests, Publish(r) PROVE Ledger!Answer(r)
  <2>1. PICK label \in {"returned", "raised"} : Goto(r, label) /\ UNCHANGED history
    BY <1>8 DEF Publish
  <2>2. \E v \in Reviews : Decided(r, v)'
    <3>1. call[r].review \in Reviews /\ Decided(r, call[r].review)
      BY <1>8 DEF IInv, Caller, Accepted, Publish, Calls
    <3>2. Decided(r, call[r].review) /\ UNCHANGED history
      BY <2>1, <3>1
    <3> QED
      BY <3>1, <3>2 DEF Decided
  <2>3. Phase(r) = "decided" /\ Phase(r)' \in {"acknowledged", "unanswered"}
    BY <1>8, <2>1, <2>2, MovePhase DEF Publish, Phase
  <2> QED
    BY <2>1, <2>3, MovePhase DEF Ledger!Answer, Ledger!Become
<1> QED
  BY <1>2, <1>3, <1>4, <1>5, <1>6, <1>7, <1>8 DEF Next, Request, Progress, Ledger!Next

\* With its awaits, its bounded queue and its replays the endpoint does
\* nothing that the ledger of decisions does not allow: no decision is lost or
\* taken twice by a request, and none is taken for one that was turned down.
THEOREM ResolutionImplementsLedger == Spec => ImplementsLedger
<1>1. Init => Ledger!Init
  BY DEF Init, Ledger!Init, Phase
<1>2. ASSUME UNCHANGED vars PROVE UNCHANGED Ledger!vars
  <2>1. \A s \in Requests, v \in Reviews : Decided(s, v)' <=> Decided(s, v)
    BY <1>2 DEF vars, Decided
  <2> QED
    BY <1>2, <2>1 DEF vars, Ledger!vars, Phase
<1> QED
  BY <1>1, <1>2, StepRefines, Invariance, PTL DEF Spec, ImplementsLedger, Ledger!Spec
=============================================================================
