-------------------------- MODULE RealtimeHubProofs --------------------------
(***************************************************************************)
(* Proofs about the event bus and the realtime gateway, for every set of   *)
(* services, subscribers and messages.                                     *)
(***************************************************************************)
EXTENDS RealtimeHub, SequenceTheorems, TLAPS

\* What a subscriber of Redis was given is the piece of the stream that ends at
\* its position; before its first entry it was given nothing.
PieceOfStream(s) ==
  /\ Len(seen[s]) <= position[s]
  /\ Consecutive(s)
  /\ ~ anchored[s] => seen[s] = <<>>

BusInv ==
  /\ BusTypeOK
  /\ taken \in [Subscribers -> Nat]
  /\ \A s \in Subscribers : distributed[s] => PieceOfStream(s)

\* A piece of a sequence is a piece of whatever the sequence grows into.
LEMMA PieceStays ==
  ASSUME NEW S, NEW str \in Seq(S), NEW m \in S, NEW a \in Nat \ {0}, NEW b \in 0..Len(str)
  PROVE  SubSeq(Append(str, m), a, b) = SubSeq(str, a, b)
<1>1. /\ Append(str, m) \in Seq(S)
      /\ Len(Append(str, m)) = Len(str) + 1
      /\ \A i \in 1..Len(str) : Append(str, m)[i] = str[i]
  BY AppendProperties
<1>2. \A i \in a..b : i \in 1..Len(str) /\ str[i] \in S /\ Append(str, m)[i] = str[i]
  BY <1>1, ElementOfSeq
<1>3. /\ SubSeq(str, a, b) \in Seq(S)
      /\ Len(SubSeq(str, a, b)) = IF a <= b THEN b - a + 1 ELSE 0
      /\ \A i \in 1..b - a + 1 : SubSeq(str, a, b)[i] = str[a + i - 1]
  BY <1>2, SubSeqProperties
<1>4. /\ SubSeq(Append(str, m), a, b) \in Seq(S)
      /\ Len(SubSeq(Append(str, m), a, b)) = IF a <= b THEN b - a + 1 ELSE 0
      /\ \A i \in 1..b - a + 1 : SubSeq(Append(str, m), a, b)[i] = Append(str, m)[a + i - 1]
  BY <1>2, SubSeqProperties
<1>5. \A i \in 1..Len(SubSeq(str, a, b)) : i \in 1..b - a + 1 /\ a + i - 1 \in a..b
  BY <1>3
<1>6. \A i \in 1..Len(SubSeq(str, a, b)) : SubSeq(str, a, b)[i] = SubSeq(Append(str, m), a, b)[i]
  BY <1>2, <1>3, <1>4, <1>5
<1> QED
  BY <1>3, <1>4, <1>6, SeqEqual

LEMMA StreamGrows ==
  ASSUME BusInv, NEW m \in Messages, NEW reaches \in BOOLEAN, Xadd(m, reaches),
         UNCHANGED <<distributed, readerVars, taken>>
  PROVE  BusInv'
<1>1. CASE ~ reaches
  BY <1>1 DEF Xadd, BusInv, BusTypeOK, PieceOfStream, Consecutive, readerVars
<1>2. CASE reaches
  <2>1. stream' = Append(stream, m) /\ seen' = seen
    BY <1>2 DEF Xadd
  <2>2. stream' \in Seq(Messages) /\ Len(stream') = Len(stream) + 1 /\ Len(stream) \in Nat
    BY <2>1, AppendProperties, LenProperties DEF BusInv, BusTypeOK
  <2>3. BusTypeOK' /\ taken' \in [Subscribers -> Nat]
    BY <2>1, <2>2 DEF BusInv, BusTypeOK, readerVars
  <2>4. ASSUME NEW s \in Subscribers, distributed[s] PROVE PieceOfStream(s)'
    <3>1. /\ Len(seen[s]) \in Nat /\ position[s] \in 0..Len(stream)
          /\ Len(seen[s]) <= position[s] /\ Consecutive(s)
          /\ ~ anchored[s] => seen[s] = <<>>
          /\ stream \in Seq(Messages)
      BY <2>4, LenProperties DEF BusInv, BusTypeOK, PieceOfStream
    <3>2. position[s] + 1 - Len(seen[s]) \in Nat \ {0}
      BY <2>2, <3>1
    <3>3. SubSeq(stream', position[s] + 1 - Len(seen[s]), position[s])
            = SubSeq(stream, position[s] + 1 - Len(seen[s]), position[s])
      BY <2>1, <3>1, <3>2, PieceStays
    <3> QED
      BY <2>1, <3>1, <3>3 DEF PieceOfStream, Consecutive, readerVars
  <2> QED
    BY <2>3, <2>4 DEF BusInv
<1> QED
  BY <1>1, <1>2

\* event_bus.publish of any service, distributed or not.
LEMMA PublishedKeeps ==
  ASSUME BusInv, NEW service \in Services, NEW m \in Messages, NEW reaches \in BOOLEAN,
         Published(service, m, reaches),
         UNCHANGED <<distributed, readerVars, taken>>
  PROVE  BusInv'
<1>1. CASE distributed[service]
  BY <1>1, StreamGrows DEF Published
<1>2. CASE ~ distributed[service]
  <2>1. /\ stream' = stream
        /\ seen' = [s \in Subscribers |-> IF s = service THEN Append(seen[s], m) ELSE seen[s]]
    BY <1>2 DEF Published, PutLocally
  <2>2. ASSUME NEW s \in Subscribers
        PROVE  seen'[s] \in Seq(Messages) /\ Len(seen[s]) \in Nat /\ Len(seen'[s]) >= Len(seen[s])
    BY <2>1, AppendProperties, LenProperties DEF BusInv, BusTypeOK
  <2>3. seen' \in [Subscribers -> Seq(Messages)]
    BY <2>1, <2>2
  <2>4. \A s \in Subscribers : taken'[s] \in 0..Len(seen'[s])
    BY <2>2, LenProperties DEF BusInv, BusTypeOK
  <2>5. BusTypeOK' /\ taken' \in [Subscribers -> Nat]
    BY <2>1, <2>3, <2>4 DEF BusInv, BusTypeOK, readerVars
  <2>6. ASSUME NEW s \in Subscribers, distributed[s] PROVE PieceOfStream(s)'
    BY <1>2, <2>1, <2>6 DEF BusInv, PieceOfStream, Consecutive, readerVars
  <2> QED
    BY <2>5, <2>6 DEF BusInv
<1> QED
  BY <1>1, <1>2

\* The entries of an answer continue the piece that was read before.
LEMMA ReadKeeps ==
  ASSUME BusInv, NEW s \in Subscribers, NEW n \in 1..Len(stream), ReadEntries(s, n),
         distributed[s]
  PROVE  BusInv'
<1>1. /\ n \in 1..Len(stream) - position[s]
      /\ pump' = [pump EXCEPT ![s] = "between"]
      /\ seen' = [seen EXCEPT ![s] = @ \o Read(s, n)]
      /\ position' = [position EXCEPT ![s] = @ + n]
      /\ anchored' = [anchored EXCEPT ![s] = TRUE]
      /\ UNCHANGED <<distributed, stream, taken>>
  BY DEF ReadEntries
<1>2. /\ stream \in Seq(Messages) /\ Len(stream) \in Nat
      /\ seen[s] \in Seq(Messages) /\ Len(seen[s]) \in Nat
      /\ position[s] \in 0..Len(stream)
      /\ Len(seen[s]) <= position[s] /\ Consecutive(s)
  BY LenProperties DEF BusInv, BusTypeOK, PieceOfStream
<1>3. position[s] + n \in 0..Len(stream) /\ position[s] + n \in position[s]..Len(stream)
  BY <1>1, <1>2
<1>4. /\ Read(s, n) \in Seq(Messages)
      /\ Len(Read(s, n)) = n
  <2>1. \A i \in position[s] + 1..position[s] + n : stream[i] \in Messages
    BY <1>2, <1>3, ElementOfSeq
  <2>2. /\ SubSeq(stream, position[s] + 1, position[s] + n) \in Seq(Messages)
        /\ Len(SubSeq(stream, position[s] + 1, position[s] + n)) =
             IF position[s] + 1 <= position[s] + n
             THEN position[s] + n - (position[s] + 1) + 1 ELSE 0
    BY <1>2, <2>1, SubSeqProperties
  <2>3. /\ position[s] + 1 <= position[s] + n
        /\ position[s] + n - (position[s] + 1) + 1 = n
    BY <1>1, <1>2
  <2>4. Read(s, n) = SubSeq(stream, position[s] + 1, position[s] + n)
    BY DEF Read
  <2>5. Len(SubSeq(stream, position[s] + 1, position[s] + n)) = n
    BY <2>2, <2>3
  <2> QED
    BY <2>2, <2>4, <2>5
<1>5. seen'[s] \in Seq(Messages) /\ Len(seen'[s]) = Len(seen[s]) + n
  <2>1. seen'[s] = seen[s] \o Read(s, n)
    BY <1>1 DEF BusInv, BusTypeOK
  <2>2. /\ seen[s] \o Read(s, n) \in Seq(Messages)
        /\ Len(seen[s] \o Read(s, n)) = Len(seen[s]) + Len(Read(s, n))
    BY <1>2, <1>4, ConcatProperties
  <2> QED
    BY <1>4, <2>1, <2>2
<1>6. \A o \in Subscribers \ {s} : seen'[o] = seen[o] /\ position'[o] = position[o]
                                   /\ anchored'[o] = anchored[o]
  BY <1>1 DEF BusInv, BusTypeOK
<1>7. BusTypeOK' /\ taken' \in [Subscribers -> Nat]
  <2>1. seen' \in [Subscribers -> Seq(Messages)]
    BY <1>1, <1>5 DEF BusInv, BusTypeOK
  <2>2. \A o \in Subscribers : taken'[o] \in 0..Len(seen'[o])
    BY <1>1, <1>2, <1>5, <1>6 DEF BusInv, BusTypeOK
  <2>3. position' \in [Subscribers -> 0..Len(stream')]
    BY <1>1, <1>3 DEF BusInv, BusTypeOK
  <2> QED
    BY <1>1, <2>1, <2>2, <2>3 DEF BusInv, BusTypeOK
<1>8. ASSUME NEW o \in Subscribers, distributed[o] PROVE PieceOfStream(o)'
  <2>1. CASE o # s
    BY <1>1, <1>6, <1>8, <2>1 DEF BusInv, PieceOfStream, Consecutive
  <2>2. CASE o = s
    <3>1. /\ position'[s] = position[s] + n
          /\ seen'[s] = seen[s] \o Read(s, n)
          /\ anchored'[s] = TRUE
      BY <1>1 DEF BusInv, BusTypeOK
    <3>2. position[s] + 1 - Len(seen[s]) \in 1..Len(stream) + 1
          /\ position[s] \in (position[s] + 1 - Len(seen[s])) - 1..Len(stream)
      BY <1>2
    <3>3. SubSeq(stream, position[s] + 1 - Len(seen[s]), position[s])
            \o SubSeq(stream, position[s] + 1, position[s] + n)
            = SubSeq(stream, position[s] + 1 - Len(seen[s]), position[s] + n)
      BY <1>2, <1>3, <3>2, ConcatAdjacentSubSeq
    <3>4. seen'[s] = SubSeq(stream, position[s] + 1 - Len(seen[s]), position[s] + n)
      BY <1>2, <3>1, <3>3 DEF Consecutive, Read
    <3>5. position'[s] + 1 - Len(seen'[s]) = position[s] + 1 - Len(seen[s])
      BY <1>1, <1>2, <1>5, <3>1
    <3>6. Len(seen'[s]) <= position'[s]
      BY <1>1, <1>2, <1>5, <3>1
    <3> QED
      BY <1>1, <2>2, <3>1, <3>4, <3>5, <3>6 DEF PieceOfStream, Consecutive
  <2> QED
    BY <2>1, <2>2
<1> QED
  BY <1>1, <1>7, <1>8 DEF BusInv

\* A pump of a bus that is not distributed never runs.
LEMMA PumpKeeps ==
  ASSUME BusInv, NEW s \in Subscribers, Pumping(s) \/ PumpDies(s),
         pump[s] # "between" => distributed[s]
  PROVE  BusInv'
<1>1. CASE StartRead(s)
  <2>1. /\ distributed[s]
        /\ pump' = [pump EXCEPT ![s] = "waiting"]
        /\ position' = [position EXCEPT ![s] = IF anchored[s] THEN position[s] ELSE Len(stream)]
        /\ UNCHANGED <<distributed, stream, anchored, seen, taken>>
    BY <1>1 DEF StartRead
  <2>2. /\ stream \in Seq(Messages) /\ Len(stream) \in Nat /\ position[s] \in 0..Len(stream)
        /\ PieceOfStream(s)
    BY <2>1, LenProperties DEF BusInv, BusTypeOK
  <2>3. BusTypeOK' /\ taken' \in [Subscribers -> Nat]
    BY <2>1, <2>2 DEF BusInv, BusTypeOK
  <2>4. ASSUME NEW o \in Subscribers, distributed[o] PROVE PieceOfStream(o)'
    <3>1. CASE o # s \/ anchored[s]
      <4>1. position'[o] = position[o]
        BY <2>1, <3>1 DEF BusInv, BusTypeOK
      <4> QED
        BY <2>1, <2>4, <4>1 DEF BusInv, PieceOfStream, Consecutive
    <3>2. CASE o = s /\ ~ anchored[s]
      <4>1. seen[s] = <<>> /\ Len(seen[s]) = 0 /\ position'[s] = Len(stream)
        BY <2>1, <2>2, <3>2 DEF PieceOfStream, BusInv, BusTypeOK
      <4>2. SubSeq(stream, Len(stream) + 1 - 0, Len(stream)) = <<>>
        BY <2>2, SubSeqEmpty
      <4> QED
        BY <2>1, <2>2, <3>2, <4>1, <4>2 DEF PieceOfStream, Consecutive
    <3> QED
      BY <3>1, <3>2
  <2> QED
    BY <2>1, <2>3, <2>4 DEF BusInv
<1>2. CASE ReadNothing(s) \/ PumpDies(s)
  <2>1. /\ \E p \in {"between", "dead"} : pump' = [pump EXCEPT ![s] = p]
        /\ UNCHANGED <<distributed, stream, anchored, position, seen, taken>>
    BY <1>2 DEF ReadNothing, PumpDies
  <2>2. BusTypeOK'
    BY <2>1 DEF BusInv, BusTypeOK
  <2> QED
    BY <2>1, <2>2 DEF BusInv, PieceOfStream, Consecutive
<1>3. ASSUME NEW n \in 1..Len(stream), ReadEntries(s, n) PROVE BusInv'
  BY <1>3, ReadKeeps DEF ReadEntries
<1> QED
  BY <1>1, <1>2, <1>3 DEF Pumping

LEMMA GetKeeps ==
  ASSUME BusInv, NEW s \in Subscribers, Get(s)
  PROVE  BusInv' /\ Upcoming(s) \in Messages
<1>1. /\ taken[s] < Len(seen[s])
      /\ taken' = [taken EXCEPT ![s] = @ + 1]
      /\ UNCHANGED <<distributed, stream, readerVars, seen>>
  BY DEF Get, Waiting
<1>2. taken[s] \in 0..Len(seen[s]) /\ Len(seen[s]) \in Nat /\ seen[s] \in Seq(Messages)
  BY LenProperties DEF BusInv, BusTypeOK
<1>3. Upcoming(s) \in Messages
  BY <1>1, <1>2, ElementOfSeq DEF Upcoming
<1>4. BusTypeOK' /\ taken' \in [Subscribers -> Nat]
  BY <1>1, <1>2 DEF BusInv, BusTypeOK, readerVars
<1> QED
  BY <1>1, <1>3, <1>4 DEF BusInv, PieceOfStream, Consecutive, readerVars

\* The hub above the bus.
IInv ==
  /\ TypeOK
  /\ BusInv
  /\ pump[gateway] # "between" => distributed[gateway]

LEMMA InitIInv == Init => IInv
<1> SUFFICES ASSUME Init PROVE IInv
  OBVIOUS
<1>1. stream = <<>> /\ Len(stream) = 0 /\ \A s \in Subscribers : seen[s] = <<>> /\ Len(seen[s]) = 0
  BY DEF Init, BusInit
<1>2. BusTypeOK /\ taken \in [Subscribers -> Nat]
  BY <1>1 DEF Init, BusInit, BusTypeOK, Connections
<1>3. \A s \in Subscribers : PieceOfStream(s)
  <2>1. SubSeq(<<>>, 1, 0) = <<>>
    BY SubSeqEmpty
  <2> QED
    BY <1>1, <2>1 DEF Init, BusInit, PieceOfStream, Consecutive
<1> QED
  BY <1>2, <1>3, GatewayAssumption DEF IInv, BusInv, TypeOK, Init, BusInit, Posted

LEMMA NextIInv == IInv /\ [Next]_vars => IInv'
<1> SUFFICES ASSUME IInv, [Next]_vars PROVE IInv'
  OBVIOUS
<1> USE GatewayAssumption, SubscribersAssumption
<1>1. CASE UNCHANGED vars
  BY <1>1 DEF vars, busVars, readerVars, IInv, TypeOK, BusInv, BusTypeOK, PieceOfStream,
              Consecutive
<1>2. ASSUME NEW m \in Posted, NEW reaches \in BOOLEAN, PostSends(m, reaches) PROVE IInv'
  <2>1. BusInv'
    BY <1>2, PublishedKeeps DEF PostSends, IInv, Posted
  <2> QED
    BY <1>2, <2>1 DEF PostSends, Goes, IInv, TypeOK, BusInv, readerVars
<1>3. ASSUME NEW m \in Posted, PostReturns(m) \/ PostLosesAnswer(m) \/ PostFallsBack(m) PROVE IInv'
  <2>1. UNCHANGED busVars /\ UNCHANGED following
    BY <1>3 DEF PostReturns, PostLosesAnswer, PostFallsBack
  <2>2. \E label \in {"answered", "raised", "error"} : post' = [post EXCEPT ![m] = label]
    BY <1>3 DEF PostReturns, PostLosesAnswer, PostFallsBack, Goes
  <2>3. UNCHANGED shown \/ shown' = [shown EXCEPT ![m] = @ + 1]
    BY <1>3 DEF PostReturns, PostLosesAnswer, PostFallsBack, Show
  <2>4. BusInv'
    BY <2>1 DEF IInv, BusInv, BusTypeOK, PieceOfStream, Consecutive, busVars, readerVars
  <2> QED
    BY <2>1, <2>2, <2>3, <2>4 DEF IInv, TypeOK, BusInv, busVars, readerVars, Posted
<1>4. CASE HubConsumes
  <2>1. BusInv' /\ Upcoming(gateway) \in Messages
    BY <1>4, GetKeeps DEF HubConsumes, IInv
  <2> QED
    BY <1>4, <2>1 DEF HubConsumes, Show, Get, IInv, TypeOK, BusInv, readerVars
<1>5. ASSUME NEW m \in Foreign, OtherPublishes(m) PROVE IInv'
  <2>1. BusInv'
    BY <1>5, StreamGrows DEF OtherPublishes, IInv
  <2> QED
    BY <1>5, <2>1 DEF OtherPublishes, IInv, TypeOK, BusInv, readerVars
<1>6. CASE (Pumping(gateway) \/ PumpDies(gateway)) /\ UNCHANGED <<post, shown, following>>
  <2>1. BusInv'
    BY <1>6, PumpKeeps DEF IInv
  <2>2. UNCHANGED distributed /\ distributed[gateway]
    BY <1>6 DEF Pumping, PumpDies, StartRead, ReadNothing, ReadEntries, IInv
  <2> QED
    BY <1>6, <2>1, <2>2 DEF IInv, TypeOK, BusInv
<1> QED
  BY <1>1, <1>2, <1>3, <1>4, <1>5, <1>6 DEF Next

LEMMA Invariance == Spec => []IInv
BY InitIInv, NextIInv, PTL DEF Spec

\* Whatever pumps die, whatever is posted, and from whichever entry on a
\* subscriber began to read, what it was given is one piece of the stream.
THEOREM DeliveryInOrder == Spec => []ReceivedInOrder
<1>1. IInv => ReceivedInOrder
  BY DEF IInv, BusInv, PieceOfStream, ReceivedInOrder
<1> QED
  BY <1>1, Invariance, PTL
-----------------------------------------------------------------------------
\* The safety half of PostsAreShown.  An entry the gateway has not shown yet is
\* behind what its consumer took out: in its queue, or on the stream.
Pending(m) ==
  \E i \in 1..Len(stream) :
    i > position[gateway] - Len(seen[gateway]) + taken[gateway] /\ stream[i] = m

Held(m) == shown[m] > 0 \/ Missed(m) \/ Pending(m)

NothingAnsweredIsLost == \A m \in Posted : post[m] = "answered" => Held(m)

\* A handler that got its message to the bus has left it there.
HubInv ==
  /\ IInv
  /\ \A m \in Posted :
       /\ distributed[gateway] /\ post[m] \in {"sent", "answered"} => Held(m)
       /\ ~ distributed[gateway] /\ post[m] = "answered" => shown[m] > 0

\* What any step does to a message that was held.
LEMMA HeldStays ==
  ASSUME IInv, IInv', NEW m \in Posted, Held(m), shown'[m] >= shown[m],
         \A i \in 1..Len(stream) : i \in 1..Len(stream') /\ stream'[i] = stream[i],
         \/ /\ position'[gateway] - Len(seen'[gateway]) = position[gateway] - Len(seen[gateway])
            /\ taken'[gateway] = taken[gateway]
         \/ /\ seen[gateway] = <<>> /\ seen'[gateway] = <<>> /\ taken'[gateway] = taken[gateway]
            /\ position'[gateway] = Len(stream) /\ stream' = stream
  PROVE  Held(m)'
<1>1. /\ Len(stream) \in Nat /\ Len(stream') \in Nat
      /\ position[gateway] \in 0..Len(stream) /\ position'[gateway] \in 0..Len(stream')
      /\ Len(seen[gateway]) \in Nat /\ Len(seen'[gateway]) \in Nat
      /\ taken[gateway] \in 0..Len(seen[gateway])
      /\ shown[m] \in Nat /\ shown'[m] \in Nat
  BY GatewayAssumption, LenProperties DEF IInv, BusInv, BusTypeOK, TypeOK, Posted
<1>2. CASE shown[m] > 0
  BY <1>1, <1>2 DEF Held
<1>3. CASE /\ position'[gateway] - Len(seen'[gateway]) = position[gateway] - Len(seen[gateway])
           /\ taken'[gateway] = taken[gateway]
  <2>1. CASE Missed(m)
    <3>1. PICK i \in 1..position[gateway] - Len(seen[gateway]) : stream[i] = m
      BY <2>1 DEF Missed
    <3>2. i \in 1..Len(stream)
      BY <1>1
    <3> QED
      BY <1>3, <3>1, <3>2 DEF Held, Missed
  <2>2. CASE Pending(m)
    BY <1>3, <2>2 DEF Held, Pending
  <2> QED
    BY <1>2, <2>1, <2>2 DEF Held
<1>4. CASE /\ seen[gateway] = <<>> /\ seen'[gateway] = <<>> /\ taken'[gateway] = taken[gateway]
           /\ position'[gateway] = Len(stream) /\ stream' = stream
  <2>1. Len(seen[gateway]) = 0 /\ Len(seen'[gateway]) = 0
    BY <1>4
  <2>2. ASSUME Missed(m) \/ Pending(m) PROVE \E i \in 1..Len(stream) : stream[i] = m
    <3>1. \A i \in 1..position[gateway] - Len(seen[gateway]) : i \in 1..Len(stream)
      BY <1>1
    <3> QED
      BY <2>2, <3>1 DEF Missed, Pending
  <2> QED
    BY <1>1, <1>2, <1>4, <2>1, <2>2 DEF Held, Missed
<1> QED
  BY <1>3, <1>4

\* Places on the stream: p entries read, the last l of them kept, t taken.
LEMMA Places ==
  ASSUME NEW p \in Nat, NEW l \in Nat, l <= p, NEW t \in Nat, t < l, NEW n \in Nat, p <= n,
         NEW first, first = p + 1 - l
  PROVE  /\ first \in Nat \ {0} /\ t + 1 \in 1..l /\ first + t \in 1..n
         /\ t + 1 \in 1..p - first + 1 /\ first + (t + 1) - 1 = first + t
         /\ \A i \in Nat : i > p - l + t /\ i # first + t => i > p - l + (t + 1)
OBVIOUS

\* The consumer shows the first entry that was behind it.
LEMMA ConsumedIsHeld ==
  ASSUME IInv, HubConsumes, distributed[gateway], NEW m \in Posted, Held(m)
  PROVE  Held(m)'
<1>1. /\ taken[gateway] < Len(seen[gateway])
      /\ taken' = [taken EXCEPT ![gateway] = @ + 1]
      /\ UNCHANGED <<distributed, stream, pump, anchored, position, seen>>
      /\ shown' = [shown EXCEPT ![Upcoming(gateway)] = @ + 1]
  BY DEF HubConsumes, Get, Waiting, Show, readerVars
<1>2. /\ stream \in Seq(Messages) /\ Len(stream) \in Nat
      /\ position[gateway] \in 0..Len(stream)
      /\ seen[gateway] \in Seq(Messages) /\ Len(seen[gateway]) \in Nat
      /\ taken[gateway] \in 0..Len(seen[gateway]) /\ taken'[gateway] = taken[gateway] + 1
      /\ PieceOfStream(gateway)
      /\ shown \in [Messages -> Nat] /\ m \in Messages
  BY <1>1, GatewayAssumption, LenProperties DEF IInv, BusInv, BusTypeOK, TypeOK, Posted
<1>3. PICK p \in Nat, l \in Nat, t \in Nat, n \in Nat :
        /\ p = position[gateway] /\ l = Len(seen[gateway]) /\ t = taken[gateway] /\ n = Len(stream)
        /\ l <= p /\ t < l /\ p <= n
  <2>1. /\ position[gateway] \in Nat /\ position[gateway] <= Len(stream)
        /\ Len(seen[gateway]) <= position[gateway] /\ taken[gateway] \in Nat
    BY <1>2 DEF PieceOfStream
  <2> QED
    BY <1>1, <1>2, <2>1
<1>f. PICK first : first = p + 1 - l
  OBVIOUS
<1>4. /\ first \in Nat \ {0} /\ t + 1 \in 1..l /\ first + t \in 1..n
      /\ t + 1 \in 1..p - first + 1 /\ first + (t + 1) - 1 = first + t
      /\ \A i \in Nat : i > p - l + t /\ i # first + t => i > p - l + (t + 1)
  <2>1. p \in Nat /\ l \in Nat /\ t \in Nat /\ n \in Nat /\ l <= p /\ t < l /\ p <= n
    BY <1>3
  <2> QED
    BY <2>1, <1>f, Places
<1>5. Upcoming(gateway) = stream[first + t]
  <2>1. seen[gateway] = SubSeq(stream, first, p)
    BY <1>2, <1>3, <1>f DEF PieceOfStream, Consecutive
  <2>2. ASSUME NEW i \in first..p PROVE stream[i] \in Messages
    <3>1. i \in 1..Len(stream)
      BY <1>3, <1>4
    <3> QED
      BY <1>2, <3>1, ElementOfSeq
  <2>3. first \in Int /\ p \in Int
    BY <1>4
  <2>4. \A i \in 1..p - first + 1 : SubSeq(stream, first, p)[i] = stream[first + i - 1]
    BY <2>2, <2>3, SubSeqProperties
  <2>5. seen[gateway][t + 1] = stream[first + t]
    BY <1>4, <2>1, <2>4
  <2> QED
    BY <1>3, <2>5 DEF Upcoming
<1>6. CASE shown[m] > 0
  <2>1. shown'[m] > 0
    BY <1>1, <1>2, <1>6
  <2> QED
    BY <2>1 DEF Held
<1>7. CASE Missed(m)
  BY <1>1, <1>7 DEF Held, Missed
<1>8. CASE Pending(m)
  <2>1. PICK i \in 1..n : i > p - l + t /\ stream[i] = m
    BY <1>3, <1>8 DEF Pending
  <2>2. CASE i = first + t
    <3>1. shown'[m] = shown[m] + 1
      BY <1>1, <1>2, <1>5, <2>1, <2>2
    <3> QED
      BY <1>2, <3>1 DEF Held
  <2>3. CASE i # first + t
    <3>1. i > p - l + (t + 1)
      BY <1>4, <2>1, <2>3
    <3>2. /\ i \in 1..Len(stream')
          /\ i > position'[gateway] - Len(seen'[gateway]) + taken'[gateway] /\ stream'[i] = m
      BY <1>1, <1>2, <1>3, <2>1, <3>1
    <3> QED
      BY <3>2 DEF Held, Pending
  <2> QED
    BY <2>2, <2>3
<1> QED
  BY <1>6, <1>7, <1>8 DEF Held

LEMMA NextHubInv == HubInv /\ [Next]_vars => HubInv'
<1> SUFFICES ASSUME HubInv, [Next]_vars PROVE HubInv'
  OBVIOUS
<1> USE GatewayAssumption
<1>0. IInv /\ IInv'
  BY NextIInv DEF HubInv
<1>1. CASE UNCHANGED vars
  BY <1>0, <1>1 DEF vars, busVars, readerVars, HubInv, Held, Missed, Pending
<1>t. /\ post \in [Posted -> {"idle", "sent", "raised", "answered", "error"}]
      /\ shown \in [Messages -> Nat] /\ Posted \subseteq Messages
      /\ stream \in Seq(Messages) /\ Len(stream) \in Nat
      /\ position[gateway] \in 0..Len(stream) /\ Len(seen[gateway]) \in Nat
      /\ taken[gateway] \in 0..Len(seen[gateway])
      /\ distributed[gateway] => Len(seen[gateway]) <= position[gateway]
  BY <1>0, LenProperties DEF IInv, BusInv, BusTypeOK, TypeOK, Posted, PieceOfStream
\* It is enough that the held messages stay so, and the new ones are.
<1>2. ASSUME NEW m \in Posted, NEW reaches \in BOOLEAN, PostSends(m, reaches) PROVE HubInv'
  <2>1. /\ post[m] = "idle"
        /\ post' = [post EXCEPT ![m] = IF reaches THEN "sent" ELSE "raised"]
        /\ Published(gateway, m, reaches)
        /\ UNCHANGED <<distributed, pump, anchored, position, taken, shown, following>>
    BY <1>2 DEF PostSends, Goes, readerVars
  <2>2. CASE ~ distributed[gateway]
    BY <1>0, <1>t, <2>1, <2>2 DEF HubInv
  <2>3. CASE distributed[gateway]
    <3>1. /\ seen' = seen
          /\ stream' = IF reaches THEN Append(stream, m) ELSE stream
      BY <2>1, <2>3 DEF Published, Xadd
    <3>2. /\ \A i \in 1..Len(stream) : i \in 1..Len(stream') /\ stream'[i] = stream[i]
          /\ reaches => Len(stream) + 1 \in 1..Len(stream') /\ stream'[Len(stream) + 1] = m
      BY <1>t, <3>1, AppendProperties
    <3>3. ASSUME NEW o \in Posted, Held(o) PROVE Held(o)'
      BY <1>0, <1>t, <2>1, <3>1, <3>2, <3>3, HeldStays
    <3>4. reaches => Held(m)'
      <4>1. Len(stream) + 1 > position[gateway] - Len(seen[gateway]) + taken[gateway]
        BY <1>t, <2>3
      <4> QED
        BY <2>1, <3>1, <3>2, <4>1 DEF Held, Pending
    <3> QED
      BY <1>0, <1>t, <2>1, <2>3, <3>3, <3>4 DEF HubInv
  <2> QED
    BY <2>2, <2>3
<1>3. ASSUME NEW m \in Posted, PostReturns(m) \/ PostLosesAnswer(m) \/ PostFallsBack(m) PROVE HubInv'
  <2>1. UNCHANGED busVars
    BY <1>3 DEF PostReturns, PostLosesAnswer, PostFallsBack
  <2>2. \A o \in Posted : shown'[o] >= shown[o]
    BY <1>3, <1>t DEF PostReturns, PostLosesAnswer, PostFallsBack, Show
  <2>3. ASSUME NEW o \in Posted, Held(o) PROVE Held(o)'
    BY <1>0, <2>1, <2>2, <2>3, HeldStays DEF busVars, readerVars
  <2>4. /\ \A o \in Posted \ {m} : post'[o] = post[o]
        /\ \/ /\ post[m] = "sent" /\ distributed[gateway] /\ post'[m] \in {"answered", "raised"}
           \/ shown'[m] > 0 /\ post'[m] # "sent"
    BY <1>3, <1>t DEF PostReturns, PostLosesAnswer, PostFallsBack, Show, Goes
  <2>5. shown'[m] > 0 => Held(m)'
    BY DEF Held
  <2>6. \A o \in Posted : shown[o] > 0 => shown'[o] > 0
    BY <1>0, <1>t, <2>2 DEF IInv, TypeOK
  <2> QED
    BY <1>0, <2>1, <2>3, <2>4, <2>5, <2>6 DEF HubInv, busVars
<1>4. CASE HubConsumes
  <2>1. UNCHANGED <<distributed, post>>
    BY <1>4 DEF HubConsumes, Get
  <2>2. \A o \in Posted : shown[o] > 0 => shown'[o] > 0
    <3>1. Upcoming(gateway) \in Messages
      BY <1>0, <1>4, GetKeeps DEF HubConsumes, IInv
    <3> QED
      BY <1>4, <1>t, <3>1 DEF HubConsumes, Show
  <2> QED
    BY <1>0, <1>4, <2>1, <2>2, ConsumedIsHeld DEF HubInv
<1>5. ASSUME NEW m \in Foreign, OtherPublishes(m) PROVE HubInv'
  <2>1. /\ stream' = Append(stream, m) /\ m \in Messages
        /\ UNCHANGED <<distributed, pump, anchored, position, taken, seen, post, shown, following>>
    BY <1>5 DEF OtherPublishes, Xadd, readerVars
  <2>2. \A i \in 1..Len(stream) : i \in 1..Len(stream') /\ stream'[i] = stream[i]
    BY <1>t, <2>1, AppendProperties
  <2>3. ASSUME NEW o \in Posted, Held(o) PROVE Held(o)'
    BY <1>0, <1>t, <2>1, <2>2, <2>3, HeldStays
  <2> QED
    BY <1>0, <2>1, <2>3 DEF HubInv
<1>6. CASE (Pumping(gateway) \/ PumpDies(gateway)) /\ UNCHANGED <<post, shown, following>>
  <2>1. UNCHANGED <<distributed, stream, taken, post, shown>>
    BY <1>6 DEF Pumping, PumpDies, StartRead, ReadNothing, ReadEntries
  <2>2. \/ position'[gateway] - Len(seen'[gateway]) = position[gateway] - Len(seen[gateway])
        \/ /\ seen[gateway] = <<>> /\ seen'[gateway] = <<>> /\ position'[gateway] = Len(stream)
    <3>1. CASE StartRead(gateway)
      BY <1>0, <3>1 DEF StartRead, IInv, BusInv, BusTypeOK, PieceOfStream
    <3>2. CASE ReadNothing(gateway) \/ PumpDies(gateway)
      BY <3>2 DEF ReadNothing, PumpDies
    <3>3. ASSUME NEW n \in 1..Len(stream), ReadEntries(gateway, n)
          PROVE  position'[gateway] - Len(seen'[gateway]) = position[gateway] - Len(seen[gateway])
      <4>0. n \in 1..Len(stream) - position[gateway] /\ position[gateway] \in Nat
        BY <1>t, <3>3 DEF ReadEntries
      <4>1. /\ n \in Nat \ {0} /\ position[gateway] + n <= Len(stream)
            /\ seen[gateway] \in Seq(Messages) /\ position[gateway] \in Nat
            /\ position'[gateway] = position[gateway] + n
            /\ seen'[gateway] = seen[gateway] \o SubSeq(stream, position[gateway] + 1, position[gateway] + n)
        <5>1. n \in Nat \ {0} /\ position[gateway] + n <= Len(stream)
          BY <1>t, <4>0
        <5> QED
          BY <1>0, <3>3, <4>0, <5>1 DEF ReadEntries, Read, IInv, BusInv, BusTypeOK
      <4>2. \A i \in position[gateway] + 1..position[gateway] + n : stream[i] \in Messages
        <5> SUFFICES ASSUME NEW i \in position[gateway] + 1..position[gateway] + n
                     PROVE  stream[i] \in Messages
          OBVIOUS
        <5>1. i \in 1..Len(stream)
          BY <1>t, <4>1
        <5> QED
          BY <1>t, <5>1, ElementOfSeq
      <4>3. position[gateway] + 1 \in Int /\ position[gateway] + n \in Int
        BY <4>1
      <4>4. PICK more : more = SubSeq(stream, position[gateway] + 1, position[gateway] + n)
        OBVIOUS
      <4>5. /\ more \in Seq(Messages)
            /\ Len(more) = IF position[gateway] + 1 <= position[gateway] + n
                           THEN (position[gateway] + n) - (position[gateway] + 1) + 1 ELSE 0
        BY <4>2, <4>3, <4>4, SubSeqProperties
      <4>6. Len(more) = n
        BY <4>1, <4>5
      <4>7. Len(seen[gateway] \o more) = Len(seen[gateway]) + Len(more)
        BY <4>1, <4>5, ConcatProperties
      <4>8. Len(seen'[gateway]) = Len(seen[gateway]) + n
        BY <4>1, <4>4, <4>6, <4>7
      <4>9. \A p, l \in Nat : (p + n) - (l + n) = p - l
        BY <4>1
      <4> QED
        BY <1>t, <4>1, <4>8, <4>9
    <3> QED
      BY <1>6, <3>1, <3>2, <3>3 DEF Pumping
  <2>3. \A o \in Posted : shown'[o] >= shown[o]
    BY <1>t, <2>1
  <2>4. ASSUME NEW o \in Posted, Held(o) PROVE Held(o)'
    BY <1>0, <2>1, <2>2, <2>3, <2>4, HeldStays
  <2> QED
    BY <1>0, <2>1, <2>4 DEF HubInv
<1> QED
  BY <1>1, <1>2, <1>3, <1>4, <1>5, <1>6 DEF Next

\* At every moment, and without any fairness, a POST that was answered is on
\* the dashboard, passed over before the first entry, in the queue of the
\* gateway's consumer, or on the stream ahead of its pump.
THEOREM AnsweredIsHeld == Spec => []NothingAnsweredIsLost
<1>1. Init => HubInv
  BY InitIInv DEF HubInv, Init
<1>2. HubInv => NothingAnsweredIsLost
  BY DEF HubInv, NothingAnsweredIsLost, Held
<1> QED
  BY <1>1, <1>2, NextHubInv, PTL DEF Spec
=============================================================================
