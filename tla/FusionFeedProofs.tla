-------------------------- MODULE FusionFeedProofs --------------------------
(***************************************************************************)
(* Proofs about the feed of packets into fused events, for every set of    *)
(* runs, every number of packets and every window, horizon and bound of    *)
(* the clock.                                                              *)
(***************************************************************************)
EXTENDS FusionFeed, FiniteSetTheorems, SequenceTheorems, TLAPS

\* What the consumer of the fusion service was given is, entry by entry, the
\* piece of the stream that ends at the position of its pump.
Delivered ==
  /\ BusTypeOK
  /\ taken \in [Subscribers -> Nat]
  /\ pump[fusion] # "between" => distributed[fusion]
  /\ ~ anchored[fusion] => seen[fusion] = <<>>
  /\ Len(seen[fusion]) <= position[fusion]
  /\ \A i \in 1..Len(seen[fusion]) :
       seen[fusion][i] = stream[position[fusion] - Len(seen[fusion]) + i]

\* A packet is on the stream after it was emitted, and once.
SentOnce ==
  /\ \A i, j \in 1..Len(stream) : stream[i] \in Packets /\ stream[i] = stream[j] => i = j
  /\ \A i \in 1..Len(stream), r \in Runs :
       \A k \in 1..PerRun[r] : stream[i] = <<r, k>> => k <= emitted[r]

\* With a kernel that hands nothing over, a packet is once in the buffer and
\* was consumed.
BufferedOnce ==
  distributed[kernel] =>
    \A p \in Packets :
      /\ buffer[p] <= 1
      /\ buffer[p] = 1 => \E i \in 1..taken[fusion] : seen[fusion][i] = p

\* Where a run is tells what it emitted and which way its packets go.
Stage(r) ==
  /\ runPc[r] = "idle" => emitted[r] = 0
  /\ runPc[r] = "await" => distributed[kernel]
  /\ runPc[r] \in {"await", "fuse"} => emitted[r] = PerRun[r]
  /\ runPc[r] = "handOver" => ~ distributed[kernel] /\ emitted[r] > 0
  /\ wait[r] = "own" => distributed[kernel] /\ runPc[r] = "fuse"
  /\ wait[r] = "handedOver" => ~ distributed[kernel]

\* What a run counted, or handed over, stays in the buffer until it is too old.
Kept(r) ==
  /\ wait[r] = "own" => \A k \in 1..PerRun[r] : Fresh(<<r, k>>) => buffer[<<r, k>>] > 0
  /\ ~ distributed[kernel] /\ runPc[r] \in {"emit", "handOver", "fuse"} =>
       \A k \in 1..emitted[r] :
         Fresh(<<r, k>>) =>
           buffer[<<r, k>>] > 0 \/ (runPc[r] = "handOver" /\ k = emitted[r])

IInv ==
  /\ TypeOK
  /\ Delivered
  /\ SentOnce
  /\ BufferedOnce
  /\ \A r \in Runs : Stage(r) /\ Kept(r)
-----------------------------------------------------------------------------
\* The bus, seen from the fusion service.
LEMMA AppendDelivers ==
  ASSUME Delivered, NEW m \in Messages, NEW reaches \in BOOLEAN, Xadd(m, reaches),
         UNCHANGED <<distributed, readerVars, taken>>
  PROVE  Delivered'
<1> USE FeedAssumption
<1>1. CASE ~ reaches
  BY <1>1 DEF Xadd, Delivered, BusTypeOK, readerVars
<1>2. CASE reaches
  <2>1. stream' = Append(stream, m) /\ seen' = seen
    BY <1>2 DEF Xadd
  <2>2. /\ stream \in Seq(Messages) /\ Len(stream) \in Nat
        /\ stream' \in Seq(Messages) /\ Len(stream') = Len(stream) + 1
        /\ \A i \in 1..Len(stream) : stream'[i] = stream[i]
    BY <2>1, AppendProperties, LenProperties DEF Delivered, BusTypeOK
  <2>3. BusTypeOK'
    BY <2>1, <2>2 DEF Delivered, BusTypeOK, readerVars
  <2>4. position[fusion] \in 0..Len(stream) /\ Len(seen[fusion]) \in Nat
    BY LenProperties DEF Delivered, BusTypeOK
  <2>5. ASSUME NEW i \in 1..Len(seen[fusion])
        PROVE  seen[fusion][i] = stream'[position[fusion] - Len(seen[fusion]) + i]
    <3>1. position[fusion] - Len(seen[fusion]) + i \in 1..Len(stream)
      BY <2>2, <2>4 DEF Delivered
    <3> QED
      BY <2>2, <3>1 DEF Delivered
  <2> QED
    BY <2>1, <2>3, <2>5 DEF Delivered, readerVars
<1> QED
  BY <1>1, <1>2

LEMMA GetDelivers ==
  ASSUME Delivered, Get(fusion)
  PROVE  /\ Delivered'
         /\ taken'[fusion] = taken[fusion] + 1
         /\ taken'[fusion] \in 1..Len(seen[fusion])
         /\ Upcoming(fusion) = seen[fusion][taken[fusion] + 1]
<1> USE FeedAssumption
<1>1. /\ taken[fusion] < Len(seen[fusion])
      /\ taken' = [taken EXCEPT ![fusion] = @ + 1]
      /\ UNCHANGED <<distributed, stream, readerVars, seen>>
  BY DEF Get, Waiting
<1>2. taken[fusion] \in 0..Len(seen[fusion]) /\ Len(seen[fusion]) \in Nat
  BY LenProperties DEF Delivered, BusTypeOK
<1>3. taken'[fusion] = taken[fusion] + 1 /\ taken'[fusion] \in 1..Len(seen[fusion])
  BY <1>1, <1>2 DEF Delivered
<1>4. BusTypeOK' /\ taken' \in [Subscribers -> Nat]
  BY <1>1, <1>2 DEF Delivered, BusTypeOK, readerVars
<1> QED
  BY <1>1, <1>3, <1>4 DEF Delivered, readerVars, Upcoming

\* What an answer of n entries makes of a piece of the stream that ends at ps.
LEMMA PieceGrows ==
  ASSUME NEW S, NEW str \in Seq(S), NEW sn \in Seq(S), NEW ps \in Nat, NEW n \in Nat \ {0},
         ps + n <= Len(str), Len(sn) <= ps,
         \A i \in 1..Len(sn) : sn[i] = str[ps - Len(sn) + i],
         NEW more, more = sn \o SubSeq(str, ps + 1, ps + n)
  PROVE  /\ more \in Seq(S)
         /\ Len(more) = Len(sn) + n
         /\ \A i \in 1..Len(sn) : i \in 1..Len(more) /\ more[i] = sn[i]
         /\ \A i \in 1..Len(more) : more[i] = str[(ps + n) - Len(more) + i]
<1>0. PICK sub : sub = SubSeq(str, ps + 1, ps + n)
  OBVIOUS
<1>1. Len(sn) \in Nat /\ Len(str) \in Nat
  BY LenProperties
<1>2. \A i \in ps + 1..ps + n : str[i] \in S
  BY <1>1, ElementOfSeq
<1>3. /\ sub \in Seq(S)
      /\ Len(sub) = IF ps + 1 <= ps + n THEN (ps + n) - (ps + 1) + 1 ELSE 0
      /\ \A i \in 1..(ps + n) - (ps + 1) + 1 : sub[i] = str[(ps + 1) + i - 1]
  <2>1. ps + 1 \in Int /\ ps + n \in Int
    OBVIOUS
  <2> QED
    BY <1>0, <1>2, <2>1, SubSeqProperties
<1>4. Len(sub) = n /\ \A i \in 1..n : sub[i] = str[ps + i]
  BY <1>3
<1>5. /\ more \in Seq(S)
      /\ Len(more) = Len(sn) + Len(sub)
      /\ \A i \in 1..Len(sn) + Len(sub) : more[i] = IF i <= Len(sn) THEN sn[i] ELSE sub[i - Len(sn)]
  BY <1>0, <1>3, ConcatProperties
<1>8. Len(more) = Len(sn) + n /\ Len(more) \in Nat
  BY <1>1, <1>4, <1>5
<1>6. ASSUME NEW i \in 1..Len(more) PROVE more[i] = str[(ps + n) - Len(more) + i]
  <2>1. i \in 1..Len(sn) + n /\ (ps + n) - Len(more) + i = ps - Len(sn) + i
    <3>1. i \in Nat /\ 1 <= i /\ i <= Len(more)
      BY <1>8
    <3>2. i \in 1..Len(sn) + n
      BY <1>1, <1>8, <3>1
    <3>3. (ps + n) - Len(more) = ps - Len(sn)
      BY <1>1, <1>8
    <3> QED
      BY <3>2, <3>3
  <2>2. CASE i <= Len(sn)
    <3>1. i \in 1..Len(sn)
      BY <1>1, <2>1, <2>2
    <3> QED
      BY <1>4, <1>5, <2>1, <2>2, <3>1
  <2>3. CASE ~ i <= Len(sn)
    <3>1. i - Len(sn) \in 1..n /\ ps + (i - Len(sn)) = ps - Len(sn) + i
      BY <1>1, <2>1, <2>3
    <3>2. sub[i - Len(sn)] = str[ps + (i - Len(sn))]
      BY <1>4, <3>1
    <3> QED
      BY <1>4, <1>5, <2>1, <2>3, <3>1, <3>2
  <2> QED
    BY <2>2, <2>3
<1>7. \A i \in 1..Len(sn) : i \in 1..Len(sn) + n /\ i <= Len(sn)
  BY <1>1
<1> QED
  BY <1>4, <1>5, <1>6, <1>7, <1>8

LEMMA ReadDelivers ==
  ASSUME Delivered, NEW n \in 1..Len(stream), ReadEntries(fusion, n)
  PROVE  /\ Delivered'
         /\ \A i \in 1..Len(seen[fusion]) : i \in 1..Len(seen'[fusion]) /\ seen'[fusion][i] = seen[fusion][i]
<1> USE FeedAssumption
<1>1. /\ pump[fusion] = "waiting" /\ n \in 1..Len(stream) - position[fusion]
      /\ pump' = [pump EXCEPT ![fusion] = "between"]
      /\ seen' = [seen EXCEPT ![fusion] = @ \o Read(fusion, n)]
      /\ position' = [position EXCEPT ![fusion] = @ + n]
      /\ anchored' = [anchored EXCEPT ![fusion] = TRUE]
      /\ UNCHANGED <<distributed, stream, taken>>
  BY DEF ReadEntries
<1>2. /\ stream \in Seq(Messages) /\ Len(stream) \in Nat
      /\ seen[fusion] \in Seq(Messages) /\ Len(seen[fusion]) \in Nat
      /\ position[fusion] \in 0..Len(stream) /\ position[fusion] \in Nat
      /\ Len(seen[fusion]) <= position[fusion]
      /\ taken[fusion] \in 0..Len(seen[fusion])
  BY LenProperties DEF Delivered, BusTypeOK
<1>3. n \in Nat \ {0} /\ position[fusion] + n <= Len(stream) /\ position[fusion] + n \in 0..Len(stream)
  BY <1>1, <1>2
<1>4. /\ seen'[fusion] = seen[fusion] \o SubSeq(stream, position[fusion] + 1, position[fusion] + n)
      /\ position'[fusion] = position[fusion] + n
      /\ anchored'[fusion] = TRUE /\ pump'[fusion] = "between"
  BY <1>1 DEF Delivered, BusTypeOK, Read
<1>5. /\ seen'[fusion] \in Seq(Messages)
      /\ Len(seen'[fusion]) = Len(seen[fusion]) + n
      /\ \A i \in 1..Len(seen[fusion]) : i \in 1..Len(seen'[fusion]) /\ seen'[fusion][i] = seen[fusion][i]
      /\ \A i \in 1..Len(seen'[fusion]) :
           seen'[fusion][i] = stream[(position[fusion] + n) - Len(seen'[fusion]) + i]
  <2>1. \A i \in 1..Len(seen[fusion]) :
          seen[fusion][i] = stream[position[fusion] - Len(seen[fusion]) + i]
    BY DEF Delivered
  <2>2. PICK more : more = seen[fusion] \o SubSeq(stream, position[fusion] + 1, position[fusion] + n)
    OBVIOUS
  <2>3. /\ more \in Seq(Messages)
        /\ Len(more) = Len(seen[fusion]) + n
        /\ \A i \in 1..Len(seen[fusion]) : i \in 1..Len(more) /\ more[i] = seen[fusion][i]
        /\ \A i \in 1..Len(more) : more[i] = stream[(position[fusion] + n) - Len(more) + i]
    <3>1. PICK ps \in Nat : ps = position[fusion]
      BY <1>2
    <3>2. PICK sn \in Seq(Messages) : sn = seen[fusion]
      BY <1>2
    <3>3. PICK str \in Seq(Messages) : str = stream
      BY <1>2
    <3>4. /\ ps + n <= Len(str) /\ Len(sn) <= ps
          /\ \A i \in 1..Len(sn) : sn[i] = str[ps - Len(sn) + i]
          /\ more = sn \o SubSeq(str, ps + 1, ps + n)
      BY <1>2, <1>3, <2>1, <2>2, <3>1, <3>2, <3>3
    <3>5. /\ more \in Seq(Messages)
          /\ Len(more) = Len(sn) + n
          /\ \A i \in 1..Len(sn) : i \in 1..Len(more) /\ more[i] = sn[i]
          /\ \A i \in 1..Len(more) : more[i] = str[(ps + n) - Len(more) + i]
      BY <1>3, <3>4, PieceGrows
    <3> QED
      BY <3>1, <3>2, <3>3, <3>5
  <2> QED
    BY <1>4, <2>2, <2>3
<1>6. BusTypeOK' /\ taken' \in [Subscribers -> Nat]
  <2>1. \A o \in Subscribers \ {fusion} : seen'[o] = seen[o] /\ position'[o] = position[o]
    BY <1>1 DEF Delivered, BusTypeOK
  <2>2. seen' \in [Subscribers -> Seq(Messages)]
    BY <1>1, <1>5 DEF Delivered, BusTypeOK
  <2>3. \A o \in Subscribers : taken'[o] \in 0..Len(seen'[o])
    <3>1. taken'[fusion] \in 0..Len(seen'[fusion])
      BY <1>1, <1>2, <1>3, <1>5
    <3> QED
      BY <1>1, <2>1, <3>1 DEF Delivered, BusTypeOK
  <2>4. position' \in [Subscribers -> 0..Len(stream')]
    BY <1>1, <1>3 DEF Delivered, BusTypeOK
  <2> QED
    BY <1>1, <2>2, <2>3, <2>4 DEF Delivered, BusTypeOK
<1>7. Len(seen'[fusion]) <= position'[fusion]
  <2>1. \A a, b \in Nat : a <= b => a + n <= b + n
    BY <1>3
  <2> QED
    BY <1>2, <1>4, <1>5, <2>1
<1>8. \A i \in 1..Len(seen'[fusion]) :
        seen'[fusion][i] = stream'[position'[fusion] - Len(seen'[fusion]) + i]
  BY <1>1, <1>4, <1>5
<1> QED
  BY <1>1, <1>4, <1>5, <1>6, <1>7, <1>8 DEF Delivered

LEMMA PumpDelivers ==
  ASSUME Delivered, Pumping(fusion) \/ PumpDies(fusion)
  PROVE  /\ Delivered' /\ UNCHANGED <<distributed, stream, taken>>
         /\ \A i \in 1..Len(seen[fusion]) : i \in 1..Len(seen'[fusion]) /\ seen'[fusion][i] = seen[fusion][i]
<1> USE FeedAssumption
<1>1. CASE StartRead(fusion)
  <2>1. /\ distributed[fusion]
        /\ pump' = [pump EXCEPT ![fusion] = "waiting"]
        /\ position' = [position EXCEPT ![fusion] = IF anchored[fusion] THEN position[fusion] ELSE Len(stream)]
        /\ UNCHANGED <<distributed, stream, anchored, seen, taken>>
    BY <1>1 DEF StartRead
  <2>2. Len(stream) \in Nat /\ position[fusion] \in 0..Len(stream)
    BY LenProperties DEF Delivered, BusTypeOK
  <2>3. BusTypeOK'
    BY <2>1, <2>2 DEF Delivered, BusTypeOK
  <2>4. CASE anchored[fusion]
    <3>1. position'[fusion] = position[fusion]
      BY <2>1, <2>4 DEF Delivered, BusTypeOK
    <3> QED
      BY <2>1, <2>3, <3>1 DEF Delivered
  <2>5. CASE ~ anchored[fusion]
    <3>1. seen[fusion] = <<>> /\ Len(seen[fusion]) = 0 /\ position'[fusion] = Len(stream)
      BY <2>1, <2>5 DEF Delivered, BusTypeOK
    <3> QED
      BY <2>1, <2>2, <2>3, <3>1 DEF Delivered
  <2> QED
    BY <2>4, <2>5
<1>2. CASE ReadNothing(fusion) \/ PumpDies(fusion)
  <2>1. /\ pump[fusion] = "waiting"
        /\ \E p \in {"between", "dead"} : pump' = [pump EXCEPT ![fusion] = p]
        /\ UNCHANGED <<distributed, stream, anchored, position, seen, taken>>
    BY <1>2 DEF ReadNothing, PumpDies
  <2>2. BusTypeOK'
    BY <2>1 DEF Delivered, BusTypeOK
  <2>3. distributed[fusion]
    BY <2>1 DEF Delivered
  <2> QED
    BY <2>1, <2>2, <2>3 DEF Delivered
<1>3. ASSUME NEW n \in 1..Len(stream), ReadEntries(fusion, n)
      PROVE  /\ Delivered' /\ UNCHANGED <<distributed, stream, taken>>
             /\ \A i \in 1..Len(seen[fusion]) :
                  i \in 1..Len(seen'[fusion]) /\ seen'[fusion][i] = seen[fusion][i]
  BY <1>3, ReadDelivers DEF ReadEntries
<1> QED
  BY <1>1, <1>2, <1>3 DEF Pumping
-----------------------------------------------------------------------------
LEMMA PacketFacts ==
  /\ Packets \subseteq Messages
  /\ \A r \in Runs : PerRun[r] \in Nat \ {0} /\ \A k \in 1..PerRun[r] : <<r, k>> \in Packets
  /\ \A p \in Packets : \E r \in Runs : \E k \in 1..PerRun[r] : p = <<r, k>>
BY FeedAssumption DEF Packets, Own

\* What is consumed is never a packet consumed before.
LEMMA SeenOnce ==
  ASSUME Delivered, SentOnce, NEW i \in 1..Len(seen[fusion]), NEW j \in 1..Len(seen[fusion]),
         seen[fusion][i] \in Packets, seen[fusion][i] = seen[fusion][j]
  PROVE  i = j
<1>1. /\ Len(stream) \in Nat /\ Len(seen[fusion]) \in Nat
      /\ position[fusion] \in 0..Len(stream) /\ Len(seen[fusion]) <= position[fusion]
  BY FeedAssumption, LenProperties DEF Delivered, BusTypeOK
<1>2. PICK shift \in Nat : shift = position[fusion] - Len(seen[fusion])
  BY <1>1
<1>6. /\ i \in Nat /\ 1 <= i /\ i <= Len(seen[fusion])
      /\ j \in Nat /\ 1 <= j /\ j <= Len(seen[fusion])
  BY <1>1
<1>3. shift + i \in 1..Len(stream) /\ shift + j \in 1..Len(stream)
  <2>1. shift + Len(seen[fusion]) <= Len(stream)
    BY <1>1, <1>2
  <2>2. /\ shift + i \in Nat /\ 1 <= shift + i /\ shift + i <= Len(stream)
        /\ shift + j \in Nat /\ 1 <= shift + j /\ shift + j <= Len(stream)
    BY <1>1, <1>6, <2>1
  <2> QED
    BY <2>2
<1>4. stream[shift + i] = seen[fusion][i] /\ stream[shift + j] = seen[fusion][j]
  BY <1>2 DEF Delivered
<1>5. shift + i = shift + j
  BY <1>3, <1>4 DEF SentOnce
<1> QED
  BY <1>2, <1>5

\* A publication adds nothing that was sent before.
LEMMA AppendSendsOnce ==
  ASSUME SentOnce, stream \in Seq(Messages), emitted \in [Runs -> Nat], emitted' \in [Runs -> Nat],
         NEW m \in Messages, NEW reaches \in BOOLEAN, Xadd(m, reaches),
         \A r \in Runs : emitted[r] <= emitted'[r],
         \A r \in Runs : \A k \in 1..PerRun[r] : m = <<r, k>> => emitted[r] < k /\ k <= emitted'[r]
  PROVE  SentOnce'
<1>1. CASE ~ reaches
  <2>1. stream' = stream
    BY <1>1 DEF Xadd
  <2>2. \A i \in 1..Len(stream), r \in Runs :
          \A k \in 1..PerRun[r] : stream[i] = <<r, k>> => k <= emitted'[r]
    BY PacketFacts DEF SentOnce
  <2> QED
    BY <2>1, <2>2 DEF SentOnce
<1>2. CASE reaches
  <2>1. /\ Len(stream) \in Nat /\ Len(stream') = Len(stream) + 1
        /\ \A i \in 1..Len(stream) : stream'[i] = stream[i]
        /\ stream'[Len(stream) + 1] = m
    BY <1>2, AppendProperties, LenProperties DEF Xadd
  <2>2. \A i \in 1..Len(stream') : i \in 1..Len(stream) \/ i = Len(stream) + 1
    BY <2>1
  <2>3. \A i \in 1..Len(stream) : m \in Packets => stream[i] # m
    <3> SUFFICES ASSUME NEW i \in 1..Len(stream), m \in Packets, stream[i] = m PROVE FALSE
      OBVIOUS
    <3>3. PICK r \in Runs : \E k \in 1..PerRun[r] : m = <<r, k>>
      BY PacketFacts
    <3>1. PICK k \in 1..PerRun[r] : m = <<r, k>>
      BY <3>3
    <3>2. k <= emitted[r] /\ emitted[r] < k
      BY <3>1 DEF SentOnce
    <3> QED
      BY <3>2, PacketFacts
  <2>4. \A i, j \in 1..Len(stream') : stream'[i] \in Packets /\ stream'[i] = stream'[j] => i = j
    BY <2>1, <2>2, <2>3 DEF SentOnce
  <2>5. ASSUME NEW i \in 1..Len(stream'), NEW r \in Runs, NEW k \in 1..PerRun[r],
               stream'[i] = <<r, k>>
        PROVE  k <= emitted'[r]
    <3>1. CASE i \in 1..Len(stream)
      <4>1. k <= emitted[r] /\ emitted[r] <= emitted'[r] /\ k \in Nat
            /\ emitted[r] \in Nat /\ emitted'[r] \in Nat
        BY <2>1, <2>5, <3>1, PacketFacts DEF SentOnce
      <4> QED
        BY <4>1
    <3>2. CASE i = Len(stream) + 1
      BY <2>1, <2>5, <3>2
    <3> QED
      BY <2>2, <3>1, <3>2
  <2> QED
    BY <2>4, <2>5 DEF SentOnce
<1> QED
  BY <1>1, <1>2

\* Pruning spares the packets that are fresh.
LEMMA IngestFacts ==
  ASSUME TypeOK, NEW p \in Packets, Ingest(p)
  PROVE  /\ buffer' \in [Packets -> Nat]
         /\ \A q \in Packets : buffer'[q] <= buffer[q] + 1
         /\ \A q \in Packets \ {p} : buffer'[q] <= buffer[q]
         /\ \A q \in Packets : Fresh(q) => buffer'[q] >= buffer[q]
         /\ Fresh(p) => buffer'[p] > 0
<1>1. buffer \in [Packets -> Nat] /\ \A q \in Packets : buffer[q] \in Nat
  BY DEF TypeOK
<1>2. \A q \in Packets : buffer'[q] = IF ~ Fresh(q) THEN 0
                                      ELSE IF q = p THEN buffer[q] + 1 ELSE buffer[q]
  BY DEF Ingest
<1>3. buffer' \in [Packets -> Nat]
  BY <1>1 DEF Ingest
<1> QED
  BY <1>1, <1>2, <1>3

\* The count decides: as many packets as the run emitted, each once, none of
\* another run, are all of its packets.
LEMMA CountDecides ==
  ASSUME TypeOK, BufferedOnce, distributed[kernel], NEW r \in Runs, Contents \subseteq Own(r),
         Buffered >= PerRun[r]
  PROVE  \A k \in 1..PerRun[r] : buffer[<<r, k>>] > 0
<1> SUFFICES ASSUME NEW k \in 1..PerRun[r], ~ buffer[<<r, k>>] > 0 PROVE FALSE
  OBVIOUS
<1> DEFINE rest == (1..PerRun[r]) \ {k}
           once == {<<<<r, i>>, 1>> : i \in rest}
<1>1. PerRun[r] \in Nat \ {0} /\ k \in 1..PerRun[r]
  BY PacketFacts
<1>2. IsFiniteSet(rest) /\ Cardinality(rest) = PerRun[r] - 1
  <2>1. PICK n \in Nat \ {0} : n = PerRun[r]
    BY <1>1
  <2>2. IsFiniteSet(1..n) /\ Cardinality(1..n) = IF 1 > n THEN 0 ELSE n - 1 + 1
    BY FS_Interval
  <2>3. k \in 1..n /\ Cardinality(1..n) = n
    BY <1>1, <2>1, <2>2
  <2>4. IsFiniteSet((1..n) \ {k}) /\ Cardinality((1..n) \ {k}) = Cardinality(1..n) - 1
    BY <2>2, <2>3, FS_RemoveElement
  <2> QED
    BY <2>1, <2>3, <2>4
<1>3. IsFiniteSet(once) /\ Cardinality(once) <= Cardinality(rest)
  <2>1. [i \in rest |-> <<<<r, i>>, 1>>] \in Surjection(rest, once)
    BY DEF Surjection
  <2> QED
    BY <1>2, <2>1, FS_Surjection
<1>4. Copies \subseteq once
  <2> SUFFICES ASSUME NEW p \in Packets, NEW c \in 1..buffer[p] PROVE <<p, c>> \in once
    BY DEF Copies
  <2>1. buffer[p] \in Nat /\ buffer[p] <= 1
    BY DEF TypeOK, BufferedOnce
  <2>2. c = 1 /\ buffer[p] > 0
    BY <2>1
  <2>3. PICK i \in 1..PerRun[r] : p = <<r, i>>
    BY <2>2 DEF Contents, Own
  <2>4. i # k
    BY <2>2, <2>3
  <2> QED
    BY <2>2, <2>3, <2>4
<1>5. Cardinality(Copies) <= Cardinality(once) /\ Cardinality(Copies) \in Nat /\ Cardinality(once) \in Nat
  BY <1>3, <1>4, FS_Subset, FS_CardinalityType
<1> HIDE DEF once, rest
<1> QED
  BY <1>1, <1>2, <1>3, <1>5 DEF Buffered
-----------------------------------------------------------------------------
LEMMA InitIInv == Init => IInv
<1> SUFFICES ASSUME Init PROVE IInv
  OBVIOUS
<1> USE FeedAssumption, SubscribersAssumption
<1>1. stream = <<>> /\ Len(stream) = 0 /\ \A s \in Subscribers : seen[s] = <<>> /\ Len(seen[s]) = 0
  BY DEF Init, BusInit
<1>2. BusTypeOK /\ taken \in [Subscribers -> Nat]
  BY <1>1 DEF Init, BusInit, BusTypeOK, Connections
<1>3. Delivered
  BY <1>1, <1>2 DEF Delivered, Init, BusInit
<1>4. TypeOK
  BY <1>2 DEF TypeOK, Init
<1>5. SentOnce /\ BufferedOnce
  BY <1>1 DEF SentOnce, BufferedOnce, Init
<1>6. \A r \in Runs : Stage(r) /\ Kept(r)
  BY DEF Stage, Fresh, Kept, Init
<1> QED
  BY <1>3, <1>4, <1>5, <1>6 DEF IInv

\* A step of a run that publishes nothing and leaves the buffer alone.
LEMMA RunMoves ==
  ASSUME IInv, NEW r \in Runs,
         UNCHANGED <<busVars, now, emitted, stamp, buffer, consuming>>,
         centre' \in [Runs -> 0..MaxTime],
         NEW x \in {"fuse", "fused", "failed"},
         NEW y \in {"none", "own", "shared", "gaveUp"},
         runPc' = [runPc EXCEPT ![r] = x], wait' = [wait EXCEPT ![r] = y],
         fusedIn' \in [Runs -> SUBSET Packets],
         x = "fuse" => runPc[r] = "await",
         y = "own" => /\ x = "fuse" /\ distributed[kernel]
                      /\ \A k \in 1..PerRun[r] : buffer[<<r, k>>] > 0
  PROVE  IInv'
<1>1. /\ runPc'[r] = x /\ wait'[r] = y
      /\ \A o \in Runs \ {r} : runPc'[o] = runPc[o] /\ wait'[o] = wait[o]
  BY DEF IInv, TypeOK
<1>2. TypeOK'
  BY DEF IInv, TypeOK, BusTypeOK, busVars, readerVars
<1>3. Delivered' /\ SentOnce' /\ BufferedOnce'
  BY DEF IInv, Delivered, BusTypeOK, SentOnce, BufferedOnce, busVars, readerVars
<1>4. ASSUME NEW o \in Runs PROVE Stage(o)' /\ Kept(o)'
  <2>1. Stage(o) /\ Kept(o)
    BY DEF IInv
  <2>3. CASE o # r
    BY <1>1, <2>1, <2>3 DEF Stage, Fresh, Kept, busVars
  <2>4. CASE o = r
    <3>1. Stage(r)'
      BY <1>1, <2>1, <2>4 DEF Stage, busVars
    <3>2. ~ (~ distributed[kernel] /\ runPc'[r] \in {"emit", "handOver", "fuse"})
      BY <1>1, <2>1, <2>4 DEF Stage
    <3>3. Kept(r)'
      BY <1>1, <3>2 DEF Fresh, Kept, busVars
    <3> QED
      BY <2>4, <3>1, <3>3
  <2> QED
    BY <2>3, <2>4
<1> QED
  BY <1>2, <1>3, <1>4 DEF IInv

LEMMA WaitEndsKeeps == ASSUME IInv, NEW r \in Runs, WaitEnds(r) PROVE IInv'
<1>1. /\ runPc[r] = "await" /\ Buffered >= PerRun[r]
      /\ UNCHANGED <<busVars, now, emitted, stamp, buffer, consuming>>
      /\ centre' \in [Runs -> 0..MaxTime]
      /\ fusedIn' \in [Runs -> SUBSET Packets] /\ distributed[kernel]
  BY DEF WaitEnds, IInv, TypeOK, Stage
<1>2. runPc' = [runPc EXCEPT ![r] = "fuse"]
  BY DEF WaitEnds
<1>3. CASE Contents \subseteq Own(r)
  <2>1. wait' = [wait EXCEPT ![r] = "own"]
    BY <1>3 DEF WaitEnds
  <2>2. \A k \in 1..PerRun[r] : buffer[<<r, k>>] > 0
    BY <1>1, <1>3, CountDecides DEF IInv
  <2> QED
    BY <1>1, <1>2, <2>1, <2>2, RunMoves
<1>4. CASE ~ Contents \subseteq Own(r)
  <2>1. wait' = [wait EXCEPT ![r] = "shared"]
    BY <1>4 DEF WaitEnds
  <2> QED
    BY <1>1, <1>2, <2>1, RunMoves
<1> QED
  BY <1>3, <1>4

LEMMA GiveUpKeeps == ASSUME IInv, NEW r \in Runs, GiveUpWaiting(r) PROVE IInv'
BY RunMoves DEF GiveUpWaiting, IInv, TypeOK

LEMMA RunEndsKeeps == ASSUME IInv, NEW r \in Runs, Fuse(r) \/ RunFails(r) PROVE IInv'
<1>1. PICK x \in {"fused", "failed"} :
        /\ runPc' = [runPc EXCEPT ![r] = x] /\ wait' = [wait EXCEPT ![r] = "none"]
        /\ UNCHANGED <<busVars, now, emitted, stamp, buffer, consuming>>
  BY DEF Fuse, RunFails
<1>2. fusedIn' \in [Runs -> SUBSET Packets] /\ centre' \in [Runs -> 0..MaxTime]
  BY FeedAssumption DEF Fuse, RunFails, IInv, TypeOK, Window, Contents
<1> QED
  BY <1>1, <1>2, RunMoves

LEMMA StartRunKeeps == ASSUME IInv, NEW r \in Runs, NEW c \in 0..MaxTime, StartRun(r, c) PROVE IInv'
<1>1. /\ runPc[r] = "idle"
      /\ runPc' = [runPc EXCEPT ![r] = "emit"]
      /\ centre' = [centre EXCEPT ![r] = c]
      /\ UNCHANGED <<busVars, now, emitted, stamp, buffer, consuming, wait, fusedIn>>
  BY DEF StartRun
<1>2. /\ runPc'[r] = "emit"
      /\ \A o \in Runs \ {r} : runPc'[o] = runPc[o]
  BY <1>1 DEF IInv, TypeOK
<1>4. TypeOK'
  BY <1>1 DEF IInv, TypeOK, BusTypeOK, busVars, readerVars
<1>5. Delivered' /\ SentOnce' /\ BufferedOnce'
  BY <1>1 DEF IInv, Delivered, BusTypeOK, SentOnce, BufferedOnce, busVars, readerVars
<1>6. ASSUME NEW o \in Runs PROVE Stage(o)' /\ Kept(o)'
  <2>1. Stage(o) /\ Kept(o)
    BY DEF IInv
  <2>2. CASE o # r
    BY <1>1, <1>2, <2>1, <2>2 DEF Stage, Fresh, Kept, busVars
  <2>3. CASE o = r
    <3>1. emitted[r] = 0 /\ wait[r] # "own"
      BY <1>1, <2>1, <2>3 DEF Stage
    <3>2. \A k \in 1..emitted[r] : FALSE
      BY <3>1
    <3> QED
      BY <1>1, <1>2, <2>1, <2>3, <3>1, <3>2 DEF Stage, Fresh, Kept, busVars
  <2> QED
    BY <2>2, <2>3
<1> QED
  BY <1>4, <1>5, <1>6 DEF IInv

LEMMA TickKeeps == ASSUME IInv, Tick PROVE IInv'
<1>1. now \in 0..MaxTime /\ now < MaxTime /\ now' = now + 1 /\ UNCHANGED <<busVars, kernelVars, buffer, consuming>>
  BY DEF IInv, TypeOK, Tick
<1>2. now' \in 0..MaxTime /\ 0..now \subseteq 0..now' /\ now \in Nat /\ now' \in Nat
  BY <1>1, FeedAssumption
<1>3. TypeOK'
  BY <1>1, <1>2 DEF IInv, TypeOK, BusTypeOK, busVars, readerVars, kernelVars
<1>4. Delivered' /\ SentOnce' /\ BufferedOnce'
  BY <1>1 DEF IInv, Delivered, BusTypeOK, SentOnce, BufferedOnce, busVars, readerVars, kernelVars
<1>5. ASSUME NEW r \in Runs PROVE Stage(r)' /\ Kept(r)'
  <2>1. Stage(r) /\ Kept(r)
    BY DEF IInv
  <2>2. \A q \in Packets : stamp[q] \in Nat /\ Horizon \in Nat
    BY <1>2, FeedAssumption DEF IInv, TypeOK
  <2>3. \A q \in Packets : Fresh(q)' => Fresh(q)
    BY <1>1, <1>2, <2>2 DEF Fresh, kernelVars
  <2>6. /\ \A k \in 1..PerRun[r] : <<r, k>> \in Packets
        /\ \A k \in 1..emitted[r] : <<r, k>> \in Packets
    BY PacketFacts DEF IInv, TypeOK
  <2>4. Stage(r)'
    BY <1>1, <2>1 DEF Stage, busVars, kernelVars
  <2>5. Kept(r)'
    BY <1>1, <2>1, <2>3, <2>6 DEF Kept, busVars, kernelVars
  <2> QED
    BY <2>4, <2>5
<1> QED
  BY <1>3, <1>4, <1>5 DEF IInv

LEMMA PumpKeeps ==
  ASSUME IInv, Pumping(fusion) \/ PumpDies(fusion), UNCHANGED feedVars
  PROVE  IInv'
<1>1. /\ Delivered' /\ UNCHANGED <<distributed, stream, taken>>
      /\ \A i \in 1..Len(seen[fusion]) : i \in 1..Len(seen'[fusion]) /\ seen'[fusion][i] = seen[fusion][i]
  BY PumpDelivers DEF IInv
<1>2. TypeOK'
  BY <1>1 DEF IInv, TypeOK, Delivered, feedVars
<1>3. SentOnce'
  BY <1>1 DEF IInv, SentOnce, feedVars
<1>4. BufferedOnce'
  <2>1. \A i \in 1..taken[fusion] : i \in 1..Len(seen[fusion])
    BY FeedAssumption, LenProperties DEF IInv, Delivered, BusTypeOK
  <2> QED
    BY <1>1, <2>1 DEF IInv, BufferedOnce, feedVars
<1>5. \A r \in Runs : Stage(r)' /\ Kept(r)'
  BY <1>1 DEF IInv, Stage, Fresh, Kept, feedVars
<1> QED
  BY <1>1, <1>2, <1>3, <1>4, <1>5 DEF IInv

LEMMA PayloadKeeps == ASSUME IInv, NEW m \in Payloads, PayloadPosted(m) PROVE IInv'
<1>1. /\ Xadd(m, TRUE) /\ UNCHANGED <<distributed, readerVars, taken, feedVars>>
      /\ m \in Messages /\ m \notin Packets
  BY FeedAssumption DEF PayloadPosted
<1>2. Delivered'
  BY <1>1, AppendDelivers DEF IInv
<1>3. SentOnce'
  <2>1. \A r \in Runs : emitted[r] <= emitted'[r]
    BY <1>1 DEF IInv, TypeOK, feedVars
  <2>2. \A r \in Runs : \A k \in 1..PerRun[r] : m = <<r, k>> => emitted[r] < k /\ k <= emitted'[r]
    BY <1>1, PacketFacts
  <2>3. stream \in Seq(Messages) /\ emitted \in [Runs -> Nat] /\ emitted' \in [Runs -> Nat]
    BY <1>1 DEF IInv, TypeOK, BusTypeOK, feedVars
  <2> QED
    BY <1>1, <2>1, <2>2, <2>3, AppendSendsOnce DEF IInv
<1>4. TypeOK' /\ BufferedOnce' /\ \A r \in Runs : Stage(r)' /\ Kept(r)'
  BY <1>1, <1>2 DEF IInv, TypeOK, Delivered, BufferedOnce, Stage, Fresh, Kept, feedVars, Xadd
<1> QED
  BY <1>2, <1>3, <1>4 DEF IInv

LEMMA EmitKeeps ==
  ASSUME IInv, NEW r \in Runs, NEW reaches \in BOOLEAN, Emit(r, reaches)
  PROVE  IInv'
<1>1. PICK p : p = <<r, emitted[r] + 1>>
  OBVIOUS
<1>2. /\ runPc[r] = "emit" /\ emitted[r] < PerRun[r]
      /\ emitted' = [emitted EXCEPT ![r] = @ + 1]
      /\ stamp' = [stamp EXCEPT ![p] = now]
      /\ Published(ingestion, p, reaches)
      /\ runPc' = [runPc EXCEPT ![r] = IF ~ distributed[kernel] THEN "handOver"
                                       ELSE IF emitted[r] + 1 < PerRun[r] THEN "emit"
                                       ELSE "await"]
      /\ UNCHANGED <<distributed, readerVars, taken, now, centre, buffer, consuming, wait,
                     fusedIn>>
  BY <1>1 DEF Emit
<1>3. /\ emitted \in [Runs -> Nat] /\ PerRun[r] \in Nat /\ emitted[r] + 1 \in 1..PerRun[r]
      /\ p \in Packets /\ p \in Messages
      /\ now \in 0..now /\ now \in Nat
  BY <1>1, <1>2, PacketFacts, FeedAssumption DEF IInv, TypeOK
<1>4. /\ emitted' \in [Runs -> Nat] /\ emitted'[r] = emitted[r] + 1
      /\ \A o \in Runs \ {r} : emitted'[o] = emitted[o] /\ runPc'[o] = runPc[o]
      /\ stamp'[p] = now /\ \A q \in Packets \ {p} : stamp'[q] = stamp[q]
  BY <1>2, <1>3 DEF IInv, TypeOK
<1>5. \E b \in BOOLEAN : Xadd(p, b)
  <2>1. CASE distributed[ingestion]
    BY <1>2, <2>1 DEF Published
  <2>2. CASE ~ distributed[ingestion]
    <3>1. stream' = stream /\ seen' = seen
      BY <1>2, <2>2, FeedAssumption DEF Published, PutLocally, IInv, Delivered, BusTypeOK
    <3> QED
      BY <3>1 DEF Xadd
  <2> QED
    BY <2>1, <2>2
<1>6. PICK b \in BOOLEAN : Xadd(p, b)
  BY <1>5
<1>7. Delivered'
  BY <1>2, <1>3, <1>6, AppendDelivers DEF IInv
<1>8. SentOnce'
  <2>1. \A o \in Runs : emitted[o] <= emitted'[o]
    BY <1>3, <1>4
  <2>2. \A o \in Runs : \A k \in 1..PerRun[o] : p = <<o, k>> => emitted[o] < k /\ k <= emitted'[o]
    BY <1>1, <1>3, <1>4
  <2>3. stream \in Seq(Messages)
    BY DEF IInv, TypeOK, BusTypeOK
  <2> QED
    BY <1>3, <1>4, <1>6, <2>1, <2>2, <2>3, AppendSendsOnce DEF IInv
<1>9. TypeOK'
  <2>1. BusTypeOK'
    BY <1>7 DEF Delivered
  <2>2. emitted' \in [Runs -> Nat] /\ \A o \in Runs : emitted'[o] <= PerRun[o]
    BY <1>3, <1>4 DEF IInv, TypeOK
  <2>3. stamp' \in [Packets -> 0..now']
    BY <1>2, <1>3 DEF IInv, TypeOK
  <2> QED
    BY <1>2, <2>1, <2>2, <2>3 DEF IInv, TypeOK
<1>10. BufferedOnce'
  BY <1>2, <1>6 DEF IInv, BufferedOnce, Xadd
<1>11. ASSUME NEW o \in Runs PROVE Stage(o)' /\ Kept(o)'
  <2>1. Stage(o) /\ Kept(o)
    BY DEF IInv
  <2>2. CASE o # r
    <3>1. \A k \in 1..emitted[o] : stamp'[<<o, k>>] = stamp[<<o, k>>]
      <4>1. \A k \in 1..emitted[o] : <<o, k>> \in Packets /\ <<o, k>> # p
        BY <1>1, <2>2, PacketFacts DEF IInv, TypeOK
      <4> QED
        BY <1>4, <4>1
    <3> QED
      BY <1>2, <1>4, <2>1, <2>2, <3>1 DEF Stage, Fresh, Kept
  <2>3. CASE o = r
    <3>1. wait'[r] = wait[r] /\ wait[r] # "own"
      BY <1>2, <2>1, <2>3 DEF Stage
    <3>2. runPc'[r] = IF ~ distributed[kernel] THEN "handOver"
                      ELSE IF emitted[r] + 1 < PerRun[r] THEN "emit" ELSE "await"
      BY <1>2 DEF IInv, TypeOK
    <3>3. Stage(r)'
      BY <1>2, <1>3, <1>4, <2>1, <2>3, <3>1, <3>2 DEF Stage
    <3>5. Kept(r)'
      <4>1. CASE distributed[kernel]
        BY <1>2, <3>1, <4>1 DEF Kept
      <4>2. CASE ~ distributed[kernel]
        <5>1. runPc'[r] = "handOver" /\ runPc[r] = "emit"
          BY <1>2, <3>2, <4>2
        <5>2. \A k \in 1..emitted[r] : Fresh(<<r, k>>) => buffer[<<r, k>>] > 0
          BY <2>1, <2>3, <4>2, <5>1 DEF Kept
        <5>4. \A k \in 1..emitted[r] : Fresh(<<r, k>>)' => Fresh(<<r, k>>)
          <6>1. \A k \in 1..emitted[r] : <<r, k>> \in Packets /\ <<r, k>> # p
            BY <1>1, <1>3, PacketFacts
          <6> QED
            BY <1>2, <1>4, <6>1 DEF Fresh
        <5>3. \A k \in 1..emitted'[r] : k \in 1..emitted[r] \/ k = emitted'[r]
          BY <1>3, <1>4
        <5> QED
          BY <1>2, <3>1, <5>1, <5>2, <5>3, <5>4 DEF Kept
      <4> QED
        BY <4>1, <4>2
    <3> QED
      BY <2>3, <3>3, <3>5
  <2> QED
    BY <2>2, <2>3
<1> QED
  BY <1>7, <1>8, <1>9, <1>10, <1>11 DEF IInv

LEMMA HandOverKeeps == ASSUME IInv, NEW r \in Runs, HandOver(r) PROVE IInv'
<1>1. PICK p : p = <<r, emitted[r]>>
  OBVIOUS
<1>2. /\ runPc[r] = "handOver"
      /\ Ingest(p)
      /\ runPc' = [runPc EXCEPT ![r] = AfterEmit(r)]
      /\ wait' = [wait EXCEPT ![r] = "handedOver"]
      /\ UNCHANGED <<busVars, now, emitted, centre, stamp, consuming, fusedIn>>
  BY <1>1 DEF HandOver
<1>3. ~ distributed[kernel] /\ emitted[r] \in 1..PerRun[r] /\ p \in Packets
  BY <1>1, <1>2, PacketFacts DEF IInv, Stage, TypeOK
<1>4. /\ buffer' \in [Packets -> Nat]
      /\ \A q \in Packets : Fresh(q) => buffer'[q] >= buffer[q]
      /\ Fresh(p) => buffer'[p] > 0
  BY <1>2, <1>3, IngestFacts DEF IInv
<1>5. /\ AfterEmit(r) \in {"emit", "fuse"}
      /\ AfterEmit(r) = "fuse" => emitted[r] = PerRun[r]
  BY <1>3, PacketFacts DEF AfterEmit
<1>6. /\ runPc'[r] = AfterEmit(r) /\ wait'[r] = "handedOver"
      /\ \A o \in Runs \ {r} : runPc'[o] = runPc[o] /\ wait'[o] = wait[o]
  BY <1>2 DEF IInv, TypeOK
<1>7. TypeOK'
  BY <1>2, <1>4, <1>5 DEF IInv, TypeOK, BusTypeOK, busVars, readerVars
<1>8. Delivered' /\ SentOnce' /\ BufferedOnce'
  BY <1>2, <1>3 DEF IInv, Delivered, BusTypeOK, SentOnce, BufferedOnce, busVars, readerVars
<1>9. ASSUME NEW o \in Runs PROVE Stage(o)' /\ Kept(o)'
  <2>1. Stage(o) /\ Kept(o)
    BY DEF IInv
  <2>2. \A q \in Packets : Fresh(q)' = Fresh(q)
    BY <1>2 DEF Fresh, busVars
  <2>3. Stage(o)'
    BY <1>2, <1>3, <1>5, <1>6, <2>1 DEF Stage, busVars
  <2>4. \A k \in 1..emitted[o] :
          /\ <<o, k>> \in Packets
          /\ buffer[<<o, k>>] \in Nat /\ buffer'[<<o, k>>] \in Nat
    BY <1>4, PacketFacts DEF IInv, TypeOK
  <2>5. ASSUME NEW k \in 1..emitted[o], Fresh(<<o, k>>), buffer[<<o, k>>] > 0
        PROVE  buffer'[<<o, k>>] > 0
    BY <1>4, <2>4, <2>5
  <2>7. wait'[o] # "own"
    BY <1>2, <1>3, <2>3 DEF Stage, busVars
  <2>8. Kept(o)'
    <3> SUFFICES ASSUME runPc'[o] \in {"emit", "handOver", "fuse"},
                        NEW k \in 1..emitted[o], Fresh(<<o, k>>)
                 PROVE  buffer'[<<o, k>>] > 0 \/ (runPc'[o] = "handOver" /\ k = emitted[o])
      BY <1>2, <2>2, <2>4, <2>7 DEF Kept, busVars
    <3>1. CASE o = r
      <4>1. CASE k = emitted[r]
        BY <1>1, <1>4, <3>1, <4>1
      <4>2. CASE k # emitted[r]
        <5>1. buffer[<<o, k>>] > 0
          BY <1>2, <1>3, <2>1, <3>1, <4>2 DEF Kept
        <5> QED
          BY <2>5, <5>1
      <4> QED
        BY <4>1, <4>2
    <3>2. CASE o # r
      <4>1. buffer[<<o, k>>] > 0 \/ (runPc'[o] = "handOver" /\ k = emitted[o])
        BY <1>3, <1>6, <2>1, <3>2 DEF Kept
      <4> QED
        BY <2>5, <4>1
    <3> QED
      BY <3>1, <3>2
  <2> QED
    BY <2>3, <2>8
<1> QED
  BY <1>7, <1>8, <1>9 DEF IInv

LEMMA ConsumesKeeps == ASSUME IInv, FusionConsumes PROVE IInv'
<1>1. /\ Get(fusion) /\ UNCHANGED <<now, kernelVars>>
      /\ UNCHANGED <<distributed, stream, readerVars, seen>>
  BY DEF FusionConsumes, Get
<1>2. /\ Delivered' /\ taken'[fusion] = taken[fusion] + 1
      /\ taken'[fusion] \in 1..Len(seen[fusion])
      /\ Upcoming(fusion) = seen[fusion][taken[fusion] + 1]
      /\ taken[fusion] \in Nat
  BY <1>1, GetDelivers, FeedAssumption DEF IInv, Delivered
<1>3. SentOnce' /\ \A r \in Runs : Stage(r)'
  BY <1>1 DEF IInv, SentOnce, Stage, kernelVars
<1>4. CASE Upcoming(fusion) \notin Packets
  <2>1. UNCHANGED buffer /\ consuming' = FALSE
    BY <1>4 DEF FusionConsumes
  <2>2. TypeOK' /\ \A r \in Runs : Kept(r)'
    BY <1>1, <1>2, <2>1 DEF IInv, TypeOK, Delivered, Fresh, Kept, kernelVars
  <2>3. BufferedOnce'
    <3>1. \A i \in 1..taken[fusion] : i \in 1..taken'[fusion]
      BY <1>2
    <3> QED
      BY <1>1, <2>1, <3>1 DEF IInv, BufferedOnce
  <2> QED
    BY <1>2, <1>3, <2>2, <2>3 DEF IInv
<1>5. CASE Upcoming(fusion) \in Packets
  <2>1. PICK p \in Packets : p = Upcoming(fusion)
    BY <1>5
  <2>2. Ingest(p) /\ UNCHANGED consuming
    BY <1>5, <2>1 DEF FusionConsumes
  <2>3. /\ buffer' \in [Packets -> Nat]
        /\ \A q \in Packets : buffer'[q] <= buffer[q] + 1
        /\ \A q \in Packets \ {p} : buffer'[q] <= buffer[q]
        /\ \A q \in Packets : Fresh(q) => buffer'[q] >= buffer[q]
    BY <2>2, IngestFacts DEF IInv
  <2>4. TypeOK'
    BY <1>1, <1>2, <2>2, <2>3 DEF IInv, TypeOK, Delivered, kernelVars
  <2>5. ASSUME distributed[kernel], NEW q \in Packets
        PROVE  /\ buffer'[q] <= 1
               /\ buffer'[q] = 1 => \E i \in 1..taken'[fusion] : seen[fusion][i] = q
    <3>1. /\ buffer[q] \in Nat /\ buffer'[q] \in Nat /\ buffer[q] <= 1
          /\ buffer[q] = 1 => \E i \in 1..taken[fusion] : seen[fusion][i] = q
      BY <2>3, <2>5 DEF IInv, TypeOK, BufferedOnce
    <3>2. CASE q = p
      <4>1. buffer[p] # 1
        <5> SUFFICES ASSUME buffer[p] = 1 PROVE FALSE
          OBVIOUS
        <5>1. PICK i \in 1..taken[fusion] : seen[fusion][i] = p
          BY <3>1, <3>2
        <5>2. i \in 1..Len(seen[fusion]) /\ taken[fusion] + 1 \in 1..Len(seen[fusion])
          BY <1>2
        <5>3. i = taken[fusion] + 1
          BY <1>2, <2>1, <5>1, <5>2, SeenOnce DEF IInv
        <5> QED
          BY <1>2, <5>3
      <4>2. buffer'[q] <= 1
        BY <2>3, <3>1, <3>2, <4>1
      <4>3. seen[fusion][taken'[fusion]] = q /\ taken'[fusion] \in 1..taken'[fusion]
        BY <1>2, <2>1, <3>2
      <4> QED
        BY <4>2, <4>3
    <3>3. CASE q # p
      <4>1. buffer'[q] <= buffer[q]
        BY <2>3, <3>3
      <4>2. \A i \in 1..taken[fusion] : i \in 1..taken'[fusion]
        BY <1>2
      <4> QED
        BY <3>1, <4>1, <4>2
    <3> QED
      BY <3>2, <3>3
  <2>6. BufferedOnce'
    BY <1>1, <2>5 DEF BufferedOnce
  <2>7. ASSUME NEW r \in Runs PROVE Kept(r)'
    <3>1. Kept(r) /\ Stage(r) /\ emitted[r] \in Nat
      BY DEF IInv, TypeOK
    <3>2. \A k \in 1..PerRun[r] : buffer[<<r, k>>] \in Nat /\ buffer'[<<r, k>>] \in Nat
      BY <2>3, PacketFacts DEF IInv, TypeOK
    <3>3. \A k \in 1..emitted[r] : k \in 1..PerRun[r]
      BY <3>1, PacketFacts DEF IInv, TypeOK
    <3>4. ASSUME NEW k \in 1..emitted[r], Fresh(<<r, k>>), buffer[<<r, k>>] > 0
          PROVE  buffer'[<<r, k>>] > 0
      BY <2>3, <3>2, <3>3, <3>4, PacketFacts
    <3>6. \A k \in 1..PerRun[r] : Fresh(<<r, k>>)' = Fresh(<<r, k>>)
      BY <1>1 DEF Fresh, kernelVars
    <3>5. wait[r] = "own" => emitted[r] = PerRun[r]
      BY <3>1 DEF Stage
    <3> QED
      BY <1>1, <3>1, <3>3, <3>4, <3>5, <3>6 DEF Kept, kernelVars
  <2> QED
    BY <1>2, <1>3, <2>4, <2>6, <2>7 DEF IInv
<1> QED
  BY <1>4, <1>5
-----------------------------------------------------------------------------
LEMMA NextIInv == IInv /\ [Next]_vars => IInv'
<1> SUFFICES ASSUME IInv, [Next]_vars PROVE IInv'
  OBVIOUS
<1>1. CASE UNCHANGED vars
  BY <1>1 DEF vars, busVars, readerVars, feedVars, IInv, TypeOK, Delivered, BusTypeOK, SentOnce,
              BufferedOnce, Stage, Fresh, Kept
<1>2. ASSUME NEW r \in Runs, RunStep(r) PROVE IInv'
  BY <1>2, HandOverKeeps, WaitEndsKeeps, GiveUpKeeps, RunEndsKeeps, EmitKeeps DEF RunStep
<1> QED
  BY <1>1, <1>2, ConsumesKeeps, StartRunKeeps, PayloadKeeps, TickKeeps, PumpKeeps DEF Next

LEMMA Invariance == Spec => []IInv
BY InitIInv, NextIInv, PTL DEF Spec

\* The feed stays within its types, whatever dies, is lost or is posted.
THEOREM TypeCorrect == Spec => []TypeOK
<1>1. IInv => TypeOK
  BY DEF IInv
<1> QED
  BY <1>1, Invariance, PTL

\* A run whose wait counted its own packets only, or that handed them over, has
\* every packet of its window that is not too old by then fused, whichever
\* centre its client chose, for every number of runs, packets, window and
\* horizon.
THEOREM FusionComplete == Spec => []FusedIsComplete
<1>1. IInv => FusedIsComplete
  <2> SUFFICES ASSUME IInv, NEW r \in Runs, runPc[r] = "fuse", wait[r] \in {"own", "handedOver"},
                      NEW k \in 1..PerRun[r], Fresh(<<r, k>>)
               PROVE  <<r, k>> \in Contents
    BY DEF FusedIsComplete, Own, Window
  <2>1. Stage(r) /\ Kept(r) /\ <<r, k>> \in Packets
    BY PacketFacts DEF IInv
  <2>2. buffer[<<r, k>>] > 0
    BY <2>1 DEF Stage, Kept
  <2> QED
    BY <2>1, <2>2 DEF Contents
<1> QED
  BY <1>1, Invariance, PTL
=============================================================================
