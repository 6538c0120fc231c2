----------------------------- MODULE FusionFeed -----------------------------
(***************************************************************************)
(* How the packets of a pipeline run get into its fused event.  The kernel *)
(* has the ingestion service emit them; ingestion publishes each on the    *)
(* topic "streams", and the fusion service's consumer puts what it reads   *)
(* into a buffer shared by all runs.  A kernel with a distributed bus waits *)
(* until the buffer holds as many packets as it emitted, or two seconds; a *)
(* kernel that has fallen back hands the packets over itself.  Then it has *)
(* the window around the time of its request fused.                        *)
(***************************************************************************)
EXTENDS EventBus, FiniteSets

CONSTANTS
  kernel, ingestion, fusion,
  Payloads,      \* what clients of the gateway post on the topic: no packets
  Runs,          \* pipeline runs
  PerRun,        \* how many packets each run emits
  HalfWindow,    \* half of window_seconds
  Horizon,       \* age at which the buffer is pruned, window_seconds * 3
  MaxTime        \* bound on the clock

Own(r) == {<<r, i>> : i \in 1..PerRun[r]}
Packets == UNION {Own(r) : r \in Runs}

ASSUME FeedAssumption ==
  /\ {kernel, ingestion, fusion} \subseteq Services
  /\ fusion \in Subscribers /\ kernel \notin Subscribers /\ ingestion \notin Subscribers
  /\ PerRun \in [Runs -> Nat \ {0}]
  /\ Packets \cup Payloads \subseteq Messages /\ Packets \cap Payloads = {}
  /\ HalfWindow \in Nat /\ Horizon \in Nat /\ HalfWindow <= Horizon
  /\ MaxTime \in Nat

VARIABLES
  now,           \* the clock
  runPc,         \* where each run is
  emitted,       \* how many packets it has
  centre,        \* window_center of the request that is under way
  stamp,         \* packet.timestamp
  buffer,        \* packet_buffer: how often each packet is in it
  consuming,     \* whether the fusion consumer lives
  wait,          \* history: how the present wait of a run ended
  fusedIn        \* source_packets of its fused event

feedVars == <<now, runPc, emitted, centre, stamp, buffer, consuming, wait,
              fusedIn>>
vars == <<busVars, feedVars>>
kernelVars == <<runPc, emitted, centre, stamp, wait, fusedIn>>

Init ==
  /\ BusInit
  /\ now = 0
  /\ runPc = [r \in Runs |-> "idle"]
  /\ emitted = [r \in Runs |-> 0]
  /\ centre = [r \in Runs |-> 0]
  /\ stamp = [p \in Packets |-> 0]
  /\ buffer = [p \in Packets |-> 0]
  /\ consuming = TRUE
  /\ wait = [r \in Runs |-> "none"]
  /\ fusedIn = [r \in Runs |-> {}]

\* len(packet_buffer): the copies of every packet.
Copies == UNION {{p} \X (1..buffer[p]) : p \in Packets}
Buffered == Cardinality(Copies)
Contents == {p \in Packets : buffer[p] > 0}
Distance(a, b) == IF a < b THEN b - a ELSE a - b

\* A packet that pruning by age spares.
Fresh(p) == now <= stamp[p] + Horizon
-----------------------------------------------------------------------------
\* Mutant of Ingest: the buffer keeps what the present window needs.
IngestPruningWindow(p) ==
  buffer' = [q \in Packets |->
               IF stamp[q] + HalfWindow < now THEN 0
               ELSE IF q = p THEN buffer[q] + 1 ELSE buffer[q]]

\* MultiModalFusionEngine.ingest: append, then prune by age.
Ingest(p) ==
  buffer' = [q \in Packets |->
               IF ~ Fresh(q) THEN 0
               ELSE IF q = p THEN buffer[q] + 1 ELSE buffer[q]]

\* consume_stream_packets: a payload that is no StreamPacket raises, and the
\* consumer is gone for good.
FusionConsumes ==
  /\ consuming /\ Get(fusion)
  /\ IF Upcoming(fusion) \in Packets
     THEN Ingest(Upcoming(fusion)) /\ UNCHANGED consuming
     ELSE consuming' = FALSE /\ UNCHANGED buffer
  /\ UNCHANGED <<now, kernelVars>>
-----------------------------------------------------------------------------
\* A request arrives with the window_center its client chose.
StartRun(r, c) ==
  /\ runPc[r] = "idle"
  /\ runPc' = [runPc EXCEPT ![r] = "emit"]
  /\ centre' = [centre EXCEPT ![r] = c]
  /\ UNCHANGED <<busVars, now, emitted, stamp, buffer, consuming, wait, fusedIn>>

AfterEmit(r) ==
  IF emitted[r] < PerRun[r] THEN "emit"
  ELSE IF distributed[kernel] THEN "await" ELSE "fuse"

\* emit_packet of ingestion: a packet with a new timestamp, published on the
\* topic; a publication that raises is logged and forgotten.
Emit(r, reaches) ==
  LET p == <<r, emitted[r] + 1>>
  IN  /\ runPc[r] = "emit" /\ emitted[r] < PerRun[r]
      /\ emitted' = [emitted EXCEPT ![r] = @ + 1]
      /\ stamp' = [stamp EXCEPT ![p] = now]
      /\ Published(ingestion, p, reaches)
      /\ runPc' = [runPc EXCEPT ![r] = IF ~ distributed[kernel] THEN "handOver"
                                       ELSE IF emitted[r] + 1 < PerRun[r] THEN "emit"
                                       ELSE "await"]
      /\ UNCHANGED <<distributed, readerVars, taken, now, centre, buffer, consuming,
                     wait, fusedIn>>

\* POST /api/v1/fusion/ingest by a kernel without a distributed bus.
HandOver(r) ==
  /\ runPc[r] = "handOver"
  /\ Ingest(<<r, emitted[r]>>)
  /\ runPc' = [runPc EXCEPT ![r] = AfterEmit(r)]
  /\ wait' = [wait EXCEPT ![r] = "handedOver"]
  /\ UNCHANGED <<busVars, now, emitted, centre, stamp, consuming, fusedIn>>

\* _await_fusion_buffer ends because the buffer holds enough packets, of
\* whatever run.
WaitEnds(r) ==
  /\ runPc[r] = "await" /\ Buffered >= PerRun[r]
  /\ runPc' = [runPc EXCEPT ![r] = "fuse"]
  /\ wait' = [wait EXCEPT ![r] = IF Contents \subseteq Own(r) THEN "own" ELSE "shared"]
  /\ UNCHANGED <<busVars, now, emitted, centre, stamp, buffer, consuming, fusedIn>>

\* The deadline passes, or the state of the buffer cannot be read.
GiveUpWaiting(r) ==
  /\ runPc[r] = "await"
  /\ runPc' = [runPc EXCEPT ![r] = "fuse"]
  /\ wait' = [wait EXCEPT ![r] = "gaveUp"]
  /\ UNCHANGED <<busVars, now, emitted, centre, stamp, buffer, consuming, fusedIn>>

\* _select_window: what the buffer holds within half a window of the centre,
\* duplicates by perceptual_hash taken once.
Window(r) == {p \in Contents : Distance(stamp[p], centre[r]) <= HalfWindow}

\* fuse_window: an empty window is refused, which fails the run.
Fuse(r) ==
  /\ runPc[r] = "fuse"
  /\ fusedIn' = [fusedIn EXCEPT ![r] = Window(r)]
  /\ runPc' = [runPc EXCEPT ![r] = IF Window(r) = {} THEN "failed" ELSE "fused"]
  /\ wait' = [wait EXCEPT ![r] = "none"]
  /\ centre' = [centre EXCEPT ![r] = 0]
  /\ UNCHANGED <<busVars, now, emitted, stamp, buffer, consuming>>

\* A call of a service raises.
RunFails(r) ==
  /\ runPc[r] \in {"emit", "handOver", "fuse"}
  /\ runPc' = [runPc EXCEPT ![r] = "failed"]
  /\ wait' = [wait EXCEPT ![r] = "none"]
  /\ centre' = [centre EXCEPT ![r] = 0]
  /\ UNCHANGED <<busVars, now, emitted, stamp, buffer, consuming, fusedIn>>

Tick ==
  /\ now < MaxTime
  /\ now' = now + 1
  /\ UNCHANGED <<busVars, kernelVars, buffer, consuming>>

\* A client's payload reaches the stream through the gateway.
PayloadPosted(m) ==
  /\ \A i \in DOMAIN stream : stream[i] # m
  /\ Xadd(m, TRUE)
  /\ UNCHANGED <<distributed, readerVars, taken, feedVars>>

RunStep(r) ==
  \/ HandOver(r) \/ WaitEnds(r) \/ GiveUpWaiting(r) \/ Fuse(r) \/ RunFails(r)
  \/ \E reaches \in BOOLEAN : Emit(r, reaches)

Next ==
  \/ FusionConsumes
  \/ \E r \in Runs : RunStep(r) \/ \E c \in 0..MaxTime : StartRun(r, c)
  \/ \E m \in Payloads : PayloadPosted(m)
  \/ Tick
  \/ (Pumping(fusion) \/ PumpDies(fusion)) /\ UNCHANGED feedVars

Spec == Init /\ [][Next]_vars
-----------------------------------------------------------------------------
\* Type invariant, of the bus and of the feed.
TypeOK ==
  /\ BusTypeOK
  /\ now \in 0..MaxTime
  /\ runPc \in [Runs -> {"idle", "emit", "handOver", "await", "fuse", "fused",
                         "failed"}]
  /\ emitted \in [Runs -> Nat] /\ \A r \in Runs : emitted[r] <= PerRun[r]
  /\ centre \in [Runs -> 0..MaxTime] /\ stamp \in [Packets -> 0..now]
  /\ buffer \in [Packets -> Nat]
  /\ consuming \in BOOLEAN
  /\ wait \in [Runs -> {"none", "own", "shared", "gaveUp", "handedOver"}]
  /\ fusedIn \in [Runs -> SUBSET Packets]

\* A run whose wait found its count made up of its own packets, or that handed
\* them over itself, gets each of its packets of the window that is not too old
\* for the buffer yet into its fused event, whatever other runs, duplicates and
\* prunings did to the buffer meanwhile.  A wait that counted packets of other
\* runs promises nothing.
FusedIsComplete ==
  \A r \in Runs :
    runPc[r] = "fuse" /\ wait[r] \in {"own", "handedOver"} =>
      {p \in Own(r) : Distance(stamp[p], centre[r]) <= HalfWindow /\ Fresh(p)}
        \subseteq Window(r)
=============================================================================
