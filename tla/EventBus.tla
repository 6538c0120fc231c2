------------------------------ MODULE EventBus ------------------------------
(***************************************************************************)
(* One topic of the event bus.  A service whose bus is distributed appends *)
(* to a Redis stream and reads it with a pump task that repeats XREAD; a   *)
(* service that could not connect at startup has fallen back to a bus in   *)
(* its own memory, which nobody else hears.                                *)
(*                                                                         *)
(* A subscriber's queue is kept as the sequence of everything its pump put *)
(* there and the number of envelopes its consumer took out.                *)
(***************************************************************************)
EXTENDS Naturals, Sequences

CONSTANTS
  Services,      \* the services with a bus
  Subscribers,   \* those that subscribe to the topic
  Messages       \* payloads

ASSUME SubscribersAssumption == Subscribers \subseteq Services

VARIABLES
  distributed,   \* which services have reached Redis at startup
  stream,        \* the Redis stream of the topic
  pump,          \* where the pump task of each subscriber is
  anchored,      \* whether last_id is an entry's id, no longer "$"
  position,      \* the entries before the reach of the present XREAD
  seen,          \* what the pump put into the queue
  taken          \* how much of it the consumer took out

readerVars == <<pump, anchored, position>>
busVars == <<distributed, stream, readerVars, seen, taken>>

BusTypeOK ==
  /\ distributed \in [Services -> BOOLEAN]
  /\ stream \in Seq(Messages)
  /\ pump \in [Subscribers -> {"between", "waiting", "dead"}]
  /\ anchored \in [Subscribers -> BOOLEAN]
  /\ position \in [Subscribers -> 0..Len(stream)]
  /\ seen \in [Subscribers -> Seq(Messages)]
  /\ \A s \in Subscribers : taken[s] \in 0..Len(seen[s])

\* build_event_bus and connect_event_bus_with_retry: the attempts of a
\* service succeed, or it falls back for as long as it lives.
Connections == [Services -> BOOLEAN]

BusInit ==
  /\ distributed \in Connections
  /\ stream = <<>>
  /\ pump = [s \in Subscribers |-> "between"]
  /\ anchored = [s \in Subscribers |-> FALSE]
  /\ position = [s \in Subscribers |-> 0]
  /\ seen = [s \in Subscribers |-> <<>>]
  /\ taken = [s \in Subscribers |-> 0]

\* RedisStreamsEventBus.publish and KafkaRedisEventBus.publish, whose Kafka
\* topic nobody reads: the entry is in the stream, or Redis was not reached.
Xadd(m, reaches) ==
  /\ stream' = IF reaches THEN Append(stream, m) ELSE stream
  /\ UNCHANGED seen

\* InMemoryEventBus.publish: straight into the queues of the same process.
PutLocally(service, m) ==
  /\ seen' = [s \in Subscribers |-> IF s = service THEN Append(seen[s], m)
                                    ELSE seen[s]]
  /\ UNCHANGED stream

\* What publish does before it returns or raises.
Published(service, m, reaches) ==
  IF distributed[service] THEN Xadd(m, reaches)
  ELSE reaches /\ PutLocally(service, m)
-----------------------------------------------------------------------------
\* XREAD reaches Redis.  "$" stands for the last entry of this moment, so that
\* what was appended since the last poll is passed over.
StartRead(s) ==
  /\ distributed[s] /\ pump[s] = "between"
  /\ pump' = [pump EXCEPT ![s] = "waiting"]
  /\ position' = [position EXCEPT ![s] = IF anchored[s] THEN @ ELSE Len(stream)]
  /\ UNCHANGED <<distributed, stream, anchored, seen, taken>>

\* The poll interval passes without an entry.
ReadNothing(s) ==
  /\ pump[s] = "waiting" /\ position[s] = Len(stream)
  /\ pump' = [pump EXCEPT ![s] = "between"]
  /\ UNCHANGED <<distributed, stream, anchored, position, seen, taken>>

Read(s, n) == SubSeq(stream, position[s] + 1, position[s] + n)

\* Mutant of ReadEntries: last_id is set before the loop, not in it.
ReadEntriesForgettingId(s, n) ==
  /\ pump[s] = "waiting" /\ n \in 1..Len(stream) - position[s]
  /\ pump' = [pump EXCEPT ![s] = "between"]
  /\ seen' = [seen EXCEPT ![s] = @ \o Read(s, n)]
  /\ position' = [position EXCEPT ![s] = @ + n]
  /\ UNCHANGED <<distributed, stream, anchored, taken>>

\* Mutant of ReadEntries: the next read starts one entry too late.
ReadEntriesSkippingOne(s, n) ==
  /\ pump[s] = "waiting" /\ n \in 1..Len(stream) - position[s]
  /\ pump' = [pump EXCEPT ![s] = "between"]
  /\ seen' = [seen EXCEPT ![s] = @ \o Read(s, n)]
  /\ position' = [position EXCEPT ![s] = @ + n + 1]
  /\ anchored' = [anchored EXCEPT ![s] = TRUE]
  /\ UNCHANGED <<distributed, stream, taken>>

\* The answer with some of the entries after the position, those that were
\* there when Redis answered.
ReadEntries(s, n) ==
  /\ pump[s] = "waiting" /\ n \in 1..Len(stream) - position[s]
  /\ pump' = [pump EXCEPT ![s] = "between"]
  /\ seen' = [seen EXCEPT ![s] = @ \o Read(s, n)]
  /\ position' = [position EXCEPT ![s] = @ + n]
  /\ anchored' = [anchored EXCEPT ![s] = TRUE]
  /\ UNCHANGED <<distributed, stream, taken>>

\* XREAD raises, or an envelope does not validate: nothing catches it and
\* nothing starts the task again.
PumpDies(s) ==
  /\ pump[s] = "waiting"
  /\ pump' = [pump EXCEPT ![s] = "dead"]
  /\ UNCHANGED <<distributed, stream, anchored, position, seen, taken>>

\* queue.get of the consumer.
Waiting(s) == taken[s] < Len(seen[s])
Upcoming(s) == seen[s][taken[s] + 1]
Get(s) ==
  /\ Waiting(s)
  /\ taken' = [taken EXCEPT ![s] = @ + 1]
  /\ UNCHANGED <<distributed, stream, readerVars, seen>>

Pumping(s) ==
  \/ StartRead(s)
  \/ ReadNothing(s)
  \/ \E n \in 1..Len(stream) : ReadEntries(s, n)
-----------------------------------------------------------------------------
\* Where a subscriber began, and how far it came: what it was given is one
\* piece of the stream, every entry once and in order, that ends where it
\* reads on.  Only entries before its first one can be missing.
Consecutive(s) ==
  seen[s] = SubSeq(stream, position[s] + 1 - Len(seen[s]), position[s])

ReceivedInOrder ==
  \A s \in Subscribers :
    distributed[s] /\ seen[s] # <<>> =>
      Len(seen[s]) <= position[s] /\ Consecutive(s)
=============================================================================
