----------------------- MODULE ControlPlaneStoreProofs -----------------------
(***************************************************************************)
(* Proofs about ControlPlaneStore, for every set of entries, requests and  *)
(* reviews and every number of restarts.                                   *)
(***************************************************************************)
EXTENDS ControlPlaneStore, TLAPS

\* Exports are numbered in the order they are taken, and one that has not
\* landed is none that has.
NumberInv ==
  /\ row.number <= newest
  /\ \A w \in Pending : writes[w].number \in 1..exports /\ writes[w].number # newest
  /\ \A v, w \in Pending : v # w => writes[v].number # writes[w].number

\* Without a pool, or without a process, nothing is on its way.
PoolInv == phase = "down" \/ ~ pool => Pending = {}

Fresh(x, state) ==
  state.record[x] = "absent" /\ \A s \in Stopped : state.review[<<x, s>>] = "none"

InFlight == PCs \ {"idle", "answered", "failed", "raised", "gone"}

\* What the registry knows of an execution, by where its coroutine is.
StageInv ==
  /\ \A r \in Requests : pc[r] \in InFlight => phase = "up"
  /\ \A x \in Executions :
       /\ pc[x] = "idle" => /\ Fresh(x, mem) /\ Fresh(x, row.state)
                            /\ \A w \in Writers : Fresh(x, writes[w].state)
       /\ pc[x] \in {"saveStart", "work", "saveRun", "finish"} =>
            /\ mem.record[x] = "running"
            /\ \A s \in Stopped : mem.review[<<x, s>>] = "none"
       /\ pc[x] = "publish" =>
            mem.record[x] = "blocked" /\ mem.review[<<x, "failed">>] = "none"
  /\ \A d \in Decisions : pc[d] \in Saving => pc[d] = "save"

\* A request whose last save has landed, and has not been lost since.
Settled(r) ==
  /\ r \notin unsaved \cup overtaken
  /\ pc[r] = "answered" \/ (r \in Decisions /\ pc[r] = "publishDecision")

\* Such a request is in memory and in every export that can still become the
\* newest; one that is being saved is in every export taken since its own.
AckInv ==
  /\ \A r \in Requests : Settled(r) =>
       /\ phase # "down" => Holds(r, mem)
       /\ row.number = newest => Holds(r, row.state)
       /\ \A w \in Pending : writes[w].number > newest => Holds(r, writes[w].state)
       /\ phase = "down" => row.number = newest
  /\ \A r \in Requests : pc[r] = "save" =>
       /\ Holds(r, mem)
       /\ r \in Pending => \A w \in Pending : writes[w].number >= writes[r].number =>
                             Holds(r, writes[w].state)

\* The registry as it is now, but for tasks whose end is not exported yet.
Current(state) ==
  /\ state.entries = mem.entries
  /\ \A x \in Executions :
       pc[x] \notin {"publish", "publishFailure", "raised"} =>
         /\ state.record[x] = mem.record[x]
         /\ \A s \in Stopped : state.review[<<x, s>>] = mem.review[<<x, s>>]

\* The last export is current wherever it is.
LastInv ==
  phase # "down" /\ pool =>
    /\ row.number = exports => Current(row.state)
    /\ \A w \in Pending : writes[w].number = exports => Current(writes[w].state)

IInv ==
  /\ TypeOK
  /\ NumberInv
  /\ PoolInv
  /\ SnapshotsAreConsistent
  /\ StageInv
  /\ AckInv
  /\ LastInv

LEMMA SeededFacts ==
  /\ Seeded \in States
  /\ Consistent(Seeded)
  /\ \A x \in Executions : Fresh(x, Seeded)
  /\ NoWrite.number = 0 /\ NoWrite.state = Seeded
<1>1. Seeded \in States
  BY DEF Seeded, States, Statuses, Entries
<1>2. Consistent(Seeded)
  BY NeedsAssumption DEF Seeded, Consistent, Stopped, Reviews
<1>3. \A x \in Executions : Fresh(x, Seeded)
  BY DEF Seeded, Fresh, Reviews
<1> QED
  BY <1>1, <1>2, <1>3 DEF NoWrite

LEMMA InitIInv == Init => IInv
<1> SUFFICES ASSUME Init PROVE IInv
  OBVIOUS
<1>1. Pending = {} /\ \A w \in Writers : writes[w] = NoWrite
  BY DEF Init, Pending
<1>2. TypeOK
  <2>1. 0 \in 0..0 /\ 0 \in Nat /\ 0 \in 0..MaxCrashes
    BY MaxCrashesAssumption
  <2>2. NoWrite \in [state : States, number : 0..0]
    BY <2>1, SeededFacts DEF NoWrite
  <2>3. writes \in [Writers -> [state : States, number : 0..exports]]
    BY <2>2 DEF Init
  <2>4. pc \in [Requests -> PCs]
    BY DEF Init, PCs
  <2> QED
    BY <2>1, <2>2, <2>3, <2>4, SeededFacts DEF Init, TypeOK
<1>3. NumberInv /\ PoolInv /\ LastInv
  BY <1>1, SeededFacts DEF Init, NumberInv, PoolInv, LastInv
<1>4. SnapshotsAreConsistent
  BY <1>1, SeededFacts DEF Init, SnapshotsAreConsistent
<1>5. StageInv
  BY <1>1, SeededFacts DEF Init, StageInv, InFlight, Saving, Requests
<1>6. AckInv
  BY DEF Init, AckInv, Settled, Requests
<1> QED
  BY <1>2, <1>3, <1>4, <1>5, <1>6 DEF IInv

\* The code between two awaits of a request, in general: the registry may
\* change, and may be exported for the request.
Works(r, label) ==
  /\ phase = "up"
  /\ Goto(r, label)
  /\ unsaved' \in {unsaved, unsaved \cup {r}}
  /\ UNCHANGED <<row, target, process, newest, overtaken>>
  /\ Export(r, mem') \/ UNCHANGED <<writes, exports>>

\* What the registry may change in.
Grows(r) ==
  /\ \A x \in Executions \ {r} :
       /\ mem'.record[x] = mem.record[x]
       /\ \A s \in Stopped :
            mem'.review[<<x, s>>] = "none" <=> mem.review[<<x, s>>] = "none"
  /\ \A q \in Requests : Holds(q, mem) => Holds(q, mem')

\* Where the request stands agrees with the registry.
Stage(r, label) ==
  /\ label \in PCs \ {"idle", "publishDecision", "gone"}
  /\ label = "answered" => r \in Decisions /\ pc[r] = "publishDecision"
  /\ r \in Executions /\ label \in {"saveStart", "work", "saveRun", "finish"} =>
       mem'.record[r] = "running" /\ \A s \in Stopped : mem'.review[<<r, s>>] = "none"
  /\ r \in Executions /\ label = "publish" =>
       mem'.record[r] = "blocked" /\ mem'.review[<<r, "failed">>] = "none"
  /\ label = "save" => Holds(r, mem') /\ Export(r, mem')
  /\ r \in Decisions /\ label \in Saving => label = "save"

\* A change that is not exported is one of a task that is still to end.
Owned(r, label) ==
  /\ UNCHANGED <<writes, exports>>
  /\ mem'.entries = mem.entries
  /\ \A x \in Executions \ {r} :
       /\ mem'.record[x] = mem.record[x]
       /\ \A s \in Stopped : mem'.review[<<x, s>>] = mem.review[<<x, s>>]
  /\ \/ r \in Executions /\ label \in {"publish", "publishFailure", "raised"}
     \/ r \in Decisions /\ mem' = mem

\* What an export adds to the writes under way.
LEMMA ExportFacts ==
  ASSUME TypeOK, NEW w \in Writers, mem' \in States, Export(w, mem'), pool
  PROVE  /\ exports' = exports + 1
         /\ exports \in Nat
         /\ writes'[w] = [state |-> mem', number |-> exports + 1]
         /\ writes'[w] # NoWrite
         /\ \A v \in Writers \ {w} : writes'[v] = writes[v]
         /\ Pending' = Pending \cup {w}
         /\ writes' \in [Writers -> [state : States, number : 0..exports']]
<1>1. /\ exports' = exports + 1 /\ exports \in Nat
      /\ writes' = [writes EXCEPT ![w] = [state |-> mem', number |-> exports + 1]]
      /\ writes \in [Writers -> [state : States, number : 0..exports]]
  BY DEF Export, TypeOK
<1>2. /\ writes'[w] = [state |-> mem', number |-> exports + 1]
      /\ \A v \in Writers \ {w} : writes'[v] = writes[v]
  BY <1>1
<1>3. writes'[w] # NoWrite
  BY <1>1, <1>2, SeededFacts
<1>4. Pending' = Pending \cup {w}
  BY <1>2, <1>3 DEF Pending
<1>5. 0..exports \subseteq 0..exports'
  BY <1>1
<1>6. writes' \in [Writers -> [state : States, number : 0..exports']]
  BY <1>1, <1>2, <1>5
<1> QED
  BY <1>1, <1>2, <1>3, <1>4, <1>6

\* Whether a request wrote or not, its export is the last of all.
LEMMA WorkWrites ==
  ASSUME TypeOK, PoolInv, NEW r \in Requests, NEW label, Works(r, label), mem' \in States
  PROVE  \/ /\ pool /\ Export(r, mem') /\ exports' = exports + 1
            /\ writes'[r] = [state |-> mem', number |-> exports']
            /\ \A v \in Writers \ {r} : writes'[v] = writes[v]
            /\ Pending' = Pending \cup {r}
         \/ UNCHANGED <<writes, exports>> /\ Pending' = Pending
<1>1. r \in Writers
  BY DEF Writers
<1>2. CASE UNCHANGED <<writes, exports>>
  BY <1>2 DEF Pending
<1>3. CASE Export(r, mem') /\ pool
  BY <1>1, <1>3, ExportFacts
<1>4. CASE Export(r, mem') /\ ~ pool
  BY <1>2, <1>4 DEF Export
<1> QED
  BY <1>2, <1>3, <1>4 DEF Works

LEMMA WorkTypes ==
  ASSUME TypeOK, PoolInv, NEW r \in Requests, NEW label \in PCs, Works(r, label),
         mem' \in States
  PROVE  TypeOK'
<1>1. r \in Writers
  BY DEF Writers
<1>2. /\ exports' \in Nat /\ 0..exports \subseteq 0..exports'
      /\ writes' \in [Writers -> [state : States, number : 0..exports']]
  <2>1. CASE UNCHANGED <<writes, exports>>
    BY <2>1 DEF TypeOK
  <2>2. CASE Export(r, mem') /\ pool
    <3>1. /\ exports' = exports + 1 /\ exports \in Nat
          /\ writes' \in [Writers -> [state : States, number : 0..exports']]
      BY <1>1, <2>2, ExportFacts
    <3> QED
      BY <3>1
  <2>3. CASE Export(r, mem') /\ ~ pool
    BY <2>1, <2>3 DEF Export
  <2> QED
    BY <2>1, <2>2, <2>3 DEF Works
<1>3. row \in [state : States, number : 0..exports'] /\ newest \in 0..exports'
  BY <1>2 DEF TypeOK
<1>4. pc' \in [Requests -> PCs]
  BY DEF TypeOK, Works, Goto
<1> QED
  BY <1>2, <1>3, <1>4 DEF TypeOK, Works, process

LEMMA WorkNumbers ==
  ASSUME TypeOK, PoolInv, NumberInv, NEW r \in Requests, NEW label,
         Works(r, label), mem' \in States
  PROVE  NumberInv' /\ PoolInv'
<1>1. /\ exports \in Nat /\ newest \in 0..exports
      /\ phase' = phase /\ phase = "up" /\ pool' = pool /\ row' = row /\ newest' = newest
      /\ writes \in [Writers -> [state : States, number : 0..exports]]
      /\ r \in Writers
  BY DEF TypeOK, Works, process, Writers
<1>2. CASE UNCHANGED <<writes, exports>> /\ Pending' = Pending
  BY <1>1, <1>2 DEF NumberInv, PoolInv
<1>3. CASE /\ pool /\ exports' = exports + 1
           /\ writes'[r] = [state |-> mem', number |-> exports']
           /\ \A v \in Writers \ {r} : writes'[v] = writes[v]
           /\ Pending' = Pending \cup {r}
  <2>1. PoolInv'
    BY <1>1, <1>3 DEF PoolInv
  <2>2. writes'[r].number = exports + 1
    BY <1>3
  <2>3. \A v \in Pending' \ {r} :
          v \in Pending /\ writes'[v].number = writes[v].number /\ writes[v].number \in 1..exports
    BY <1>3 DEF NumberInv, Pending
  <2> QED
    BY <1>1, <1>3, <2>1, <2>2, <2>3 DEF NumberInv
<1> QED
  BY <1>2, <1>3, WorkWrites

LEMMA WorkConsistent ==
  ASSUME TypeOK, PoolInv, SnapshotsAreConsistent, NEW r \in Requests, NEW label,
         Works(r, label), mem' \in States, Consistent(mem)'
  PROVE  SnapshotsAreConsistent'
<1>1. Consistent(row.state)'
  BY DEF SnapshotsAreConsistent, Works, Consistent
<1>2. ASSUME NEW w \in Writers
      PROVE  Consistent(writes[w].state)'
  <2>1. writes'[w].state = mem' \/ writes'[w] = writes[w]
    BY WorkWrites
  <2> QED
    BY <2>1 DEF SnapshotsAreConsistent, Consistent
<1> QED
  BY <1>1, <1>2 DEF SnapshotsAreConsistent

LEMMA WorkStage ==
  ASSUME TypeOK, PoolInv, StageInv, NEW r \in Requests, NEW label,
         Works(r, label), mem' \in States, Grows(r), Stage(r, label)
  PROVE  StageInv'
<1>1. /\ phase' = "up" /\ row' = row
      /\ pc \in [Requests -> PCs]
      /\ pc'[r] = label /\ \A q \in Requests \ {r} : pc'[q] = pc[q]
  BY DEF TypeOK, Works, Goto, process
<1>2. \A q \in Requests : pc'[q] \in InFlight => phase' = "up"
  BY <1>1
<1>3. ASSUME NEW x \in Executions
      PROVE  /\ pc'[x] = "idle" =>
                  /\ Fresh(x, mem') /\ Fresh(x, row'.state)
                  /\ \A w \in Writers : Fresh(x, writes'[w].state)
             /\ pc'[x] \in {"saveStart", "work", "saveRun", "finish"} =>
                  /\ mem'.record[x] = "running"
                  /\ \A s \in Stopped : mem'.review[<<x, s>>] = "none"
             /\ pc'[x] = "publish" =>
                  mem'.record[x] = "blocked" /\ mem'.review[<<x, "failed">>] = "none"
  <2>1. CASE x = r
    BY <1>1, <2>1 DEF Stage
  <2>2. CASE x # r
    <3>1. pc'[x] = pc[x] /\ mem'.record[x] = mem.record[x]
      BY <1>1, <2>2 DEF Grows, Requests
    <3>2. \A s \in Stopped : mem'.review[<<x, s>>] = "none" <=> mem.review[<<x, s>>] = "none"
      BY <2>2 DEF Grows
    <3>3. Fresh(x, mem) => Fresh(x, mem')
      BY <3>1, <3>2 DEF Fresh
    <3>4. \A w \in Writers : writes'[w].state = mem' \/ writes'[w] = writes[w]
      BY WorkWrites
    <3>5. pc[x] = "idle" => \A w \in Writers : Fresh(x, writes'[w].state)
      BY <3>3, <3>4 DEF StageInv
    <3> QED
      BY <1>1, <3>1, <3>2, <3>3, <3>5 DEF StageInv, Stopped
  <2> QED
    BY <2>1, <2>2
<1>4. \A d \in Decisions : pc'[d] \in Saving => pc'[d] = "save"
  BY <1>1 DEF StageInv, Stage, Requests
<1> QED
  BY <1>2, <1>3, <1>4 DEF StageInv, Fresh

\* Holds reads the reviews that the decisions are about, which never change.
LEMMA HoldsPrimed ==
  ASSUME target' = target, NEW q
  PROVE  /\ Holds(q, mem)' <=> Holds(q, mem')
         /\ Holds(q, row.state)' <=> Holds(q, row'.state)
         /\ \A w \in Writers : Holds(q, writes[w].state)' <=> Holds(q, writes'[w].state)
BY DEF Holds

LEMMA WorkAck ==
  ASSUME TypeOK, PoolInv, NumberInv, AckInv, NEW r \in Requests, NEW label,
         Works(r, label), mem' \in States, Grows(r), Stage(r, label)
  PROVE  AckInv'
<1>1. /\ phase' = "up" /\ phase = "up" /\ row' = row /\ newest' = newest
      /\ pc \in [Requests -> PCs]
      /\ pc'[r] = label /\ \A q \in Requests \ {r} : pc'[q] = pc[q]
      /\ target' = target /\ overtaken' = overtaken /\ unsaved \subseteq unsaved'
  BY DEF TypeOK, Works, Goto, process
<1>2. \A w \in Pending' :
        \/ w = r /\ writes'[w].state = mem' /\ writes'[w].number = exports + 1
        \/ w \in Pending /\ writes'[w] = writes[w]
  BY WorkWrites DEF Pending
<1>3. ASSUME NEW q \in Requests, Settled(q)'
      PROVE  /\ Holds(q, mem')
             /\ row'.number = newest' => Holds(q, row'.state)
             /\ \A w \in Pending' : writes'[w].number > newest' => Holds(q, writes'[w].state)
  <2>1. Settled(q)
    BY <1>1, <1>3 DEF Settled, Stage
  <2>2. /\ Holds(q, mem)
        /\ row.number = newest => Holds(q, row.state)
        /\ \A w \in Pending : writes[w].number > newest => Holds(q, writes[w].state)
    BY <1>1, <2>1 DEF AckInv
  <2>3. Holds(q, mem')
    BY <2>2 DEF Grows
  <2>4. \A w \in Pending' : writes'[w].number > newest' => Holds(q, writes'[w].state)
    BY <1>1, <1>2, <2>2, <2>3
  <2> QED
    BY <1>1, <2>2, <2>3, <2>4
<1>4. ASSUME NEW q \in Requests, pc'[q] = "save"
      PROVE  /\ Holds(q, mem')
             /\ q \in Pending' => \A w \in Pending' : writes'[w].number >= writes'[q].number =>
                                    Holds(q, writes'[w].state)
  <2>1. CASE q = r
    <3>1. Holds(q, mem')
      BY <1>1, <1>4, <2>1 DEF Stage
    <3>2. CASE UNCHANGED <<writes, exports>> /\ Pending' = Pending
      <4>1. exports + 1 # exports
        BY DEF TypeOK
      <4>2. ~ pool
        BY <1>1, <1>4, <2>1, <3>2, <4>1 DEF Stage, Export
      <4>3. Pending' = {}
        BY <3>2, <4>2 DEF PoolInv
      <4> QED
        BY <2>1, <3>1, <4>3
    <3>3. CASE /\ pool /\ exports' = exports + 1
               /\ writes'[r] = [state |-> mem', number |-> exports']
               /\ \A v \in Writers \ {r} : writes'[v] = writes[v]
               /\ Pending' = Pending \cup {r}
      <4>1. \A w \in Pending' \ {r} : writes'[w].number < writes'[r].number
        BY <3>3 DEF NumberInv, TypeOK, Pending
      <4>2. writes'[r].state = mem'
        BY <3>3
      <4>3. \A w \in Pending' : writes'[w].number \in Nat
        BY <3>3 DEF NumberInv, TypeOK, Pending
      <4>4. \A w \in Pending' : writes'[w].number >= writes'[r].number => w = r
        BY <4>1, <4>3, <3>3
      <4> QED
        BY <2>1, <3>1, <4>2, <4>4
    <3> QED
      BY <3>2, <3>3, WorkWrites
  <2>2. CASE q # r
    <3>1. pc[q] = "save"
      BY <1>1, <1>4, <2>2
    <3>2. Holds(q, mem) /\ Holds(q, mem')
      BY <3>1 DEF AckInv, Grows
    <3>3. q \in Pending' => q \in Pending /\ writes'[q] = writes[q]
      BY <1>2, <2>2
    <3>4. \A w \in Pending' : q \in Pending' /\ writes'[w].number >= writes'[q].number =>
                                Holds(q, writes'[w].state)
      BY <1>2, <3>1, <3>2, <3>3 DEF AckInv
    <3> QED
      BY <3>2, <3>4
  <2> QED
    BY <2>1, <2>2
<1>5. \A q \in Requests :
        /\ Holds(q, mem)' <=> Holds(q, mem')
        /\ Holds(q, row.state)' <=> Holds(q, row'.state)
        /\ \A w \in Writers : Holds(q, writes[w].state)' <=> Holds(q, writes'[w].state)
  BY <1>1, HoldsPrimed
<1>6. \A w \in Pending' : w \in Writers
  BY DEF Pending
<1> QED
  BY <1>1, <1>3, <1>4, <1>5, <1>6 DEF AckInv

LEMMA WorkLast ==
  ASSUME TypeOK, PoolInv, NumberInv, LastInv, NEW r \in Requests, NEW label,
         Works(r, label), mem' \in States, Export(r, mem') \/ Owned(r, label)
  PROVE  LastInv'
<1>1. /\ phase' = "up" /\ phase = "up" /\ row' = row /\ pool' = pool
      /\ pc \in [Requests -> PCs]
      /\ pc'[r] = label /\ \A q \in Requests \ {r} : pc'[q] = pc[q]
  BY DEF TypeOK, Works, Goto, process
<1>2. CASE ~ pool
  BY <1>1, <1>2 DEF LastInv
<1>3. CASE pool /\ Export(r, mem')
  <2>1. /\ exports' = exports + 1 /\ exports \in Nat
        /\ writes'[r] = [state |-> mem', number |-> exports + 1]
        /\ \A v \in Writers \ {r} : writes'[v] = writes[v]
        /\ Pending' = Pending \cup {r}
    BY <1>3, ExportFacts DEF Writers
  <2>2. row.number # exports'
    BY <2>1 DEF NumberInv, TypeOK
  <2>3. \A w \in Pending' : writes'[w].number = exports' => writes'[w].state = mem'
    BY <2>1 DEF NumberInv, Pending
  <2> QED
    BY <1>1, <2>2, <2>3 DEF LastInv, Current
<1>4. CASE pool /\ Owned(r, label)
  <2>1. UNCHANGED <<writes, exports>> /\ Pending' = Pending
    BY <1>4 DEF Owned, Pending
  <2>2. \A x \in Executions :
          pc'[x] \notin {"publish", "publishFailure", "raised"} =>
            /\ pc[x] \notin {"publish", "publishFailure", "raised"} \/ x = r
            /\ mem'.record[x] = mem.record[x]
            /\ \A s \in Stopped : mem'.review[<<x, s>>] = mem.review[<<x, s>>]
    BY <1>1, <1>4 DEF Owned, Requests
  <2>3. \A x \in Executions :
          pc'[x] \notin {"publish", "publishFailure", "raised"} =>
            pc[x] \notin {"publish", "publishFailure", "raised"}
    BY <1>1, <1>4, <2>2, SortsAssumption DEF Owned, Requests
  <2>4. row.number = exports => Current(row.state)'
    BY <1>1, <1>4, <2>2, <2>3 DEF Owned, Current, LastInv
  <2>5. \A w \in Pending : writes[w].number = exports => Current(writes[w].state)'
    BY <1>1, <1>4, <2>1, <2>2, <2>3 DEF Owned, Current, LastInv
  <2> QED
    BY <1>1, <2>1, <2>4, <2>5 DEF LastInv
<1> QED
  BY <1>2, <1>3, <1>4

\* Every action of a request keeps the invariant if it is of this form.
LEMMA WorkStep ==
  ASSUME IInv, NEW r \in Requests, NEW label, Works(r, label), mem' \in States,
         Consistent(mem)', Grows(r), Stage(r, label), Export(r, mem') \/ Owned(r, label)
  PROVE  IInv'
<1>1. label \in PCs
  BY DEF Stage
<1> QED
  BY <1>1, WorkTypes, WorkNumbers, WorkConsistent, WorkStage, WorkAck, WorkLast DEF IInv

\* The sorts of requests differ, and a registry has its three parts.
LEMMA Sorts ==
  /\ Creations \subseteq Requests /\ Executions \subseteq Requests
  /\ Decisions \subseteq Requests
  /\ \A c \in Creations : c \notin Executions /\ c \notin Decisions /\ c \in Entries
  /\ \A x \in Executions : x \notin Creations /\ x \notin Decisions
  /\ \A d \in Decisions : d \notin Creations /\ d \notin Executions
BY SortsAssumption DEF Requests, Entries

LEMMA CreateStep ==
  ASSUME IInv, NEW c \in Creations, Create(c)
  PROVE  IInv'
<1>1. /\ mem \in States /\ mem' = [mem EXCEPT !.entries = @ \cup {c}]
      /\ pc \in [Requests -> PCs] /\ pc[c] = "idle"
  BY DEF IInv, TypeOK, Create, Registered
<1>2. /\ mem' \in States
      /\ mem'.entries = mem.entries \cup {c}
      /\ mem'.record = mem.record /\ mem'.review = mem.review
  BY <1>1, Sorts DEF States
<1>3. Works(c, "save") /\ Export(c, mem')
  BY DEF Create, Works, history
<1>4. Consistent(mem)'
  BY <1>2 DEF Create, Known, Consistent, IInv, SnapshotsAreConsistent
<1>5. Grows(c)
  BY <1>2 DEF Grows, Holds
<1>6. Stage(c, "save")
  BY <1>2, <1>3, Sorts DEF Stage, Holds, PCs
<1> QED
  BY <1>2, <1>3, <1>4, <1>5, <1>6, Sorts, WorkStep

LEMMA StartTaskStep ==
  ASSUME IInv, NEW x \in Executions, StartTask(x)
  PROVE  IInv'
<1>1. /\ mem \in States /\ mem' = [mem EXCEPT !.record[x] = "running"]
      /\ pc[x] = "idle" /\ Fresh(x, mem) /\ Task[x] \in mem.entries
  BY Sorts DEF IInv, TypeOK, StartTask, StageInv
<1>2. /\ mem' \in States
      /\ mem'.entries = mem.entries /\ mem'.review = mem.review
      /\ mem'.record[x] = "running"
      /\ \A y \in Executions \ {x} : mem'.record[y] = mem.record[y]
  BY <1>1 DEF States, Statuses
<1>3. Works(x, "saveStart") /\ Export(x, mem')
  BY DEF StartTask, Works, history
<1>4. Consistent(mem)'
  BY <1>1, <1>2 DEF Fresh, Consistent, IInv, SnapshotsAreConsistent, Stopped
<1>5. Grows(x)
  BY <1>1, <1>2, Sorts DEF Grows, Holds, Fresh
<1>6. Stage(x, "saveStart")
  BY <1>1, <1>2, Sorts DEF Stage, PCs, Fresh
<1> QED
  BY <1>2, <1>3, <1>4, <1>5, <1>6, Sorts, WorkStep

\* An action that leaves the registry alone and exports it.
LEMMA SameRegistry ==
  ASSUME IInv, NEW r \in Requests, mem' = mem
  PROVE  mem' \in States /\ Consistent(mem)' /\ Grows(r)
BY DEF IInv, TypeOK, SnapshotsAreConsistent, Consistent, Grows

LEMMA RecordRunStep ==
  ASSUME IInv, NEW x \in Executions, RecordRun(x)
  PROVE  IInv'
<1>1. mem' = mem /\ pc[x] = "work" /\ Export(x, mem')
  BY DEF RecordRun
<1>2. mem.record[x] = "running" /\ \A s \in Stopped : mem.review[<<x, s>>] = "none"
  BY <1>1 DEF IInv, StageInv
<1>3. phase = "up"
  BY <1>1, Sorts DEF IInv, StageInv, InFlight, PCs
<1>4. Works(x, "saveRun")
  BY <1>1, <1>3 DEF RecordRun, Works, history
<1>5. Stage(x, "saveRun")
  BY <1>1, <1>2, Sorts DEF Stage, PCs
<1> QED
  BY <1>1, <1>4, <1>5, Sorts, SameRegistry, WorkStep

\* What a task's end does to the registry.
LEMMA EndedFacts ==
  ASSUME IInv, NEW x \in Executions, NEW status \in {"completed", "blocked", "failed"},
         mem' = Ended(x, status),
         \/ pc[x] \in {"work", "finish"}
         \/ pc[x] = "publish" /\ status = "failed"
  PROVE  /\ mem' \in States /\ Consistent(mem)' /\ Grows(x) /\ Holds(x, mem')
         /\ mem'.record[x] = status /\ mem'.entries = mem.entries
         /\ status # "failed" => mem'.review[<<x, "failed">>] = "none"
         /\ \A y \in Executions \ {x} :
              /\ mem'.record[y] = mem.record[y]
              /\ \A s \in Stopped : mem'.review[<<y, s>>] = mem.review[<<y, s>>]
<1>1. /\ mem \in States
      /\ mem' = [mem EXCEPT !.record[x] = status,
                            !.review = [v \in Reviews |-> IF v = <<x, status>> THEN "pending"
                                                          ELSE mem.review[v]]]
  BY DEF IInv, TypeOK, Ended
<1>2. /\ mem' \in States
      /\ mem'.entries = mem.entries
      /\ mem'.record[x] = status
      /\ \A y \in Executions \ {x} : mem'.record[y] = mem.record[y]
      /\ \A v \in Reviews : mem'.review[v] = IF v = <<x, status>> THEN "pending"
                                             ELSE mem.review[v]
  <2>1. /\ mem.entries \in SUBSET Entries
        /\ mem.record \in [Executions -> Statuses]
        /\ mem.review \in [Reviews -> {"none", "pending", "resolved"}]
    BY <1>1 DEF States
  <2>2. /\ mem'.entries = mem.entries
        /\ mem'.record = [mem.record EXCEPT ![x] = status]
        /\ mem'.review = [v \in Reviews |-> IF v = <<x, status>> THEN "pending"
                                             ELSE mem.review[v]]
    BY <1>1 DEF States
  <2>3. mem' = [entries |-> mem'.entries, record |-> mem'.record, review |-> mem'.review]
    BY <1>1 DEF States
  <2>4. status \in Statuses
    BY DEF Statuses, Stopped
  <2>5. mem'.record \in [Executions -> Statuses]
    BY <2>1, <2>2, <2>4
  <2>6. mem'.review \in [Reviews -> {"none", "pending", "resolved"}]
    BY <2>1, <2>2
  <2>7. mem' \in States
    BY <2>1, <2>2, <2>3, <2>5, <2>6 DEF States
  <2> QED
    BY <2>1, <2>2, <2>7
<1>3. \A y \in Executions, s \in Stopped :
        /\ <<y, s>> \in Reviews
        /\ <<y, s>> = <<x, status>> <=> y = x /\ s = status
  BY DEF Reviews
<1>4. \A y \in Executions, s \in Stopped :
        mem'.review[<<y, s>>] = IF y = x /\ s = status THEN "pending" ELSE mem.review[<<y, s>>]
  BY <1>2, <1>3
<1>5. /\ mem.review[<<x, "failed">>] = "none"
      /\ status # "failed" => mem.review[<<x, "blocked">>] = "none"
      /\ mem.record[x] # "absent"
  BY DEF IInv, StageInv, Stopped
<1>6. Consistent(mem)'
  <2>1. Consistent(mem)
    BY DEF IInv, SnapshotsAreConsistent
  <2>2. ASSUME NEW y \in Executions
        PROVE  /\ mem'.record[y] \in Stopped => mem'.review[<<y, mem'.record[y]>>] # "none"
               /\ \A s \in Stopped :
                    mem'.review[<<y, s>>] # "none" => mem'.record[y] \in {s, "failed"}
               /\ mem'.record[y] # "absent" => Task[y] \in mem'.entries
    <3>1. CASE y = x
      BY <1>2, <1>4, <1>5, <2>1, <3>1 DEF Consistent, Stopped
    <3>2. CASE y # x
      BY <1>2, <1>4, <2>1, <3>2 DEF Consistent
    <3> QED
      BY <3>1, <3>2
  <2> QED
    BY <1>2, <2>1, <2>2 DEF Consistent
<1>7. Holds(x, mem')
  BY <1>2, Sorts DEF Holds
<1>8. ASSUME NEW q \in Requests, Holds(q, mem)
      PROVE  Holds(q, mem')
  <2>1. CASE q \in Creations
    BY <1>2, <1>8, <2>1 DEF Holds
  <2>2. CASE q \in Executions
    BY <1>2, <1>7, <1>8, <2>2, Sorts DEF Holds
  <2>3. CASE q \in Decisions
    <3>1. target[q] \in Reviews /\ mem.review[target[q]] = "resolved"
      BY <1>8, <2>3, Sorts DEF Holds, IInv, TypeOK
    <3>2. target[q] # <<x, status>>
      BY <1>5, <3>1, SMT DEF IInv, StageInv, Stopped, Reviews
    <3> QED
      BY <1>2, <2>3, <3>1, <3>2, Sorts DEF Holds
  <2> QED
    BY <2>1, <2>2, <2>3 DEF Requests
<1>9. Grows(x)
  BY <1>2, <1>4, <1>8 DEF Grows
<1> QED
  BY <1>2, <1>4, <1>5, <1>6, <1>7, <1>9 DEF Stopped

LEMMA FinishTaskStep ==
  ASSUME IInv, NEW x \in Executions, NEW status \in {"completed", "blocked"},
         FinishTask(x, status)
  PROVE  IInv'
<1>1. pc[x] = "finish" /\ mem' = Ended(x, status) /\ phase = "up"
  BY Sorts DEF FinishTask, IInv, StageInv, InFlight, PCs
<1>2. /\ mem' \in States /\ Consistent(mem)' /\ Grows(x) /\ Holds(x, mem')
      /\ mem'.record[x] = status /\ mem'.entries = mem.entries
      /\ mem'.review[<<x, "failed">>] = "none"
      /\ \A y \in Executions \ {x} :
           /\ mem'.record[y] = mem.record[y]
           /\ \A s \in Stopped : mem'.review[<<y, s>>] = mem.review[<<y, s>>]
  BY <1>1, EndedFacts
<1>3. CASE status = "blocked"
  <2>1. Works(x, "publish") /\ Owned(x, "publish")
    BY <1>1, <1>2, <1>3 DEF FinishTask, Works, Owned, Stopped, history
  <2>2. Stage(x, "publish")
    BY <1>2, <1>3, Sorts DEF Stage, PCs, Saving
  <2> QED
    BY <1>2, <2>1, <2>2, Sorts, WorkStep
<1>4. CASE status = "completed"
  <2>1. Works(x, "save") /\ Export(x, mem')
    BY <1>1, <1>2, <1>4 DEF FinishTask, Works, Stopped, history
  <2>2. Stage(x, "save")
    BY <1>2, <1>4, <2>1, Sorts DEF Stage, PCs, Saving
  <2> QED
    BY <1>2, <2>1, <2>2, Sorts, WorkStep
<1> QED
  BY <1>3, <1>4

LEMMA FailTaskStep ==
  ASSUME IInv, NEW x \in Executions, FailTask(x)
  PROVE  IInv'
<1>1. pc[x] \in {"work", "publish"} /\ mem' = Ended(x, "failed") /\ phase = "up"
  BY Sorts DEF FailTask, IInv, StageInv, InFlight, PCs
<1>2. /\ mem' \in States /\ Consistent(mem)' /\ Grows(x) /\ mem'.entries = mem.entries
      /\ \A y \in Executions \ {x} :
           /\ mem'.record[y] = mem.record[y]
           /\ \A s \in Stopped : mem'.review[<<y, s>>] = mem.review[<<y, s>>]
  BY <1>1, EndedFacts
<1>3. Works(x, "publishFailure") /\ Owned(x, "publishFailure")
  BY <1>1, <1>2 DEF FailTask, Works, Owned, history
<1>4. Stage(x, "publishFailure")
  BY Sorts DEF Stage, PCs, Saving
<1> QED
  BY <1>2, <1>3, <1>4, Sorts, WorkStep

LEMMA PublishedStep ==
  ASSUME IInv, NEW x \in Executions, Published(x)
  PROVE  IInv'
<1>1. mem' = mem /\ phase = "up" /\ Export(x, mem')
  BY Sorts DEF Published, IInv, StageInv, InFlight, PCs
<1>2. CASE pc[x] = "publish"
  <2>1. Works(x, "save")
    BY <1>1, <1>2 DEF Published, Works, history
  <2>2. Holds(x, mem')
    BY <1>1, <1>2, Sorts DEF Holds, IInv, StageInv
  <2>3. Stage(x, "save")
    BY <1>1, <2>2, Sorts DEF Stage, PCs, Saving
  <2> QED
    BY <1>1, <2>1, <2>3, Sorts, SameRegistry, WorkStep
<1>3. CASE pc[x] = "publishFailure"
  <2>1. Works(x, "saveFailure")
    BY <1>1, <1>3 DEF Published, Works, history
  <2>2. Stage(x, "saveFailure")
    BY Sorts DEF Stage, PCs, Saving
  <2> QED
    BY <1>1, <2>1, <2>2, Sorts, SameRegistry, WorkStep
<1> QED
  BY <1>2, <1>3 DEF Published

LEMMA FailureUnpublishedStep ==
  ASSUME IInv, NEW x \in Executions, FailureUnpublished(x)
  PROVE  IInv'
<1>1. mem' = mem /\ phase = "up"
  BY Sorts DEF FailureUnpublished, IInv, StageInv, InFlight, PCs
<1>2. Works(x, "raised") /\ Owned(x, "raised")
  BY <1>1 DEF FailureUnpublished, Works, Owned
<1>3. Stage(x, "raised")
  BY Sorts DEF Stage, PCs, Saving
<1> QED
  BY <1>1, <1>2, <1>3, Sorts, SameRegistry, WorkStep

LEMMA DecideStep ==
  ASSUME IInv, NEW d \in Decisions, Decide(d)
  PROVE  IInv'
<1>1. /\ mem \in States /\ target[d] \in Reviews /\ mem.review[target[d]] # "none"
      /\ mem' = [mem EXCEPT !.review[target[d]] = "resolved"]
  BY DEF IInv, TypeOK, Decide
<1>2. /\ mem' \in States
      /\ mem'.entries = mem.entries /\ mem'.record = mem.record
      /\ mem'.review[target[d]] = "resolved"
      /\ \A v \in Reviews \ {target[d]} : mem'.review[v] = mem.review[v]
  BY <1>1 DEF States
<1>3. Works(d, "save") /\ Export(d, mem')
  BY DEF Decide, Works, history
<1>4. \A x \in Executions, s \in Stopped :
        mem'.review[<<x, s>>] = "none" <=> mem.review[<<x, s>>] = "none"
  BY <1>1, <1>2 DEF Reviews
<1>5. Consistent(mem)'
  <2>1. Consistent(mem)
    BY DEF IInv, SnapshotsAreConsistent
  <2> QED
    BY <1>2, <1>4, <2>1 DEF Consistent
<1>6. \A q \in Requests : Holds(q, mem) => Holds(q, mem')
  <2>1. \A q \in Decisions : target[q] \in Reviews
    BY DEF IInv, TypeOK
  <2> QED
    BY <1>2, <2>1, Sorts DEF Holds, Requests
<1>7. Grows(d)
  BY <1>2, <1>4, <1>6 DEF Grows
<1>8. Stage(d, "save")
  BY <1>2, <1>3, Sorts DEF Stage, PCs, Holds
<1> QED
  BY <1>2, <1>3, <1>5, <1>7, <1>8, Sorts, WorkStep

LEMMA DecisionPublishedStep ==
  ASSUME IInv, NEW d \in Decisions, DecisionPublished(d)
  PROVE  IInv'
<1>1. PICK label \in {"answered", "raised"} : Goto(d, label)
  BY DEF DecisionPublished
<1>2. mem' = mem /\ phase = "up" /\ pc[d] = "publishDecision"
  BY Sorts DEF DecisionPublished, IInv, StageInv, InFlight, PCs
<1>3. Works(d, label) /\ Owned(d, label)
  BY <1>1, <1>2 DEF DecisionPublished, Works, Owned, history
<1>4. Stage(d, label)
  BY <1>2, Sorts DEF Stage, PCs, Saving
<1> QED
  BY <1>2, <1>3, <1>4, Sorts, SameRegistry, WorkStep

\* The end of a save in general: the write of a writer lands, or is lost.
Lands(w) ==
  /\ w \in Pending
  /\ row' = writes[w]
  /\ newest' = IF newest < writes[w].number THEN writes[w].number ELSE newest
  /\ unsaved' = unsaved

IsLost(w) ==
  /\ UNCHANGED <<row, newest>>
  /\ unsaved' = unsaved \cup ({w} \cap Requests)

Ends(w) ==
  /\ Lands(w) \/ IsLost(w)
  /\ writes' = [writes EXCEPT ![w] = NoWrite]
  /\ Resume(w)
  /\ phase # "down"
  /\ UNCHANGED <<mem, exports, target, pool, crashes, overtaken>>

LEMMA SaveEnds ==
  ASSUME IInv, NEW w \in Writers, Save(w)
  PROVE  Ends(w)
<1>1. w # Boot => w \in Requests
  BY DEF Writers
<1>2. CASE Land(w)
  BY <1>2 DEF Land, Ends, Lands, IInv, PoolInv
<1>3. CASE SaveFails(w)
  BY <1>3 DEF SaveFails, Ends, IsLost, IInv, PoolInv
<1>4. CASE NotSaved(w)
  <2>1. phase # "down"
    BY <1>1, <1>4 DEF NotSaved, IInv, StageInv, InFlight, Saving, PCs
  <2>2. writes[w] = NoWrite
    BY <1>4 DEF NotSaved, IInv, PoolInv, Pending
  <2>3. writes' = [writes EXCEPT ![w] = NoWrite]
    BY <1>4, <2>2 DEF NotSaved, IInv, TypeOK
  <2> QED
    BY <1>4, <2>1, <2>3 DEF NotSaved, Ends, IsLost
<1> QED
  BY <1>2, <1>3, <1>4 DEF Save

LEMMA EndsFacts ==
  ASSUME IInv, NEW w \in Writers, Ends(w)
  PROVE  /\ phase # "down" /\ phase' = "up"
         /\ Pending' = Pending \ {w}
         /\ \A v \in Pending' : v \in Pending /\ writes'[v] = writes[v]
         /\ writes' \in [Writers -> [state : States, number : 0..exports]]
         /\ pc' \in [Requests -> PCs]
         /\ \A q \in Requests \ {w} : pc'[q] = pc[q]
         /\ w \in Requests => /\ pc[w] \in Saving /\ pc'[w] = AfterSave(w)
                              /\ w \in Decisions => pc[w] = "save"
         /\ row' \in [state : States, number : 0..exports]
         /\ newest' \in 0..exports /\ row'.number <= newest'
         /\ newest <= newest' /\ unsaved \subseteq unsaved'
<1>1. /\ writes \in [Writers -> [state : States, number : 0..exports]]
      /\ row \in [state : States, number : 0..exports]
      /\ pc \in [Requests -> PCs] /\ exports \in Nat /\ newest \in 0..exports
      /\ NoWrite \in [state : States, number : 0..exports]
  <2>1. exports \in Nat
    BY DEF IInv, TypeOK
  <2>2. 0 \in 0..exports
    BY <2>1
  <2>3. NoWrite \in [state : States, number : 0..exports]
    BY <2>2, SeededFacts DEF NoWrite
  <2> QED
    BY <2>3 DEF IInv, TypeOK
<1>2. /\ writes' = [writes EXCEPT ![w] = NoWrite]
      /\ phase # "down" /\ Resume(w)
  BY DEF Ends
<1>3. w \in Requests \/ w = Boot
  BY DEF Writers
<1>4. Boot \notin Requests
  BY SortsAssumption
<1>5. w \in Decisions => w \in Requests
  BY Sorts
<1>6. w \in Requests => pc[w] \in Saving /\ pc' = [pc EXCEPT ![w] = AfterSave(w)] /\ phase' = phase
  BY <1>2, <1>4 DEF Resume, Goto
<1>7. w = Boot => phase' = "up" /\ pc' = pc
  BY <1>2 DEF Resume
<1>8. w \in Requests => phase = "up"
  BY <1>6 DEF IInv, StageInv, InFlight, Saving, PCs
<1>9. w \in Requests => AfterSave(w) \in PCs
  BY <1>6 DEF AfterSave, Saving, PCs
<1>10. w \in Decisions => pc[w] = "save"
  BY <1>5, <1>6 DEF IInv, StageInv
<1>11. pc' \in [Requests -> PCs]
  BY <1>1, <1>3, <1>6, <1>7, <1>9
<1>12. /\ Pending' = Pending \ {w}
       /\ \A v \in Pending' : v \in Pending /\ writes'[v] = writes[v]
       /\ writes' \in [Writers -> [state : States, number : 0..exports]]
  BY <1>1, <1>2 DEF Pending
<1>13. /\ row' \in [state : States, number : 0..exports]
       /\ newest' \in 0..exports /\ row'.number <= newest'
       /\ newest <= newest' /\ unsaved \subseteq unsaved'
  <2>1. CASE Lands(w)
    <3>1. writes[w] \in [state : States, number : 0..exports]
      BY <1>1
    <3> QED
      BY <1>1, <2>1, <3>1 DEF Lands
  <2>2. CASE IsLost(w)
    BY <1>1, <2>2 DEF IsLost, IInv, NumberInv
  <2> QED
    BY <2>1, <2>2 DEF Ends
<1> QED
  BY <1>2, <1>3, <1>4, <1>6, <1>7, <1>8, <1>10, <1>11, <1>12, <1>13, <1>1

LEMMA SaveStep ==
  ASSUME IInv, NEW w \in Writers, Save(w)
  PROVE  IInv'
<1>1. Ends(w) /\ UNCHANGED <<mem, exports, target, pool, crashes, overtaken>>
  BY SaveEnds DEF Ends
<1>2. /\ phase # "down" /\ phase' = "up"
      /\ Pending' = Pending \ {w}
      /\ \A v \in Pending' : v \in Pending /\ writes'[v] = writes[v]
      /\ writes' \in [Writers -> [state : States, number : 0..exports]]
      /\ pc' \in [Requests -> PCs]
      /\ \A q \in Requests \ {w} : pc'[q] = pc[q]
      /\ w \in Requests => /\ pc[w] \in Saving /\ pc'[w] = AfterSave(w)
                           /\ w \in Decisions => pc[w] = "save"
      /\ row' \in [state : States, number : 0..exports]
      /\ newest' \in 0..exports /\ row'.number <= newest'
      /\ newest <= newest' /\ unsaved \subseteq unsaved'
  BY <1>1, EndsFacts
<1>3. /\ exports \in Nat /\ newest \in 0..exports
      /\ \A v \in Writers : writes[v].number \in 0..exports
      /\ row.number \in 0..exports
  BY DEF IInv, TypeOK
<1>4. /\ writes'[w] = NoWrite
      /\ \A v \in Writers : writes'[v] = writes[v] \/ writes'[v] = NoWrite
  BY <1>1 DEF Ends, IInv, TypeOK
<1>5. \/ Lands(w) /\ row' = writes[w] /\ w \in Pending
      \/ IsLost(w) /\ row' = row /\ newest' = newest
  BY <1>1 DEF Ends, Lands, IsLost
<1>6. TypeOK'
  <2>1. unsaved' \subseteq Requests
    BY <1>1 DEF Ends, Lands, IsLost, IInv, TypeOK
  <2> QED
    BY <1>1, <1>2, <2>1 DEF IInv, TypeOK
<1>7. NumberInv' /\ PoolInv'
  <2>1. \A v \in Pending' : writes'[v].number \in 1..exports /\ writes'[v].number # newest'
    <3>1. \A v \in Pending' : /\ writes[v].number \in 1..exports
                              /\ writes[v].number # newest
                              /\ w \in Pending => writes[v].number # writes[w].number
      BY <1>2 DEF IInv, NumberInv
    <3> QED
      BY <1>2, <1>5, <3>1 DEF Lands
  <2>2. \A u, v \in Pending' : u # v => writes'[u].number # writes'[v].number
    BY <1>2 DEF IInv, NumberInv
  <2>3. PoolInv'
    BY <1>1, <1>2 DEF IInv, PoolInv
  <2> QED
    BY <1>1, <1>2, <2>1, <2>2, <2>3 DEF NumberInv
<1>8. SnapshotsAreConsistent'
  <2>1. Consistent(mem)'
    BY <1>1 DEF IInv, SnapshotsAreConsistent, Consistent
  <2>2. Consistent(row.state)'
    <3>1. row' = row \/ row' = writes[w]
      BY <1>5
    <3> QED
      BY <3>1 DEF IInv, SnapshotsAreConsistent, Consistent
  <2>3. ASSUME NEW v \in Writers
        PROVE  Consistent(writes[v].state)'
    <3>1. writes'[v].state = writes[v].state \/ writes'[v].state = Seeded
      BY <1>4, SeededFacts
    <3> QED
      BY <3>1, SeededFacts DEF IInv, SnapshotsAreConsistent, Consistent
  <2> QED
    BY <2>1, <2>2, <2>3 DEF SnapshotsAreConsistent
<1>9. StageInv'
  <2>1. ASSUME NEW x \in Executions
        PROVE  /\ pc'[x] = "idle" => /\ Fresh(x, mem') /\ Fresh(x, row'.state)
                                     /\ \A v \in Writers : Fresh(x, writes'[v].state)
               /\ pc'[x] \in {"saveStart", "work", "saveRun", "finish"} =>
                    /\ mem'.record[x] = "running"
                    /\ \A s \in Stopped : mem'.review[<<x, s>>] = "none"
               /\ pc'[x] = "publish" =>
                    mem'.record[x] = "blocked" /\ mem'.review[<<x, "failed">>] = "none"
    <3>1. CASE x = w
      BY <1>1, <1>2, <3>1, Sorts DEF AfterSave, Saving, IInv, StageInv
    <3>2. CASE x # w
      <4>1. pc'[x] = pc[x]
        BY <1>2, <3>2, Sorts
      <4>2. row' = row \/ row' = writes[w]
        BY <1>5
      <4>3. \A v \in Writers : writes'[v].state = writes[v].state \/ writes'[v].state = Seeded
        BY <1>4, SeededFacts
      <4> QED
        BY <1>1, <4>1, <4>2, <4>3, SeededFacts DEF IInv, StageInv
    <3> QED
      BY <3>1, <3>2
  <2>2. \A d \in Decisions : pc'[d] \in Saving => pc'[d] = "save"
    BY <1>2, Sorts DEF AfterSave, Saving, IInv, StageInv
  <2> QED
    BY <1>2, <2>1, <2>2 DEF StageInv, Fresh
<1>10. AckInv'
  <2>1. \A q \in Requests :
          /\ Holds(q, mem)' <=> Holds(q, mem)
          /\ Holds(q, row.state)' <=> Holds(q, row'.state)
          /\ \A v \in Writers : Holds(q, writes[v].state)' <=> Holds(q, writes'[v].state)
    BY <1>1 DEF Holds
  <2>2. ASSUME NEW q \in Requests, Settled(q)'
        PROVE  /\ Holds(q, mem)
               /\ row'.number = newest' => Holds(q, row'.state)
               /\ \A v \in Pending' : writes'[v].number > newest' => Holds(q, writes'[v].state)
    <3>1. CASE Settled(q)
      <4>1. /\ Holds(q, mem)
            /\ row.number = newest => Holds(q, row.state)
            /\ \A v \in Pending : writes[v].number > newest => Holds(q, writes[v].state)
        BY <1>2, <3>1 DEF IInv, AckInv
      <4>2. \A v \in Pending' : writes'[v].number > newest' => Holds(q, writes'[v].state)
        BY <1>2, <1>3, <4>1 DEF Pending
      <4>3. row'.number = newest' => Holds(q, row'.state)
        BY <1>3, <1>5, <4>1 DEF Lands, IInv, NumberInv
      <4> QED
        BY <4>1, <4>2, <4>3
    <3>2. CASE ~ Settled(q)
      <4>1. q = w /\ pc[q] = "save"
        BY <1>1, <1>2, <2>2, <3>2, Sorts DEF Settled, AfterSave, Saving
      <4>2. ~ IsLost(w)
        BY <1>1, <2>2, <4>1 DEF Settled, IsLost
      <4>3. Lands(w) /\ row' = writes[w] /\ w \in Pending
        BY <1>5, <4>2
      <4>4. /\ Holds(q, mem)
            /\ \A v \in Pending : writes[v].number >= writes[w].number =>
                                    Holds(q, writes[v].state)
        BY <4>1, <4>3 DEF IInv, AckInv
      <4>5. Holds(q, row'.state)
        BY <1>3, <4>3, <4>4 DEF Pending
      <4>6. newest' >= writes[w].number
        BY <1>3, <4>3 DEF Lands, Pending
      <4>7. \A v \in Pending' : writes'[v].number > newest' => Holds(q, writes'[v].state)
        BY <1>2, <1>3, <4>4, <4>6 DEF Pending
      <4> QED
        BY <4>4, <4>5, <4>7
    <3> QED
      BY <3>1, <3>2
  <2>3. ASSUME NEW q \in Requests, pc'[q] = "save"
        PROVE  /\ Holds(q, mem)
               /\ q \in Pending' => \A v \in Pending' : writes'[v].number >= writes'[q].number =>
                                      Holds(q, writes'[v].state)
    <3>1. q # w /\ pc[q] = "save"
      BY <1>2, <2>3 DEF AfterSave, Saving
    <3> QED
      BY <1>2, <3>1 DEF IInv, AckInv
  <2>4. \A v \in Pending' : v \in Writers
    BY DEF Pending
  <2> QED
    BY <1>2, <2>1, <2>2, <2>3, <2>4 DEF AckInv
<1>11. LastInv'
  <2>1. \A x \in Executions :
          pc'[x] \in {"publish", "publishFailure", "raised"} <=>
          pc[x] \in {"publish", "publishFailure", "raised"}
    BY <1>2, Sorts DEF AfterSave, Saving
  <2>2. pool' /\ row'.number = exports => Current(row.state)'
    <3>1. CASE row' = row
      BY <1>1, <1>2, <2>1, <3>1 DEF Current, IInv, LastInv
    <3>2. CASE row' = writes[w] /\ w \in Pending
      BY <1>1, <1>2, <2>1, <3>2 DEF Current, IInv, LastInv
    <3> QED
      BY <1>5, <3>1, <3>2
  <2>3. ASSUME NEW v \in Pending', pool', writes'[v].number = exports
        PROVE  Current(writes[v].state)'
    BY <1>1, <1>2, <2>1, <2>3 DEF Current, IInv, LastInv
  <2> QED
    BY <1>1, <2>2, <2>3 DEF LastInv
<1> QED
  BY <1>6, <1>7, <1>8, <1>9, <1>10, <1>11 DEF IInv

\* What a start loads.
LEMMA LoadedFacts ==
  ASSUME IInv, phase = "down", NEW hasPool \in BOOLEAN, NEW loads \in BOOLEAN
  PROVE  /\ Loaded(hasPool, loads) \in States
         /\ Consistent(Loaded(hasPool, loads))
         /\ \A x \in Executions : pc[x] = "idle" => Fresh(x, Loaded(hasPool, loads))
         /\ hasPool /\ loads => \A q \in Requests : Settled(q) => Holds(q, Loaded(hasPool, loads))
<1>1. row.state \in States /\ Consistent(row.state)
  BY DEF IInv, TypeOK, SnapshotsAreConsistent
<1>2. \A x \in Executions : pc[x] = "idle" => Fresh(x, row.state)
  BY DEF IInv, StageInv
<1>3. \A q \in Requests : Settled(q) => Holds(q, row.state)
  BY DEF IInv, AckInv
<1>4. /\ Hydrated(row.state).entries = Seeds \cup row.state.entries
      /\ Hydrated(row.state).record = row.state.record
      /\ Hydrated(row.state).review = row.state.review
      /\ Hydrated(row.state) \in States
  BY <1>1 DEF Hydrated, States, Entries
<1>5. Consistent(Hydrated(row.state))
  BY <1>1, <1>4, NeedsAssumption DEF Consistent
<1>6. \A q \in Requests : Settled(q) => Holds(q, Hydrated(row.state))
  BY <1>3, <1>4 DEF Holds
<1>7. CASE hasPool /\ loads /\ row # NoWrite
  <2>1. Loaded(hasPool, loads) = Hydrated(row.state)
    BY <1>7 DEF Loaded
  <2> QED
    BY <1>2, <1>4, <1>5, <1>6, <2>1 DEF Fresh
<1>8. CASE ~ (hasPool /\ loads /\ row # NoWrite)
  <2>1. Loaded(hasPool, loads) = Seeded
    BY <1>8 DEF Loaded
  <2>2. hasPool /\ loads => row.state = Seeded
    BY <1>8, SeededFacts
  <2> QED
    BY <1>3, <2>1, <2>2, SeededFacts
<1> QED
  BY <1>7, <1>8

LEMMA StartStep ==
  ASSUME IInv, NEW hasPool \in BOOLEAN, NEW loads \in BOOLEAN, Start(hasPool, loads)
  PROVE  IInv'
<1>1. /\ phase = "down" /\ phase' = "starting" /\ pool' = hasPool
      /\ mem' = Loaded(hasPool, loads)
      /\ unsaved' = IF hasPool /\ loads THEN unsaved ELSE unsaved \cup Finished
      /\ row' = row /\ pc' = pc /\ target' = target /\ crashes' = crashes
      /\ newest' = newest /\ overtaken' = overtaken
      /\ Pending = {} /\ Boot \in Writers
  BY DEF Start, IInv, PoolInv, Writers
<1>2. /\ mem' \in States /\ Consistent(mem')
      /\ \A x \in Executions : pc[x] = "idle" => Fresh(x, mem')
      /\ hasPool /\ loads => \A q \in Requests : Settled(q) => Holds(q, mem')
  BY <1>1, LoadedFacts
<1>3. /\ exports \in Nat /\ newest \in 0..exports /\ row.number \in 0..exports
      /\ row \in [state : States, number : 0..exports]
      /\ writes \in [Writers -> [state : States, number : 0..exports]]
      /\ pc \in [Requests -> PCs]
  BY DEF IInv, TypeOK
<1>4. \A q \in Requests : pc[q] \notin InFlight
  BY <1>1 DEF IInv, StageInv
<1>5. \/ /\ hasPool /\ exports' = exports + 1
         /\ writes' = [writes EXCEPT ![Boot] = [state |-> mem', number |-> exports + 1]]
      \/ ~ hasPool /\ UNCHANGED <<exports, writes>>
  BY <1>1 DEF Start
<1>6. \/ /\ hasPool /\ exports' = exports + 1 /\ Pending' = {Boot}
         /\ writes'[Boot] = [state |-> mem', number |-> exports']
         /\ \A w \in Writers \ {Boot} : writes'[w] = writes[w]
      \/ ~ hasPool /\ UNCHANGED <<exports, writes>> /\ Pending' = {}
  <2>1. CASE /\ hasPool /\ exports' = exports + 1
             /\ writes' = [writes EXCEPT ![Boot] = [state |-> mem', number |-> exports + 1]]
    <3>1. /\ writes'[Boot] = [state |-> mem', number |-> exports']
          /\ \A w \in Writers \ {Boot} : writes'[w] = writes[w]
      BY <1>1, <1>3, <2>1
    <3>2. writes'[Boot].number = exports + 1 /\ exports + 1 # 0
      BY <1>3, <2>1, <3>1
    <3>3. writes'[Boot] # NoWrite
      BY <3>2, SeededFacts
    <3> QED
      BY <1>1, <2>1, <3>1, <3>3 DEF Pending
  <2>2. CASE ~ hasPool /\ UNCHANGED <<exports, writes>>
    BY <1>1, <2>2 DEF Pending
  <2> QED
    BY <1>5, <2>1, <2>2
<1>7. TypeOK'
  <2>1. exports' \in Nat /\ 0..exports \subseteq 0..exports'
    BY <1>3, <1>6
  <2>2. writes' \in [Writers -> [state : States, number : 0..exports']]
    <3>1. CASE UNCHANGED <<exports, writes>>
      BY <1>3, <3>1
    <3>2. CASE /\ exports' = exports + 1
               /\ writes' = [writes EXCEPT ![Boot] = [state |-> mem', number |-> exports + 1]]
      <4>1. [state |-> mem', number |-> exports + 1] \in [state : States, number : 0..exports']
        BY <1>2, <1>3, <3>2
      <4>2. writes \in [Writers -> [state : States, number : 0..exports']]
        BY <1>3, <2>1
      <4> QED
        BY <3>2, <4>1, <4>2
    <3> QED
      BY <1>5, <3>1, <3>2
  <2>3. row' \in [state : States, number : 0..exports'] /\ newest' \in 0..exports'
    BY <1>1, <1>3, <2>1
  <2>4. unsaved' \subseteq Requests
    BY <1>1 DEF Finished, IInv, TypeOK
  <2> QED
    BY <1>1, <1>2, <2>1, <2>2, <2>3, <2>4 DEF IInv, TypeOK
<1>8. NumberInv' /\ PoolInv'
  BY <1>1, <1>3, <1>6 DEF IInv, NumberInv, PoolInv
<1>9. SnapshotsAreConsistent'
  <2>1. Consistent(mem)' /\ Consistent(row.state)'
    BY <1>1, <1>2 DEF Consistent, IInv, SnapshotsAreConsistent
  <2>2. ASSUME NEW w \in Writers
        PROVE  Consistent(writes[w].state)'
    <3>1. writes'[w].state = writes[w].state \/ writes'[w].state = mem'
      BY <1>6
    <3> QED
      BY <1>2, <3>1 DEF Consistent, IInv, SnapshotsAreConsistent
  <2> QED
    BY <2>1, <2>2 DEF SnapshotsAreConsistent
<1>10. StageInv'
  <2>1. \A q \in Requests : pc'[q] \notin InFlight
    BY <1>1, <1>4
  <2>2. \A w \in Writers : writes'[w].state = writes[w].state \/ writes'[w].state = mem'
    BY <1>6
  <2>3. ASSUME NEW x \in Executions, pc'[x] = "idle"
        PROVE  /\ Fresh(x, mem') /\ Fresh(x, row'.state)
               /\ \A w \in Writers : Fresh(x, writes'[w].state)
    BY <1>1, <1>2, <2>2, <2>3 DEF IInv, StageInv
  <2> QED
    BY <2>1, <2>3, Sorts DEF StageInv, InFlight, PCs, Saving, Fresh
<1>11. AckInv'
  <2>1. \A q \in Requests :
          /\ Holds(q, mem)' <=> Holds(q, mem')
          /\ Holds(q, row.state)' <=> Holds(q, row'.state)
          /\ \A w \in Writers : Holds(q, writes[w].state)' <=> Holds(q, writes'[w].state)
    BY <1>1, HoldsPrimed
  <2>2. ASSUME NEW q \in Requests, Settled(q)'
        PROVE  /\ Holds(q, mem')
               /\ row'.number = newest' => Holds(q, row'.state)
               /\ \A w \in Pending' : Holds(q, writes'[w].state)
    <3>1. Settled(q)
      BY <1>1, <2>2 DEF Settled
    <3>2. pc[q] = "answered"
      BY <1>4, <3>1 DEF Settled, InFlight, PCs
    <3>3. hasPool /\ loads
      BY <1>1, <2>2, <3>2 DEF Settled, Finished
    <3>4. Holds(q, mem')
      BY <1>2, <3>1, <3>3
    <3>5. row.number = newest => Holds(q, row.state)
      BY <3>1 DEF IInv, AckInv
    <3>6. \A w \in Pending' : writes'[w].state = mem'
      BY <1>6
    <3> QED
      BY <1>1, <3>4, <3>5, <3>6
  <2>3. \A q \in Requests : pc'[q] # "save"
    BY <1>1, <1>4 DEF InFlight, PCs
  <2>4. \A w \in Pending' : w \in Writers
    BY DEF Pending
  <2> QED
    BY <1>1, <2>1, <2>2, <2>3, <2>4 DEF AckInv
<1>12. LastInv'
  <2>1. CASE ~ hasPool
    BY <1>1, <2>1 DEF LastInv
  <2>2. CASE hasPool
    <3>1. row.number # exports'
      BY <1>3, <1>6, <2>2
    <3>2. \A w \in Pending' : writes'[w].state = mem'
      BY <1>6
    <3> QED
      BY <1>1, <3>1, <3>2 DEF LastInv, Current
  <2> QED
    BY <2>1, <2>2
<1> QED
  BY <1>7, <1>8, <1>9, <1>10, <1>11, <1>12 DEF IInv

LEMMA CrashStep ==
  ASSUME IInv, Crash
  PROVE  IInv'
<1>1. /\ phase' = "down" /\ mem' = Seeded /\ crashes < MaxCrashes /\ crashes' = crashes + 1
      /\ writes' = [w \in Writers |-> NoWrite] /\ Pending' = {}
      /\ pc' = [r \in Requests |-> IF pc[r] \in {"idle"} \/ r \in Finished
                                   THEN pc[r] ELSE "gone"]
      /\ overtaken' = IF row.number < newest THEN overtaken \cup Finished ELSE overtaken
      /\ UNCHANGED <<row, exports, target, pool, newest, unsaved>>
  BY DEF Crash, Pending
<1>2. \A r \in Requests : pc'[r] = pc[r] \/ pc'[r] = "gone"
  BY <1>1
<1>3. \A r \in Requests : pc'[r] \in {"idle", "answered", "failed", "raised", "gone"}
  BY <1>1 DEF Finished
<1>4. TypeOK'
  <2>1. exports \in Nat /\ crashes \in 0..MaxCrashes
    BY DEF IInv, TypeOK
  <2>2. 0 \in 0..exports /\ crashes' \in 0..MaxCrashes
    BY <1>1, <2>1, MaxCrashesAssumption
  <2>3. NoWrite \in [state : States, number : 0..exports]
    BY <2>2, SeededFacts DEF NoWrite
  <2>4. writes' \in [Writers -> [state : States, number : 0..exports']]
    BY <1>1, <2>3
  <2>5. pc' \in [Requests -> PCs]
    BY <1>1 DEF IInv, TypeOK, PCs
  <2>6. overtaken' \subseteq Requests
    BY <1>1 DEF Finished, IInv, TypeOK
  <2> QED
    BY <1>1, <2>2, <2>4, <2>5, <2>6, SeededFacts DEF IInv, TypeOK
<1>5. NumberInv' /\ PoolInv' /\ LastInv'
  BY <1>1 DEF IInv, NumberInv, PoolInv, LastInv
<1>6. SnapshotsAreConsistent'
  BY <1>1, SeededFacts DEF IInv, SnapshotsAreConsistent, Consistent
<1>7. StageInv'
  <2>1. \A x \in Executions : pc'[x] = "idle" =>
          /\ Fresh(x, mem') /\ Fresh(x, row'.state)
          /\ \A w \in Writers : Fresh(x, writes'[w].state)
    BY <1>1, <1>2, SeededFacts, Sorts DEF IInv, StageInv
  <2> QED
    BY <1>3, <2>1, Sorts DEF StageInv, InFlight, Saving, Fresh
<1>8. AckInv'
  <2>1. ASSUME NEW q \in Requests, Settled(q)'
        PROVE  row'.number = newest' /\ Holds(q, row'.state)
    <3>1. pc'[q] = "answered" /\ pc[q] = "answered"
      BY <1>2, <1>3, <2>1 DEF Settled
    <3>2. Settled(q) /\ q \in Finished
      BY <1>1, <2>1, <3>1 DEF Settled, Finished
    <3>3. ~ (row.number < newest)
      BY <1>1, <2>1, <3>2 DEF Settled
    <3>4. row.number = newest
      BY <3>3 DEF IInv, NumberInv, TypeOK
    <3> QED
      BY <1>1, <3>2, <3>4 DEF IInv, AckInv
  <2>2. \A q \in Requests : Holds(q, row.state)' <=> Holds(q, row'.state)
    BY <1>1, HoldsPrimed
  <2>3. \A q \in Requests : pc'[q] # "save"
    BY <1>3
  <2> QED
    BY <1>1, <2>1, <2>2, <2>3 DEF AckInv
<1> QED
  BY <1>4, <1>5, <1>6, <1>7, <1>8 DEF IInv

LEMMA StutterStep ==
  ASSUME IInv, UNCHANGED vars
  PROVE  IInv'
<1>1. /\ mem' = mem /\ row' = row /\ writes' = writes /\ exports' = exports /\ pc' = pc
      /\ target' = target /\ phase' = phase /\ pool' = pool /\ crashes' = crashes
      /\ newest' = newest /\ unsaved' = unsaved /\ overtaken' = overtaken
      /\ Pending' = Pending
  BY DEF vars, process, history, Pending
<1> QED
  BY <1>1 DEF IInv, TypeOK, NumberInv, PoolInv, SnapshotsAreConsistent, Consistent,
              StageInv, Fresh, AckInv, Settled, Holds, LastInv, Current

LEMMA NextIInv ==
  ASSUME IInv, [Next]_vars
  PROVE  IInv'
<1>1. ASSUME NEW r \in Requests, Progress(r)
      PROVE  IInv'
  BY <1>1, RecordRunStep, FinishTaskStep, FailTaskStep, PublishedStep,
     FailureUnpublishedStep, DecisionPublishedStep DEF Progress
<1> QED
  BY <1>1, CreateStep, StartTaskStep, DecideStep, SaveStep, StartStep, CrashStep, StutterStep
     DEF Next, Request, Connects

LEMMA IInvHolds == Spec => []IInv
<1>1. Init => IInv
  BY InitIInv
<1>2. IInv /\ [Next]_vars => IInv'
  BY NextIInv
<1> QED
  BY <1>1, <1>2, PTL DEF Spec

\* The store's variables keep their types.
THEOREM TypeCorrect == Spec => []TypeOK
<1>1. IInv => TypeOK
  BY DEF IInv
<1> QED
  BY <1>1, IInvHolds, PTL

\* Whatever export the database holds, and whatever is lost on the way to it:
\* a restart of the kernel never finds a review without its stopped task, a
\* stopped task without its review, or a reference to an unknown entry.
THEOREM RestartsAreConsistent == Spec => []SnapshotsAreConsistent
<1>1. IInv => SnapshotsAreConsistent
  BY DEF IInv
<1> QED
  BY <1>1, IInvHolds, PTL

\* An answered request is lost in one of four ways only: its own save failed,
\* the process has no database, a start could not load the row, or the process
\* was killed while an older export had overwritten a newer one.
THEOREM AnswersSurvive == Spec => []AcknowledgedSurvives
<1>1. IInv => AcknowledgedSurvives
  BY DEF IInv, AckInv, Settled, AcknowledgedSurvives
<1> QED
  BY <1>1, IInvHolds, PTL

\* When the last export has landed, the stored row is the registry.
THEOREM QuietRowIsTheRegistry == Spec => []QuietRowIsCurrent
<1>1. IInv => QuietRowIsCurrent
  BY DEF IInv, LastInv, Current, QuietRowIsCurrent
<1> QED
  BY <1>1, IInvHolds, PTL
=============================================================================
