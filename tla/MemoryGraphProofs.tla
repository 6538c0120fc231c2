-------------------------- MODULE MemoryGraphProofs --------------------------
(***************************************************************************)
(* Proofs about MemoryGraph, for every set of nodes, links and requests,   *)
(* every node_id they share, and every number of failures; and about       *)
(* CausalChains, for every finite graph.                                   *)
(***************************************************************************)
EXTENDS MemoryGraph, CausalChains, FiniteSetTheorems, SequenceTheorems,
        WellFoundedInduction, TLAPS

\* Memory and the table hold nodes under their own ids, of requests that have
\* been made; a request is at a backend only when that was reached at startup.
OwnerInv ==
  /\ \A n \in DOMAIN local : Target[local[n]] = n /\ storing[local[n]] # "idle"
  /\ \A n \in DOMAIN rows : Target[rows[n].by] = n /\ storing[rows[n].by] # "idle"
  /\ \A r \in Stores : storing[r] = "rows" => pool
  /\ \A r \in Stores : storing[r] = "graph" => driver

\* What is in memory was stored since the start: not in the table without
\* PostgreSQL, and in the graph with Neo4j once its request was answered.
BackendInv ==
  /\ ~ pool => \A n \in DOMAIN local \cap DOMAIN rows : rows[n].by # local[n]
  /\ driver => \A n \in DOMAIN local :
                 storing[local[n]] = "answered" => n \in DOMAIN vertices \cup gone

\* How far the request for a link has come.
LinkInv(l) ==
  /\ \A r \in ends[l] : /\ Target[r] = l[1] => l[2] \in object[r].children
                        /\ Target[r] = l[2] => l[1] \in object[r].parents
  /\ linking[l] \in {"child", "edge", "answered"} /\ l[1] \in DOMAIN rows
       /\ rows[l[1]].by \in ends[l] => l[2] \in rows[l[1]].children
  /\ linking[l] \in {"edge", "answered"} /\ l[2] \in DOMAIN rows
       /\ rows[l[2]].by \in ends[l] => l[1] \in rows[l[2]].parents
  /\ LinkInFlight(l) /\ l \notin raced =>
       driver /\ {l[1], l[2]} \subseteq DOMAIN vertices \cup gone
  /\ linking[l] = "answered" /\ l \notin raced /\ {l[1], l[2]} \cap gone = {} => l \in edges

\* The change of a row that is to come to the graph is what the row shows.
DueInv ==
  \A n \in Nodes :
    /\ due[n] \in Stores =>
         /\ n \in DOMAIN rows /\ rows[n].by = due[n]
         /\ rows[n].kind = "episodic" => object[due[n]].kind = "episodic"
    /\ due[n] = "promotion" => n \in DOMAIN rows /\ rows[n].kind = "episodic"
    /\ due[n] = "removal" => n \notin DOMAIN rows

\* A consolidation removes from the graph what it has deleted from the table.
CarriedInv ==
  consolidating \in {"graphPromote", "graphForget"} => forgotten \subseteq gone

IInv ==
  /\ TypeOK
  /\ OwnerInv
  /\ BackendInv
  /\ \A l \in Links : LinkInv(l)
  /\ DueInv
  /\ CarriedInv
  /\ GraphFollowsRows

LEMMA LinkEnds ==
  \A l \in Links : l[1] \in Nodes /\ l[2] \in Nodes /\ l[1] # l[2] /\ l = <<l[1], l[2]>>
BY MemoryAssumption

\* The tables of the module as functions on their domains.
LEMMA TableEntries ==
  ASSUME NEW f, Table(f)
  PROVE  \A n \in DOMAIN f : n \in Nodes /\ f[n] \in Node
BY DEF Table

LEMMA PutFacts ==
  ASSUME NEW f, Table(f), NEW n \in Nodes, NEW v \in Node
  PROVE  /\ Table(Put(f, n, v)) /\ DOMAIN Put(f, n, v) = DOMAIN f \cup {n}
         /\ Put(f, n, v)[n] = v
         /\ \A x \in DOMAIN f \ {n} : Put(f, n, v)[x] = f[x]
BY TableEntries DEF Table, Put

LEMMA WithoutFacts ==
  ASSUME NEW f, Table(f), NEW S
  PROVE  /\ Table(Without(f, S)) /\ DOMAIN Without(f, S) = DOMAIN f \ S
         /\ \A x \in DOMAIN f \ S : Without(f, S)[x] = f[x]
BY TableEntries DEF Table, Without, Restrict

\* Touches and promotions change nothing else of a table.
LEMMA TouchedFacts ==
  ASSUME NEW f, Table(f), NEW S
  PROVE  /\ Table(Touched(f, S)) /\ DOMAIN Touched(f, S) = DOMAIN f
         /\ \A x \in DOMAIN f : /\ Touched(f, S)[x].by = f[x].by
                                /\ Touched(f, S)[x].kind = f[x].kind
                                /\ Touched(f, S)[x].parents = f[x].parents
                                /\ Touched(f, S)[x].children = f[x].children
<1>1. DOMAIN Touched(f, S) = DOMAIN f
  BY DEF Touched
<1>2. ASSUME NEW x \in DOMAIN f
      PROVE  /\ Touched(f, S)[x] \in Node
             /\ Touched(f, S)[x].by = f[x].by
             /\ Touched(f, S)[x].kind = f[x].kind
             /\ Touched(f, S)[x].parents = f[x].parents
             /\ Touched(f, S)[x].children = f[x].children
  <2>1. f[x] \in Node
    BY TableEntries
  <2>2. Touched(f, S)[x] = IF x \in S THEN [f[x] EXCEPT !.used = TRUE] ELSE f[x]
    BY DEF Touched
  <2> QED
    BY <2>1, <2>2 DEF Node
<1>3. Touched(f, S) = [x \in DOMAIN Touched(f, S) |-> Touched(f, S)[x]]
  BY DEF Touched
<1> QED
  BY <1>1, <1>2, <1>3 DEF Table

LEMMA PromotedFacts ==
  ASSUME NEW f, Table(f)
  PROVE  /\ Table(Promoted(f)) /\ DOMAIN Promoted(f) = DOMAIN f
         /\ Promotable(f) \subseteq DOMAIN f /\ Forgettable(f) \subseteq DOMAIN f
         /\ \A x \in DOMAIN f : /\ Promoted(f)[x].by = f[x].by
                                /\ Promoted(f)[x].parents = f[x].parents
                                /\ Promoted(f)[x].children = f[x].children
                                /\ Promoted(f)[x].kind =
                                     IF x \in Promotable(f) THEN "episodic" ELSE f[x].kind
BY DEF Table, Promoted, Promotable, Forgettable, Node

LEMMA ShowsFacts ==
  ASSUME due \in [Nodes -> Owed \cup Stores], NEW S, NEW change \in Owed \cup Stores,
         Shows(S, change)
  PROVE  /\ due' \in [Nodes -> Owed \cup Stores]
         /\ \A n \in Nodes \ S : due'[n] = due[n]
         /\ \A n \in Nodes \cap S : /\ due'[n] = "nothing" => due[n] = change
                                    /\ due'[n] \notin {"nothing", "overwritten"} =>
                                         due'[n] = due[n]
<1>1. ASSUME NEW n \in Nodes
      PROVE  due'[n] = IF n \notin S THEN due[n]
                       ELSE IF due[n] = change THEN "nothing"
                       ELSE IF due[n] = "nothing" THEN "overwritten" ELSE due[n]
  BY DEF Shows
<1>2. due' = [n \in Nodes |-> due'[n]]
  BY DEF Shows
<1>3. ASSUME NEW n \in Nodes PROVE due'[n] \in Owed \cup Stores
  BY <1>1 DEF Owed
<1> QED
  BY <1>1, <1>2, <1>3

\* An object that is promoted or touched keeps its owner and its links.
Grows(old, new) ==
  \A r \in Stores : /\ new[r] \in Node /\ new[r].by = r
                    /\ old[r].parents \subseteq new[r].parents
                    /\ old[r].children \subseteq new[r].children
                    /\ old[r].kind = "episodic" => new[r].kind = "episodic"

LEMMA ObjectsGrow ==
  ASSUME IInv, NEW o, o = [r \in Stores |-> o[r]],
         \A r \in Stores : \/ o[r] = object[r]
                           \/ o[r] = [object[r] EXCEPT !.kind = "episodic"]
                           \/ o[r] = [object[r] EXCEPT !.used = TRUE]
  PROVE  o \in [Stores -> Node] /\ Grows(object, o)
<1>1. ASSUME NEW r \in Stores
      PROVE  /\ o[r] \in Node /\ o[r].by = r
             /\ object[r].parents \subseteq o[r].parents
             /\ object[r].children \subseteq o[r].children
             /\ object[r].kind = "episodic" => o[r].kind = "episodic"
  <2>1. object[r] \in Node /\ object[r].by = r
    BY DEF IInv, TypeOK
  <2>2. CASE o[r] = object[r]
    BY <2>1, <2>2
  <2>3. CASE o[r] = [object[r] EXCEPT !.kind = "episodic"]
    BY <2>1, <2>3 DEF Node
  <2>4. CASE o[r] = [object[r] EXCEPT !.used = TRUE]
    BY <2>1, <2>4 DEF Node
  <2> QED
    BY <2>2, <2>3, <2>4
<1> QED
  BY <1>1 DEF Grows

LEMMA InitIInv == Init => IInv
<1> SUFFICES ASSUME Init PROVE IInv
  OBVIOUS
<1>1. /\ Table(Empty) /\ DOMAIN Empty = {}
      /\ Empty \in [DOMAIN Empty -> {"working", "episodic"}] /\ Empty \in [DOMAIN Empty -> Stores]
  BY DEF Table, Empty
<1>2. \A r \in Stores : NewNode(r) \in Node /\ NewNode(r).by = r
  BY MemoryAssumption DEF NewNode, Node
<1>3. TypeOK
  BY <1>1, <1>2, MemoryAssumption DEF Init, TypeOK, Owed
<1>4. OwnerInv /\ BackendInv /\ CarriedInv
  BY <1>1 DEF Init, OwnerInv, BackendInv, CarriedInv
<1>5. \A l \in Links : LinkInv(l)
  BY <1>1 DEF Init, LinkInv, LinkInFlight
<1>6. DueInv /\ GraphFollowsRows
  BY <1>1, StoresAssumption DEF Init, DueInv, GraphFollowsRows, Owed
<1> QED
  BY <1>3, <1>4, <1>5, <1>6 DEF IInv

LEMMA FaultCount ==
  ASSUME faults \in 0..MaxFaults, NEW stage, Counted(stage) \/ Fault
  PROVE  faults' \in 0..MaxFaults
BY MemoryAssumption DEF Counted, Fault

\* The request for a store.
LEMMA StoreStep ==
  ASSUME IInv, NEW r \in Stores,
         StoreLocally(r) \/ InsertRow(r) \/ MergeVertex(r) \/ StoreFails(r)
  PROVE  IInv'
<1>1. /\ storing \in [Stores -> {"idle", "rows", "graph", "answered", "failed"}]
      /\ Table(rows) /\ Target[r] \in Nodes /\ Target \in [Stores -> Nodes]
      /\ object[r] \in Node /\ object[r].by = r
      /\ due \in [Nodes -> Owed \cup Stores] /\ faults \in 0..MaxFaults
  BY MemoryAssumption DEF IInv, TypeOK
<1>2. CASE StoreLocally(r)
  <2>1. /\ storing[r] = "idle" /\ local' = Put(local, Target[r], r)
        /\ \E stage \in {"rows", "graph", "answered"} :
             /\ storing' = [storing EXCEPT ![r] = stage] /\ Counted(stage)
             /\ stage = "rows" => pool
             /\ stage = "graph" => driver
             /\ stage = "answered" => ~ driver
        /\ UNCHANGED <<reached, age, object, rows, graph, linking, cleaning, querying, history>>
    BY <1>2 DEF StoreLocally, StoreGoesTo, AfterRows
  <2>2. /\ DOMAIN local' = DOMAIN local \cup {Target[r]} /\ local'[Target[r]] = r
        /\ \A x \in DOMAIN local \ {Target[r]} : local'[x] = local[x]
        /\ local' \in [DOMAIN local' -> Stores] /\ DOMAIN local' \subseteq Nodes
    BY <1>1, <2>1 DEF Put, IInv, TypeOK
  <2>3. faults' \in 0..MaxFaults
    BY <1>1, <2>1, FaultCount
  <2> USE <2>1, <2>2, <2>3 DEF reached, graph, cleaning, history
  <2>4. TypeOK'
    BY <1>1 DEF IInv, TypeOK
  <2>5. OwnerInv'
    BY <1>1 DEF IInv, OwnerInv
  <2>6. BackendInv'
    BY <1>1, TableEntries DEF IInv, OwnerInv, BackendInv
  <2>7. \A l \in Links : LinkInv(l)'
    BY DEF IInv, LinkInv, LinkInFlight
  <2>8. DueInv' /\ CarriedInv' /\ GraphFollowsRows'
    BY DEF IInv, DueInv, CarriedInv, GraphFollowsRows
  <2> QED
    BY <2>4, <2>5, <2>6, <2>7, <2>8 DEF IInv
<1>3. CASE InsertRow(r)
  <2>1. /\ storing[r] = "rows" /\ rows' = Put(rows, Target[r], object[r])
        /\ due' = [due EXCEPT ![Target[r]] = r]
        /\ \E stage \in {"graph", "answered", "failed"} :
             /\ storing' = [storing EXCEPT ![r] = stage] /\ Counted(stage)
             /\ stage = "graph" => driver
             /\ stage = "answered" => ~ driver
        /\ UNCHANGED <<reached, age, object, local, graph, linking, cleaning, querying, ends,
                       raced, gone>>
    BY <1>3 DEF InsertRow, StoreGoesTo, AfterRows
  <2>2. /\ Table(rows') /\ DOMAIN rows' = DOMAIN rows \cup {Target[r]}
        /\ rows'[Target[r]] = object[r]
        /\ \A x \in DOMAIN rows \ {Target[r]} : rows'[x] = rows[x]
    <3>1. PICK n \in Nodes, v \in Node : n = Target[r] /\ v = object[r]
      BY <1>1
    <3>2. /\ Table(Put(rows, n, v)) /\ DOMAIN Put(rows, n, v) = DOMAIN rows \cup {n}
          /\ Put(rows, n, v)[n] = v
          /\ \A x \in DOMAIN rows \ {n} : Put(rows, n, v)[x] = rows[x]
      BY <1>1, PutFacts
    <3>3. rows' = Put(rows, n, v)
      BY <2>1, <3>1
    <3> QED
      BY <3>1, <3>2, <3>3
  <2>3. faults' \in 0..MaxFaults
    BY <1>1, <2>1, FaultCount
  <2>4. pool
    BY <2>1 DEF IInv, OwnerInv
  <2> USE <2>1, <2>2, <2>3, <2>4 DEF reached, graph, cleaning
  <2>5. TypeOK'
    BY <1>1 DEF IInv, TypeOK
  <2>6. OwnerInv' /\ BackendInv'
    BY <1>1 DEF IInv, OwnerInv, BackendInv
  <2>7. \A l \in Links : LinkInv(l)'
    BY <1>1 DEF IInv, LinkInv, LinkInFlight
  <2>8. DueInv'
    BY <1>1, StoresAssumption DEF IInv, DueInv, Owed
  <2>9. CarriedInv' /\ GraphFollowsRows'
    BY <1>1, StoresAssumption DEF IInv, CarriedInv, GraphFollowsRows, Owed
  <2> QED
    BY <2>5, <2>6, <2>7, <2>8, <2>9 DEF IInv
<1>4. CASE MergeVertex(r)
  <2>1. /\ storing[r] = "graph" /\ vertices' = Put(vertices, Target[r], object[r].kind)
        /\ Shows({Target[r]}, r)
        /\ \E stage \in {"answered", "failed"} :
             storing' = [storing EXCEPT ![r] = stage] /\ Counted(stage)
        /\ UNCHANGED <<reached, age, object, local, rows, edges, linking, cleaning, querying,
                       ends, raced, gone>>
    BY <1>4 DEF MergeVertex, StoreGoesTo
  <2>2. /\ DOMAIN vertices' = DOMAIN vertices \cup {Target[r]}
        /\ vertices'[Target[r]] = object[r].kind
        /\ \A x \in DOMAIN vertices \ {Target[r]} : vertices'[x] = vertices[x]
        /\ vertices' \in [DOMAIN vertices' -> {"working", "episodic"}]
        /\ object[r].kind \in {"working", "episodic"}
    BY <1>1, <2>1 DEF Put, IInv, TypeOK, Node
  <2>3. faults' \in 0..MaxFaults
    BY <1>1, <2>1, FaultCount
  <2>4. /\ due' \in [Nodes -> Owed \cup Stores]
        /\ \A n \in Nodes \ {Target[r]} : due'[n] = due[n]
        /\ due'[Target[r]] = "nothing" => due[Target[r]] = r
        /\ due'[Target[r]] \notin {"nothing", "overwritten"} => due'[Target[r]] = due[Target[r]]
    BY <1>1, <2>1, ShowsFacts
  <2>5. UNCHANGED <<pool, driver, age, object, local, rows, edges, linking, consolidating, moved,
                    forgotten, querying, ends, raced, gone>>
    BY <2>1 DEF reached, cleaning
  <2>6. TypeOK'
    BY <1>1, <2>1, <2>2, <2>3, <2>4, <2>5 DEF IInv, TypeOK
  <2>7. OwnerInv' /\ BackendInv' /\ CarriedInv'
    BY <1>1, <2>1, <2>2, <2>5 DEF IInv, OwnerInv, BackendInv, CarriedInv
  <2>8. \A l \in Links : LinkInv(l)'
    BY <2>2, <2>5 DEF IInv, LinkInv, LinkInFlight
  <2>9. DueInv'
    BY <1>1, <2>4, <2>5, StoresAssumption DEF IInv, DueInv, Owed
  <2>10. GraphFollowsRows'
    <3> SUFFICES ASSUME NEW n \in Nodes, due'[n] = "nothing"
                 PROVE  /\ n \in DOMAIN rows <=> n \in DOMAIN vertices'
                        /\ n \in DOMAIN rows =>
                             \/ vertices'[n] = rows[n].kind
                             \/ vertices'[n] = "episodic" /\ object[rows[n].by].kind = "episodic"
      BY <2>5 DEF GraphFollowsRows
    <3>1. CASE n # Target[r]
      BY <2>2, <2>4, <3>1 DEF IInv, GraphFollowsRows
    <3>2. CASE n = Target[r]
      <4>1. due[n] = r /\ n \in DOMAIN rows /\ rows[n].by = r
            /\ (rows[n].kind = "episodic" => object[r].kind = "episodic")
        BY <2>4, <3>2 DEF IInv, DueInv
      <4>2. rows[n] \in Node
        BY <1>1, <4>1, TableEntries
      <4> QED
        BY <2>2, <3>2, <4>1, <4>2 DEF Node
    <3> QED
      BY <3>1, <3>2
  <2> QED
    BY <2>6, <2>7, <2>8, <2>9, <2>10 DEF IInv
<1>5. CASE StoreFails(r)
  <2>1. /\ StoreInFlight(r) /\ storing' = [storing EXCEPT ![r] = "failed"] /\ Counted("failed")
        /\ UNCHANGED <<reached, age, object, local, rows, graph, linking, cleaning, querying,
                       history>>
    BY <1>5 DEF StoreFails, StoreGoesTo
  <2>2. faults' \in 0..MaxFaults
    BY <1>1, <2>1, FaultCount
  <2> USE <2>1, <2>2 DEF reached, graph, cleaning, history
  <2>3. TypeOK'
    BY <1>1 DEF IInv, TypeOK
  <2>4. OwnerInv' /\ BackendInv'
    BY <1>1 DEF IInv, OwnerInv, BackendInv
  <2>5. (\A l \in Links : LinkInv(l)') /\ DueInv' /\ CarriedInv' /\ GraphFollowsRows'
    BY DEF IInv, LinkInv, LinkInFlight, DueInv, CarriedInv, GraphFollowsRows
  <2> QED
    BY <2>3, <2>4, <2>5 DEF IInv
<1> QED
  BY <1>2, <1>3, <1>4, <1>5

\* A node with one more link.
LEMMA LinkedNode ==
  ASSUME NEW v \in Node, NEW n \in Nodes
  PROVE  \E c, p \in Node : /\ c = [v EXCEPT !.children = @ \cup {n}]
                            /\ c.by = v.by /\ c.kind = v.kind /\ c.parents = v.parents
                            /\ c.children = v.children \cup {n}
                            /\ p = [v EXCEPT !.parents = @ \cup {n}]
                            /\ p.by = v.by /\ p.kind = v.kind /\ p.children = v.children
                            /\ p.parents = v.parents \cup {n}
<1>1. PICK c \in SUBSET Nodes : c = v.children \cup {n}
  BY DEF Node
<1>2. PICK p \in SUBSET Nodes : p = v.parents \cup {n}
  BY DEF Node
<1>3. [v EXCEPT !.children = c] \in Node /\ [v EXCEPT !.parents = p] \in Node
  BY DEF Node
<1>4. /\ [v EXCEPT !.children = c].by = v.by /\ [v EXCEPT !.children = c].kind = v.kind
      /\ [v EXCEPT !.children = c].parents = v.parents
      /\ [v EXCEPT !.children = c].children = c
  BY DEF Node
<1>5. /\ [v EXCEPT !.parents = p].by = v.by /\ [v EXCEPT !.parents = p].kind = v.kind
      /\ [v EXCEPT !.parents = p].children = v.children
      /\ [v EXCEPT !.parents = p].parents = p
  BY DEF Node
<1> QED
  BY <1>1, <1>2, <1>3, <1>4, <1>5

\* What a link does to the two objects in memory.
LEMMA LinkedObjects ==
  ASSUME IInv, NEW l \in Links, {l[1], l[2]} \subseteq DOMAIN local,
         object' = [object EXCEPT ![local[l[1]]].children = @ \cup {l[2]},
                                  ![local[l[2]]].parents = @ \cup {l[1]}]
  PROVE  /\ object' \in [Stores -> Node] /\ Grows(object, object')
         /\ l[2] \in object'[local[l[1]]].children /\ l[1] \in object'[local[l[2]]].parents
<1>1. /\ l[1] \in Nodes /\ l[2] \in Nodes /\ l[1] # l[2]
      /\ object \in [Stores -> Node] /\ \A r \in Stores : object[r].by = r
      /\ local[l[1]] \in Stores /\ local[l[2]] \in Stores
      /\ Target[local[l[1]]] = l[1] /\ Target[local[l[2]]] = l[2]
  BY LinkEnds DEF IInv, TypeOK, OwnerInv
<1>2. PICK a \in Stores, b \in Stores : a = local[l[1]] /\ b = local[l[2]]
  BY <1>1
<1>3. a # b
  BY <1>1, <1>2
<1>4. object' = [object EXCEPT ![a].children = @ \cup {l[2]}, ![b].parents = @ \cup {l[1]}]
  BY <1>2
<1>5. /\ object'[a] = [object[a] EXCEPT !.children = @ \cup {l[2]}]
      /\ object'[b] = [object[b] EXCEPT !.parents = @ \cup {l[1]}]
      /\ \A r \in Stores \ {a, b} : object'[r] = object[r]
  BY <1>1, <1>3, <1>4
<1>6. ASSUME NEW r \in Stores
      PROVE  /\ object'[r] \in Node /\ object'[r].by = r
             /\ object[r].parents \subseteq object'[r].parents
             /\ object[r].children \subseteq object'[r].children
             /\ object'[r].kind = object[r].kind
             /\ r = a => l[2] \in object'[r].children
             /\ r = b => l[1] \in object'[r].parents
  <2>1. object[r] \in Node /\ object[r].by = r
    BY <1>1
  <2>2. CASE r = a
    <3>1. PICK old \in Node, n \in Nodes : old = object[r] /\ n = l[2]
      BY <1>1
    <3>2. object'[r] = [old EXCEPT !.children = @ \cup {n}]
      BY <1>5, <2>2, <3>1
    <3>3. PICK new \in Node : /\ new = [old EXCEPT !.children = @ \cup {n}]
                               /\ new.by = old.by /\ new.kind = old.kind
                               /\ new.parents = old.parents
                               /\ new.children = old.children \cup {n}
      BY LinkedNode
    <3>4. object'[r] = new
      BY <3>2, <3>3
    <3> QED
      BY <1>3, <2>1, <2>2, <3>1, <3>3, <3>4
  <2>3. CASE r = b
    <3>1. PICK old \in Node, n \in Nodes : old = object[r] /\ n = l[1]
      BY <1>1
    <3>2. object'[r] = [old EXCEPT !.parents = @ \cup {n}]
      BY <1>5, <2>3, <3>1
    <3>3. PICK new \in Node : /\ new = [old EXCEPT !.parents = @ \cup {n}]
                               /\ new.by = old.by /\ new.kind = old.kind
                               /\ new.children = old.children
                               /\ new.parents = old.parents \cup {n}
      BY LinkedNode
    <3>4. object'[r] = new
      BY <3>2, <3>3
    <3> QED
      BY <1>3, <2>1, <2>3, <3>1, <3>3, <3>4
  <2>4. CASE r \notin {a, b}
    BY <1>5, <2>1, <2>4
  <2> QED
    BY <2>2, <2>3, <2>4
<1>7. object' = [r \in Stores |-> object'[r]]
  BY <1>1, <1>4
<1> QED
  BY <1>2, <1>6, <1>7 DEF Grows

\* The request for a link.
LEMMA LinkStep ==
  ASSUME IInv, NEW l \in Links,
         LinkLocally(l) \/ UpdateParent(l) \/ UpdateChild(l) \/ MergeEdge(l) \/ LinkFails(l)
  PROVE  IInv'
<1>1. /\ linking \in [Links -> {"idle", "parent", "child", "edge", "answered", "failed"}]
      /\ Table(rows) /\ faults \in 0..MaxFaults
      /\ ends \in [Links -> SUBSET Stores]
      /\ l[1] \in Nodes /\ l[2] \in Nodes /\ l[1] # l[2] /\ l = <<l[1], l[2]>>
  BY LinkEnds DEF IInv, TypeOK
<1>2. CASE LinkLocally(l) /\ {l[1], l[2]} \subseteq DOMAIN local
  <2>1. /\ object' = [object EXCEPT ![local[l[1]]].children = @ \cup {l[2]},
                                    ![local[l[2]]].parents = @ \cup {l[1]}]
        /\ ends' = [ends EXCEPT ![l] = {local[l[1]], local[l[2]]}]
        /\ \A o \in Links \ {l} : o \in raced' <=> o \in raced
        /\ raced' \subseteq raced \cup {l}
        /\ l \notin raced' => /\ driver /\ storing[local[l[1]]] = "answered"
                              /\ storing[local[l[2]]] = "answered"
        /\ linking' = [linking EXCEPT ![l] = IF pool THEN "parent"
                                             ELSE IF driver THEN "edge" ELSE "answered"]
        /\ UNCHANGED <<backends, age, local, rows, graph, storing, cleaning, querying, gone,
                       due>>
    BY <1>2 DEF LinkLocally, LinkInMemory, EndsInMemory, Proceeds, AfterRows
  <2>2. /\ object' \in [Stores -> Node] /\ Grows(object, object')
        /\ l[2] \in object'[local[l[1]]].children /\ l[1] \in object'[local[l[2]]].parents
    BY <1>2, <2>1, LinkedObjects
  <2>3. /\ local[l[1]] \in Stores /\ local[l[2]] \in Stores
        /\ Target[local[l[1]]] = l[1] /\ Target[local[l[2]]] = l[2]
    BY <1>2 DEF IInv, TypeOK, OwnerInv
  <2>4. UNCHANGED <<pool, driver, faults, age, local, rows, vertices, edges, storing,
                    consolidating, moved, forgotten, querying, gone, due>>
    BY <2>1 DEF backends, graph, cleaning
  <2>5. TypeOK'
    <3>1. raced' \subseteq Links
      BY <2>1 DEF IInv, TypeOK
    <3>2. ends' \in [Links -> SUBSET Stores]
      BY <1>1, <2>1, <2>3
    <3>3. linking' \in [Links -> {"idle", "parent", "child", "edge", "answered", "failed"}]
      BY <1>1, <2>1
    <3>4. \A r \in Stores : object'[r].by = r
      BY <2>2 DEF Grows
    <3> QED
      BY <2>2, <2>4, <3>1, <3>2, <3>3, <3>4 DEF IInv, TypeOK
  <2>6. OwnerInv' /\ BackendInv' /\ CarriedInv'
    BY <2>4 DEF IInv, OwnerInv, BackendInv, CarriedInv
  <2>7. ASSUME NEW o \in Links, o # l PROVE LinkInv(o)'
    <3>1. LinkInv(o) /\ ends'[o] = ends[o] /\ linking'[o] = linking[o]
          /\ (o \in raced' <=> o \in raced)
      BY <1>1, <2>1, <2>7 DEF IInv
    <3>2. ends[o] \subseteq Stores
      BY <1>1
    <3> QED
      BY <2>2, <2>4, <3>1, <3>2 DEF LinkInv, LinkInFlight, Grows
  <2>8. LinkInv(l)'
    <3>1. ends'[l] = {local[l[1]], local[l[2]]}
      BY <1>1, <2>1
    <3>2. \A r \in ends'[l] : /\ Target[r] = l[1] => l[2] \in object'[r].children
                              /\ Target[r] = l[2] => l[1] \in object'[r].parents
      BY <1>1, <2>2, <2>3, <3>1
    <3>3. linking'[l] # "parent" =>
            /\ l[1] \in DOMAIN rows => rows[l[1]].by \notin ends'[l]
            /\ l[2] \in DOMAIN rows => rows[l[2]].by \notin ends'[l]
      BY <1>1, <1>2, <2>1, <2>3, <3>1 DEF IInv, OwnerInv, BackendInv
    <3>4. l \notin raced' => driver /\ {l[1], l[2]} \subseteq DOMAIN vertices \cup gone
      BY <1>2, <2>1 DEF IInv, BackendInv
    <3>5. linking'[l] = "answered" => ~ driver
      BY <1>1, <2>1
    <3>6. linking'[l] \in {"parent", "edge", "answered"}
      BY <1>1, <2>1
    <3> QED
      BY <2>4, <3>2, <3>3, <3>4, <3>5, <3>6 DEF LinkInv, LinkInFlight
  <2>9. DueInv' /\ GraphFollowsRows'
    BY <1>1, <2>2, <2>4, TableEntries DEF IInv, DueInv, GraphFollowsRows, Grows, Node
  <2> QED
    BY <2>5, <2>6, <2>7, <2>8, <2>9 DEF IInv
<1>3. CASE LinkLocally(l) /\ ~ ({l[1], l[2]} \subseteq DOMAIN local)
  <2>1. /\ linking' = [linking EXCEPT ![l] = "failed"] /\ UNCHANGED <<object, ends, raced>>
        /\ UNCHANGED <<backends, age, local, rows, graph, storing, cleaning, querying, gone,
                       due>>
    BY <1>3 DEF LinkLocally, Proceeds
  <2> USE <2>1 DEF backends, graph, cleaning
  <2>2. TypeOK' /\ OwnerInv' /\ BackendInv' /\ CarriedInv' /\ DueInv' /\ GraphFollowsRows'
    BY <1>1 DEF IInv, TypeOK, OwnerInv, BackendInv, CarriedInv, DueInv, GraphFollowsRows
  <2>3. ASSUME NEW o \in Links PROVE LinkInv(o)'
    BY <1>1 DEF IInv, LinkInv, LinkInFlight
  <2> QED
    BY <2>2, <2>3 DEF IInv
<1>4. CASE UpdateParent(l) \/ UpdateChild(l)
  <2>1. /\ linking[l] \in {"parent", "child"}
        /\ linking[l] = "parent" =>
             /\ rows' = IF l[1] \in DOMAIN rows
                        THEN [rows EXCEPT ![l[1]].children = @ \cup {l[2]}] ELSE rows
             /\ \E stage \in {"child", "failed"} :
                  linking' = [linking EXCEPT ![l] = stage] /\ Counted(stage)
        /\ linking[l] = "child" =>
             /\ rows' = IF l[2] \in DOMAIN rows
                        THEN [rows EXCEPT ![l[2]].parents = @ \cup {l[1]}] ELSE rows
             /\ \E stage \in {IF driver THEN "edge" ELSE "answered", "failed"} :
                  linking' = [linking EXCEPT ![l] = stage] /\ Counted(stage)
        /\ UNCHANGED <<reached, age, object, local, graph, storing, cleaning, querying, history>>
    BY <1>4 DEF UpdateParent, UpdateChild, Proceeds, AfterRows
  <2>2. /\ Table(rows') /\ DOMAIN rows' = DOMAIN rows
        /\ \A n \in DOMAIN rows : /\ rows'[n].by = rows[n].by
                                  /\ rows'[n].kind = rows[n].kind
                                  /\ rows[n].children \subseteq rows'[n].children
                                  /\ rows[n].parents \subseteq rows'[n].parents
        /\ linking[l] = "parent" /\ l[1] \in DOMAIN rows => l[2] \in rows'[l[1]].children
        /\ linking[l] = "child" /\ l[2] \in DOMAIN rows => l[1] \in rows'[l[2]].parents
    <3>1. \A n \in DOMAIN rows : rows[n] \in Node
      BY <1>1, TableEntries
    <3>2. CASE rows' = rows /\ (linking[l] = "parent" => l[1] \notin DOMAIN rows)
                            /\ (linking[l] = "child" => l[2] \notin DOMAIN rows)
      BY <1>1, <3>2
    <3>3. CASE linking[l] = "parent" /\ l[1] \in DOMAIN rows
      <4>1. rows' = [rows EXCEPT ![l[1]].children = @ \cup {l[2]}]
        BY <2>1, <3>3
      <4>2. \A n \in DOMAIN rows : rows'[n] \in Node
        BY <1>1, <3>1, <4>1 DEF Node
      <4> QED
        BY <1>1, <3>1, <3>3, <4>1, <4>2 DEF Table, Node
    <3>4. CASE linking[l] = "child" /\ l[2] \in DOMAIN rows
      <4>1. rows' = [rows EXCEPT ![l[2]].parents = @ \cup {l[1]}]
        BY <2>1, <3>4
      <4>2. \A n \in DOMAIN rows : rows'[n] \in Node
        BY <1>1, <3>1, <4>1 DEF Node
      <4> QED
        BY <1>1, <3>1, <3>4, <4>1, <4>2 DEF Table, Node
    <3> QED
      BY <2>1, <3>2, <3>3, <3>4
  <2>3. faults' \in 0..MaxFaults
    BY <1>1, <2>1, FaultCount
  <2>4. UNCHANGED <<pool, driver, age, object, local, vertices, edges, storing, consolidating,
                    moved, forgotten, querying, ends, raced, gone, due>>
    BY <2>1 DEF reached, graph, cleaning, history
  <2>5. /\ linking' \in [Links -> {"idle", "parent", "child", "edge", "answered", "failed"}]
        /\ \A o \in Links \ {l} : linking'[o] = linking[o]
        /\ linking'[l] = "child" => linking[l] = "parent"
        /\ linking'[l] \in {"edge", "answered"} => linking[l] = "child"
        /\ linking'[l] = "answered" => ~ driver
        /\ linking'[l] \in {"child", "edge", "answered", "failed"}
    BY <1>1, <2>1
  <2>6. TypeOK'
    BY <2>2, <2>3, <2>4, <2>5 DEF IInv, TypeOK
  <2>7. OwnerInv' /\ BackendInv' /\ CarriedInv'
    BY <2>2, <2>4 DEF IInv, OwnerInv, BackendInv, CarriedInv
  <2>8. ASSUME NEW o \in Links PROVE LinkInv(o)'
    <3>1. LinkInv(o)
      BY DEF IInv
    <3>2. CASE o # l
      BY <2>2, <2>4, <2>5, <3>1, <3>2 DEF LinkInv, LinkInFlight
    <3>3. CASE o = l
      <4>1. linking'[l] \in {"child", "edge", "answered"} /\ l[1] \in DOMAIN rows'
              /\ rows'[l[1]].by \in ends[l] => l[2] \in rows'[l[1]].children
        BY <2>2, <2>5, <3>1, <3>3 DEF LinkInv
      <4>2. linking'[l] \in {"edge", "answered"} /\ l[2] \in DOMAIN rows'
              /\ rows'[l[2]].by \in ends[l] => l[1] \in rows'[l[2]].parents
        BY <2>2, <2>5, <3>1, <3>3 DEF LinkInv
      <4>3. l \notin raced => driver /\ {l[1], l[2]} \subseteq DOMAIN vertices \cup gone
        BY <2>1, <3>1, <3>3 DEF LinkInv, LinkInFlight
      <4> QED
        BY <2>4, <2>5, <3>1, <3>3, <4>1, <4>2, <4>3 DEF LinkInv, LinkInFlight
    <3> QED
      BY <3>2, <3>3
  <2>9. DueInv' /\ GraphFollowsRows'
    BY <2>2, <2>4 DEF IInv, DueInv, GraphFollowsRows
  <2> QED
    BY <2>6, <2>7, <2>8, <2>9 DEF IInv
<1>5. CASE MergeEdge(l) \/ LinkFails(l)
  <2>1. /\ LinkInFlight(l)
        /\ \/ /\ edges' = IF {l[1], l[2]} \subseteq DOMAIN vertices
                          THEN edges \cup {l} ELSE edges
              /\ \E stage \in {"answered", "failed"} :
                   linking' = [linking EXCEPT ![l] = stage] /\ Counted(stage)
              /\ linking[l] = "edge"
           \/ edges' = edges /\ linking' = [linking EXCEPT ![l] = "failed"] /\ Fault
        /\ UNCHANGED <<reached, age, object, local, rows, vertices, storing, cleaning, querying,
                       history>>
    BY <1>5 DEF MergeEdge, LinkFails, LinkInFlight, Proceeds, graph
  <2>2. /\ edges \subseteq edges' /\ edges' \subseteq edges \cup {l}
        /\ l \in edges' => l \in edges \/ {l[1], l[2]} \subseteq DOMAIN vertices
        /\ linking' \in [Links -> {"idle", "parent", "child", "edge", "answered", "failed"}]
        /\ \A o \in Links \ {l} : linking'[o] = linking[o]
        /\ linking'[l] \in {"answered", "failed"}
        /\ linking'[l] = "answered" /\ {l[1], l[2]} \subseteq DOMAIN vertices => l \in edges'
        /\ linking'[l] = "answered" => linking[l] = "edge"
    BY <1>1, <2>1
  <2>3. faults' \in 0..MaxFaults
    BY <1>1, <2>1, FaultCount
  <2>4. UNCHANGED <<pool, driver, age, object, local, rows, vertices, storing, consolidating,
                    moved, forgotten, querying, ends, raced, gone, due>>
    BY <2>1 DEF reached, cleaning, history
  <2>5. TypeOK'
    BY <1>1, <2>2, <2>3, <2>4 DEF IInv, TypeOK
  <2>6. OwnerInv' /\ BackendInv' /\ CarriedInv' /\ DueInv' /\ GraphFollowsRows'
    BY <2>4 DEF IInv, OwnerInv, BackendInv, CarriedInv, DueInv, GraphFollowsRows
  <2>7. ASSUME NEW o \in Links PROVE LinkInv(o)'
    <3>1. LinkInv(o)
      BY DEF IInv
    <3>2. CASE o # l
      BY <2>2, <2>4, <3>1, <3>2 DEF LinkInv, LinkInFlight
    <3>3. CASE o = l
      BY <2>1, <2>2, <2>4, <3>1, <3>3 DEF LinkInv, LinkInFlight
    <3> QED
      BY <3>2, <3>3
  <2> QED
    BY <2>5, <2>6, <2>7 DEF IInv
<1> QED
  BY <1>2, <1>3, <1>4, <1>5

\* Consolidation.
LEMMA ConsolidationStep ==
  ASSUME IInv,
         \/ ConsolidateLocally \/ PromoteRows \/ ForgetRows \/ PromoteVertices
         \/ ForgetVertices \/ ConsolidateFails
  PROVE  IInv'
<1>1. /\ Table(rows) /\ DOMAIN rows \subseteq Nodes
      /\ due \in [Nodes -> Owed \cup Stores] /\ faults \in 0..MaxFaults
      /\ object \in [Stores -> Node]
  BY DEF IInv, TypeOK, Table
<1>2. CASE ConsolidateLocally
  <2>1. /\ object' = [r \in Stores |-> object'[r]]
        /\ \A r \in Stores : \/ object'[r] = object[r]
                             \/ object'[r] = [object[r] EXCEPT !.kind = "episodic"]
        /\ local' = Without(local, Forgettable(Remembered))
        /\ consolidating' \in {"promote", "idle"} /\ consolidating = "idle"
        /\ UNCHANGED <<backends, age, rows, graph, storing, linking, moved, forgotten,
                       querying, history>>
    BY <1>2 DEF ConsolidateLocally
  <2>2. object' \in [Stores -> Node] /\ Grows(object, object')
    BY <2>1, ObjectsGrow
  <2>3. /\ DOMAIN local' \subseteq DOMAIN local
        /\ \A n \in DOMAIN local' : local'[n] = local[n]
        /\ local' \in [DOMAIN local' -> Stores]
    BY <2>1 DEF Without, Restrict, IInv, TypeOK
  <2>4. UNCHANGED <<pool, driver, faults, age, rows, vertices, edges, storing, linking, moved,
                    forgotten, querying, ends, raced, gone, due>>
    BY <2>1 DEF backends, graph, history
  <2>5. TypeOK'
    BY <2>1, <2>2, <2>3, <2>4 DEF IInv, TypeOK, Grows
  <2>6. OwnerInv' /\ BackendInv' /\ CarriedInv'
    BY <2>1, <2>3, <2>4 DEF IInv, OwnerInv, BackendInv, CarriedInv
  <2>7. ASSUME NEW l \in Links PROVE LinkInv(l)'
    <3>1. LinkInv(l) /\ ends[l] \subseteq Stores
      BY DEF IInv, TypeOK
    <3> QED
      BY <2>2, <2>4, <3>1 DEF LinkInv, LinkInFlight, Grows
  <2>8. DueInv' /\ GraphFollowsRows'
    BY <1>1, <2>2, <2>4, TableEntries DEF IInv, DueInv, GraphFollowsRows, Grows, Node
  <2> QED
    BY <2>5, <2>6, <2>7, <2>8 DEF IInv
<1>3. CASE PromoteRows
  <2>1. /\ consolidating = "promote" /\ consolidating' = "forget"
        /\ rows' = Promoted(rows)
        /\ moved' = Promotable(rows)
        /\ due' = [n \in Nodes |-> IF n \in Promotable(rows) THEN "promotion" ELSE due[n]]
        /\ UNCHANGED <<backends, age, object, local, graph, storing, linking, forgotten,
                       querying, ends, raced, gone>>
    BY <1>3 DEF PromoteRows
  <2>2. /\ Table(rows') /\ DOMAIN rows' = DOMAIN rows
        /\ Promotable(rows) \subseteq DOMAIN rows
        /\ \A x \in DOMAIN rows : /\ rows'[x].by = rows[x].by
                                  /\ rows'[x].parents = rows[x].parents
                                  /\ rows'[x].children = rows[x].children
                                  /\ rows'[x].kind =
                                       IF x \in Promotable(rows) THEN "episodic"
                                       ELSE rows[x].kind
    BY <1>1, <2>1, PromotedFacts
  <2>3. UNCHANGED <<pool, driver, faults, age, object, local, vertices, edges, storing, linking,
                    forgotten, querying, ends, raced, gone>>
    BY <2>1 DEF backends, graph
  <2>4. TypeOK'
    BY <1>1, <2>1, <2>2, <2>3 DEF IInv, TypeOK, Owed
  <2>5. OwnerInv' /\ BackendInv' /\ CarriedInv'
    BY <2>1, <2>2, <2>3 DEF IInv, OwnerInv, BackendInv, CarriedInv
  <2>6. ASSUME NEW l \in Links PROVE LinkInv(l)'
    BY <2>2, <2>3 DEF IInv, LinkInv, LinkInFlight
  <2>7. DueInv'
    BY <1>1, <2>1, <2>2, <2>3, StoresAssumption DEF IInv, DueInv, Owed
  <2>8. GraphFollowsRows'
    BY <1>1, <2>1, <2>2, <2>3 DEF IInv, GraphFollowsRows
  <2> QED
    BY <2>4, <2>5, <2>6, <2>7, <2>8 DEF IInv
<1>4. CASE ForgetRows
  <2>1. /\ consolidating = "forget"
        /\ rows' = Without(rows, Forgettable(rows))
        /\ gone' = gone \cup Forgettable(rows)
        /\ due' = [n \in Nodes |-> IF n \in Forgettable(rows) THEN "removal" ELSE due[n]]
        /\ \/ consolidating' = "graphPromote" /\ forgotten' = Forgettable(rows) /\ UNCHANGED moved
           \/ consolidating' = "idle" /\ forgotten' = {} /\ moved' = {}
        /\ UNCHANGED <<backends, age, object, local, graph, storing, linking, querying, ends,
                       raced>>
    BY <1>4 DEF ForgetRows
  <2>2. Forgettable(rows) \subseteq DOMAIN rows
    BY <1>1, PromotedFacts
  <2>3. /\ Table(rows') /\ DOMAIN rows' = DOMAIN rows \ Forgettable(rows)
        /\ \A x \in DOMAIN rows' : rows'[x] = rows[x]
    <3>1. /\ Table(Without(rows, Forgettable(rows)))
          /\ DOMAIN Without(rows, Forgettable(rows)) = DOMAIN rows \ Forgettable(rows)
          /\ \A x \in DOMAIN rows \ Forgettable(rows) :
               Without(rows, Forgettable(rows))[x] = rows[x]
      BY <1>1, WithoutFacts
    <3> QED
      BY <2>1, <3>1
  <2>4. UNCHANGED <<pool, driver, faults, age, object, local, vertices, edges, storing, linking,
                    querying, ends, raced>>
    BY <2>1 DEF backends, graph
  <2>5. PICK F \in SUBSET Nodes : F = Forgettable(rows)
    BY <1>1, <2>2
  <2>6. TypeOK'
    BY <1>1, <2>1, <2>3, <2>4, <2>5 DEF IInv, TypeOK, Owed
  <2>7. OwnerInv' /\ BackendInv' /\ CarriedInv'
    BY <2>1, <2>3, <2>4, <2>5 DEF IInv, OwnerInv, BackendInv, CarriedInv
  <2>8. ASSUME NEW l \in Links PROVE LinkInv(l)'
    BY <2>1, <2>3, <2>4, <2>5 DEF IInv, LinkInv, LinkInFlight
  <2>9. DueInv'
    BY <1>1, <2>1, <2>3, <2>4, <2>5, StoresAssumption DEF IInv, DueInv, Owed
  <2>10. GraphFollowsRows'
    BY <1>1, <2>1, <2>3, <2>4, <2>5 DEF IInv, GraphFollowsRows
  <2> QED
    BY <2>6, <2>7, <2>8, <2>9, <2>10 DEF IInv
<1>5. CASE PromoteVertices
  <2>1. /\ consolidating = "graphPromote" /\ consolidating' = "graphForget" /\ moved' = {}
        /\ vertices' = [n \in DOMAIN vertices |-> IF n \in moved THEN "episodic"
                                                  ELSE vertices[n]]
        /\ Shows(moved \cap DOMAIN vertices, "promotion")
        /\ UNCHANGED <<backends, age, object, local, rows, edges, storing, linking, forgotten,
                       querying, ends, raced, gone>>
    BY <1>5 DEF PromoteVertices
  <2>2. /\ due' \in [Nodes -> Owed \cup Stores]
        /\ \A n \in Nodes \ (moved \cap DOMAIN vertices) : due'[n] = due[n]
        /\ \A n \in Nodes \cap (moved \cap DOMAIN vertices) :
             /\ due'[n] = "nothing" => due[n] = "promotion"
             /\ due'[n] \notin {"nothing", "overwritten"} => due'[n] = due[n]
    <3>1. "promotion" \in Owed \cup Stores
      BY DEF Owed
    <3> QED
      BY <1>1, <2>1, <3>1, ShowsFacts
  <2>3. UNCHANGED <<pool, driver, faults, age, object, local, rows, edges, storing, linking,
                    forgotten, querying, ends, raced, gone>>
    BY <2>1 DEF backends
  <2>4. DOMAIN vertices' = DOMAIN vertices
        /\ vertices' \in [DOMAIN vertices -> {"working", "episodic"}]
        /\ \A n \in DOMAIN vertices : vertices'[n] = IF n \in moved THEN "episodic" ELSE vertices[n]
    BY <2>1 DEF IInv, TypeOK
  <2>5. TypeOK'
    BY <2>1, <2>2, <2>3, <2>4 DEF IInv, TypeOK
  <2>6. OwnerInv' /\ BackendInv' /\ CarriedInv'
    BY <2>1, <2>3, <2>4 DEF IInv, OwnerInv, BackendInv, CarriedInv
  <2>7. ASSUME NEW l \in Links PROVE LinkInv(l)'
    BY <2>3, <2>4 DEF IInv, LinkInv, LinkInFlight
  <2>8. DueInv'
    BY <1>1, <2>2, <2>3, StoresAssumption DEF IInv, DueInv, Owed
  <2>9. GraphFollowsRows'
    <3> SUFFICES ASSUME NEW n \in Nodes, due'[n] = "nothing"
                 PROVE  /\ n \in DOMAIN rows <=> n \in DOMAIN vertices
                        /\ n \in DOMAIN rows =>
                             \/ vertices'[n] = rows[n].kind
                             \/ vertices'[n] = "episodic" /\ object[rows[n].by].kind = "episodic"
      BY <2>3, <2>4 DEF GraphFollowsRows
    <3>1. CASE n \in moved \cap DOMAIN vertices
      BY <2>2, <2>4, <3>1 DEF IInv, DueInv
    <3>2. CASE n \notin moved \cap DOMAIN vertices
      BY <2>2, <2>4, <3>2 DEF IInv, GraphFollowsRows
    <3> QED
      BY <3>1, <3>2
  <2> QED
    BY <2>5, <2>6, <2>7, <2>8, <2>9 DEF IInv
<1>6. CASE ForgetVertices
  <2>1. /\ consolidating = "graphForget" /\ consolidating' = "idle" /\ forgotten' = {}
        /\ vertices' = Without(vertices, forgotten)
        /\ edges' = {l \in edges : {l[1], l[2]} \cap forgotten = {}}
        /\ Shows(forgotten, "removal")
        /\ UNCHANGED <<backends, age, object, local, rows, storing, linking, moved, querying,
                       ends, raced, gone>>
    BY <1>6 DEF ForgetVertices
  <2>2. /\ DOMAIN vertices' = DOMAIN vertices \ forgotten
        /\ \A x \in DOMAIN vertices \ forgotten : vertices'[x] = vertices[x]
        /\ vertices' \in [DOMAIN vertices' -> {"working", "episodic"}]
    BY <2>1 DEF Without, Restrict, IInv, TypeOK
  <2>3. /\ due' \in [Nodes -> Owed \cup Stores]
        /\ \A n \in Nodes \ forgotten : due'[n] = due[n]
        /\ \A n \in Nodes \cap forgotten :
             /\ due'[n] = "nothing" => due[n] = "removal"
             /\ due'[n] \notin {"nothing", "overwritten"} => due'[n] = due[n]
    <3>1. "removal" \in Owed \cup Stores
      BY DEF Owed
    <3> QED
      BY <1>1, <2>1, <3>1, ShowsFacts
  <2>4. UNCHANGED <<pool, driver, faults, age, object, local, rows, storing, linking, moved,
                    querying, ends, raced, gone>>
    BY <2>1 DEF backends
  <2>5. forgotten \subseteq gone
    BY <2>1 DEF IInv, CarriedInv
  <2>6. TypeOK'
    <3>1. edges' \subseteq Links \cap ((DOMAIN vertices') \X (DOMAIN vertices'))
      BY <2>1, <2>2, LinkEnds DEF IInv, TypeOK
    <3> QED
      BY <2>1, <2>2, <2>3, <2>4, <3>1 DEF IInv, TypeOK
  <2>7. OwnerInv' /\ BackendInv' /\ CarriedInv'
    BY <2>1, <2>2, <2>4, <2>5 DEF IInv, OwnerInv, BackendInv, CarriedInv
  <2>8. ASSUME NEW l \in Links PROVE LinkInv(l)'
    BY <2>1, <2>2, <2>4, <2>5 DEF IInv, LinkInv, LinkInFlight
  <2>9. DueInv'
    BY <1>1, <2>3, <2>4, StoresAssumption DEF IInv, DueInv, Owed
  <2>10. GraphFollowsRows'
    <3> SUFFICES ASSUME NEW n \in Nodes, due'[n] = "nothing"
                 PROVE  /\ n \in DOMAIN rows <=> n \in DOMAIN vertices'
                        /\ n \in DOMAIN rows =>
                             \/ vertices'[n] = rows[n].kind
                             \/ vertices'[n] = "episodic" /\ object[rows[n].by].kind = "episodic"
      BY <2>4 DEF GraphFollowsRows
    <3>1. CASE n \in forgotten
      BY <2>2, <2>3, <3>1 DEF IInv, DueInv
    <3>2. CASE n \notin forgotten
      BY <2>2, <2>3, <3>2 DEF IInv, GraphFollowsRows
    <3> QED
      BY <3>1, <3>2
  <2> QED
    BY <2>6, <2>7, <2>8, <2>9, <2>10 DEF IInv
<1>7. CASE ConsolidateFails
  <2>1. /\ consolidating' = "idle" /\ moved' = {} /\ forgotten' = {} /\ Fault
        /\ UNCHANGED <<reached, age, object, local, rows, graph, storing, linking, querying,
                       history>>
    BY <1>7 DEF ConsolidateFails
  <2>2. faults' \in 0..MaxFaults
    BY <1>1, <2>1, FaultCount
  <2> USE <2>1, <2>2 DEF reached, graph, history
  <2>3. TypeOK' /\ OwnerInv' /\ BackendInv' /\ CarriedInv'
    BY DEF IInv, TypeOK, OwnerInv, BackendInv, CarriedInv
  <2>4. (\A l \in Links : LinkInv(l)') /\ DueInv' /\ GraphFollowsRows'
    BY DEF IInv, LinkInv, LinkInFlight, DueInv, GraphFollowsRows
  <2> QED
    BY <2>3, <2>4 DEF IInv
<1> QED
  BY <1>2, <1>3, <1>4, <1>5, <1>6, <1>7

\* Queries, the time, and restarts.
LEMMA OtherStep ==
  ASSUME IInv,
         \/ \E S \in SUBSET Untouched(rows) : QueryRows(S)
         \/ TouchRows
         \/ \E S \in SUBSET Untouched(Remembered) : QueryLocally(S)
         \/ \E r \in Stores : Age(r)
         \/ Crash
  PROVE  IInv'
<1>1. Table(rows) /\ DOMAIN rows \subseteq Nodes /\ querying \subseteq Nodes
  BY DEF IInv, TypeOK, Table
<1>2. ASSUME NEW S \in SUBSET Untouched(rows), QueryRows(S) PROVE IInv'
  <2>1. /\ querying' = S
        /\ UNCHANGED <<backends, age, object, local, rows, graph, storing, linking, cleaning,
                       history>>
    BY <1>2 DEF QueryRows
  <2>2. S \subseteq Nodes
    BY <1>1 DEF Untouched
  <2> USE <2>1, <2>2 DEF backends, graph, cleaning, history
  <2>3. TypeOK'
    BY <1>1 DEF IInv, TypeOK
  <2>4. OwnerInv' /\ BackendInv' /\ CarriedInv' /\ DueInv' /\ GraphFollowsRows'
    BY DEF IInv, OwnerInv, BackendInv, CarriedInv, DueInv, GraphFollowsRows
  <2>5. \A l \in Links : LinkInv(l)'
    BY DEF IInv, LinkInv, LinkInFlight
  <2> QED
    BY <2>3, <2>4, <2>5 DEF IInv
<1>3. CASE TouchRows
  <2>1. /\ rows' = rows \/ rows' = Touched(rows, querying)
        /\ querying' = {}
        /\ UNCHANGED <<backends, age, object, local, graph, storing, linking, cleaning, history>>
    BY <1>3 DEF TouchRows
  <2>2. /\ Table(rows') /\ DOMAIN rows' = DOMAIN rows
        /\ \A x \in DOMAIN rows : /\ rows'[x].by = rows[x].by
                                  /\ rows'[x].kind = rows[x].kind
                                  /\ rows'[x].parents = rows[x].parents
                                  /\ rows'[x].children = rows[x].children
    BY <1>1, <2>1, TouchedFacts
  <2>3. UNCHANGED <<backends, age, object, local, graph, storing, linking, cleaning, history>>
        /\ querying' = {}
    BY <2>1
  <2> USE <2>2, <2>3 DEF backends, graph, cleaning, history
  <2>4. TypeOK'
    BY DEF IInv, TypeOK
  <2>5. OwnerInv' /\ BackendInv' /\ CarriedInv' /\ DueInv' /\ GraphFollowsRows'
    BY DEF IInv, OwnerInv, BackendInv, CarriedInv, DueInv, GraphFollowsRows
  <2>6. \A l \in Links : LinkInv(l)'
    BY DEF IInv, LinkInv, LinkInFlight
  <2> QED
    BY <2>4, <2>5, <2>6 DEF IInv
<1>4. ASSUME NEW S, QueryLocally(S) PROVE IInv'
  <2>1. /\ object' = [r \in Stores |-> object'[r]]
        /\ \A r \in Stores : \/ object'[r] = object[r]
                             \/ object'[r] = [object[r] EXCEPT !.used = TRUE]
        /\ UNCHANGED <<backends, age, local, rows, graph, storing, linking, cleaning, querying,
                       history>>
    BY <1>4 DEF QueryLocally
  <2>2. object' \in [Stores -> Node] /\ Grows(object, object')
    BY <2>1, ObjectsGrow
  <2>3. UNCHANGED <<pool, driver, faults, age, local, rows, vertices, edges, storing, linking,
                    consolidating, moved, forgotten, querying, ends, raced, gone, due>>
    BY <2>1 DEF backends, graph, cleaning, history
  <2>4. TypeOK'
    BY <2>2, <2>3 DEF IInv, TypeOK, Grows
  <2>5. OwnerInv' /\ BackendInv' /\ CarriedInv'
    BY <2>3 DEF IInv, OwnerInv, BackendInv, CarriedInv
  <2>6. ASSUME NEW l \in Links PROVE LinkInv(l)'
    <3>1. LinkInv(l) /\ ends[l] \subseteq Stores
      BY DEF IInv, TypeOK
    <3> QED
      BY <2>2, <2>3, <3>1 DEF LinkInv, LinkInFlight, Grows
  <2>7. DueInv' /\ GraphFollowsRows'
    BY <1>1, <2>2, <2>3, TableEntries DEF IInv, DueInv, GraphFollowsRows, Grows, Node
  <2> QED
    BY <2>4, <2>5, <2>6, <2>7 DEF IInv
<1>5. ASSUME NEW r \in Stores, Age(r) PROVE IInv'
  <2>1. /\ \E a \in {"hour", "day"} : age' = [age EXCEPT ![r] = a]
        /\ UNCHANGED <<backends, object, local, rows, graph, storing, linking, cleaning,
                       querying, history>>
    BY <1>5 DEF Age
  <2>2. age' \in [Stores -> {"fresh", "hour", "day"}]
    BY <2>1 DEF IInv, TypeOK
  <2>3. UNCHANGED <<pool, driver, faults, object, local, rows, vertices, edges, storing, linking,
                    consolidating, moved, forgotten, querying, ends, raced, gone, due>>
    BY <2>1 DEF backends, graph, cleaning, history
  <2>4. TypeOK'
    BY <2>2, <2>3 DEF IInv, TypeOK
  <2>5. OwnerInv' /\ BackendInv' /\ CarriedInv' /\ DueInv' /\ GraphFollowsRows'
    BY <2>3 DEF IInv, OwnerInv, BackendInv, CarriedInv, DueInv, GraphFollowsRows
  <2>6. \A l \in Links : LinkInv(l)'
    BY <2>3 DEF IInv, LinkInv, LinkInFlight
  <2> QED
    BY <2>4, <2>5, <2>6 DEF IInv
<1>6. CASE Crash
  <2>1. /\ Fault /\ pool' \in BOOLEAN /\ driver' \in BOOLEAN
        /\ local' = Empty
        /\ storing' = [r \in Stores |-> IF StoreInFlight(r) THEN "failed" ELSE storing[r]]
        /\ linking' = [l \in Links |-> IF LinkInFlight(l) THEN "failed" ELSE linking[l]]
        /\ consolidating' = "idle" /\ moved' = {} /\ forgotten' = {}
        /\ querying' = {}
        /\ UNCHANGED <<age, object, rows, graph, history>>
    BY <1>6 DEF Crash
  <2>2. DOMAIN local' = {} /\ local' \in [DOMAIN local' -> Stores]
    BY <2>1 DEF Empty
  <2>3. /\ storing \in [Stores -> {"idle", "rows", "graph", "answered", "failed"}]
        /\ linking \in [Links -> {"idle", "parent", "child", "edge", "answered", "failed"}]
        /\ faults \in 0..MaxFaults
    BY DEF IInv, TypeOK
  <2>4. faults' \in 0..MaxFaults
    BY <2>1, <2>3, FaultCount
  <2>5. UNCHANGED <<age, object, rows, vertices, edges, ends, raced, gone, due>>
    BY <2>1 DEF graph, history
  <2>6. /\ storing' \in [Stores -> {"idle", "rows", "graph", "answered", "failed"}]
        /\ \A r \in Stores : /\ storing'[r] \notin {"rows", "graph"}
                             /\ storing'[r] = "idle" => storing[r] = "idle"
    BY <2>1, <2>3 DEF StoreInFlight
  <2>7. /\ linking' \in [Links -> {"idle", "parent", "child", "edge", "answered", "failed"}]
        /\ \A l \in Links : linking'[l] \notin {"parent", "child", "edge"}
                            /\ (linking'[l] = "answered" => linking[l] = "answered")
    BY <2>1, <2>3 DEF LinkInFlight
  <2>8. TypeOK'
    BY <2>1, <2>2, <2>4, <2>5, <2>6, <2>7 DEF IInv, TypeOK
  <2>9. OwnerInv' /\ BackendInv' /\ CarriedInv'
    BY <1>1, <2>1, <2>2, <2>5, <2>6, TableEntries DEF IInv, OwnerInv, BackendInv, CarriedInv, Node
  <2>10. ASSUME NEW l \in Links PROVE LinkInv(l)'
    BY <2>5, <2>7 DEF IInv, LinkInv, LinkInFlight
  <2>11. DueInv' /\ GraphFollowsRows'
    BY <2>5 DEF IInv, DueInv, GraphFollowsRows
  <2> QED
    BY <2>8, <2>9, <2>10, <2>11 DEF IInv
<1> QED
  BY <1>2, <1>3, <1>4, <1>5, <1>6

LEMMA Invariance == Spec => []IInv
<1>1. IInv /\ [Next]_vars => IInv'
  <2> SUFFICES ASSUME IInv, [Next]_vars PROVE IInv'
    OBVIOUS
  <2>1. CASE UNCHANGED vars
    BY <2>1 DEF vars, backends, graph, cleaning, history, IInv, TypeOK, OwnerInv, BackendInv,
                LinkInv, LinkInFlight, DueInv, CarriedInv, GraphFollowsRows
  <2> QED
    BY <2>1, StoreStep, LinkStep, ConsolidationStep, OtherStep DEF Next
<1> QED
  BY <1>1, InitIInv, PTL DEF Spec

\* The stores keep their types, and no relationship of the graph loses an end.
THEOREM TypeCorrect == Spec => []TypeOK
<1>1. IInv => TypeOK
  BY DEF IInv
<1> QED
  BY <1>1, Invariance, PTL

\* An answered link stays in every row written from the nodes that were linked
\* and, if both nodes were in the graph when it was asked for, in the graph:
\* through repeated and late stores, failed requests, consolidations and
\* restarts.
THEOREM LinksSurvive == Spec => []AnsweredLinksAreStored
<1>1. IInv => AnsweredLinksAreStored
  BY DEF IInv, LinkInv, AnsweredLinksAreStored
<1> QED
  BY <1>1, Invariance, PTL

\* The graph follows the last change of each row that has come to it after all
\* others, whichever stores and consolidations made them, however many times.
THEOREM GraphIsTrue == Spec => []GraphFollowsRows
<1>1. IInv => GraphFollowsRows
  BY DEF IInv
<1> QED
  BY <1>1, Invariance, PTL
-----------------------------------------------------------------------------
\* Causal chains.  The search in memory is a recursive function; that it is
\* defined is shown along the depth that is left and the ids still to visit,
\* where no node names more than m parents.
Work(m, c) == (IF c.remaining < 0 THEN 0 ELSE c.remaining + 1) * (m + 1) + Len(c.todo)

LEMMA LeastOf ==
  ASSUME NEW T \in SUBSET Nat, T # {}
  PROVE  \E x \in T : \A y \in T : x <= y
<1>1. PICK x \in T : \A y \in T : ~ (<<y, x>> \in OpToRel(<, Nat))
  BY WFMin, NatLessThanWellFounded
<1>2. \A y \in T : ~ (y < x)
  BY <1>1 DEF OpToRel
<1> QED
  BY <1>2

LEMMA WorkType ==
  ASSUME NEW ids, NEW nodes, NEW m \in Nat, NEW c \in ChainStates(ids, nodes)
  PROVE  Work(m, c) \in Nat
<1>1. PICK k \in Nat : k = IF c.remaining < 0 THEN 0 ELSE c.remaining + 1
  BY DEF ChainStates
<1>2. Len(c.todo) \in Nat
  BY LenProperties DEF ChainStates
<1>3. k * (m + 1) \in Nat
  OBVIOUS
<1> QED
  BY <1>1, <1>2, <1>3 DEF Work

\* What a visit of the node n, and what the rest of the loop, begins with.
Below(parents, c, n) ==
  [todo |-> parents[n], remaining |-> c.remaining - 1, ordered |-> Append(c.ordered, n)]

Rest(c, o) == [todo |-> Tail(c.todo), remaining |-> c.remaining, ordered |-> o]

\* The parents of a node that is visited, and the rest of the loop, are less.
LEMMA ParentsAreLess ==
  ASSUME NEW ids, NEW nodes, NEW parents \in [nodes -> Seq(ids)], NEW m \in Nat,
         \A x \in nodes : Len(parents[x]) <= m,
         NEW c \in ChainStates(ids, nodes), c.todo # <<>>, NEW n \in nodes, c.remaining >= 0
  PROVE  /\ Below(parents, c, n) \in ChainStates(ids, nodes)
         /\ Work(m, Below(parents, c, n)) < Work(m, c)
<1>0. PICK e : e = Below(parents, c, n)
  OBVIOUS
<1>1. c.remaining \in Int /\ c.todo \in Seq(ids) /\ c.ordered \in Seq(nodes)
  BY DEF ChainStates
<1>2. e \in ChainStates(ids, nodes)
  BY <1>0, <1>1, AppendProperties DEF ChainStates, Below
<1>3. Len(parents[n]) \in Nat /\ Len(parents[n]) <= m /\ Len(c.todo) \in Nat
  BY <1>1, LenProperties
<1>4. PICK k \in Nat : k = c.remaining
  BY <1>1
<1>5. Work(m, c) = (k + 1) * (m + 1) + Len(c.todo) /\ Work(m, e) = k * (m + 1) + Len(parents[n])
  BY <1>0, <1>1, <1>4 DEF Work, Below
<1>6. (k + 1) * (m + 1) = k * (m + 1) + m + 1 /\ k * (m + 1) \in Nat
  OBVIOUS
<1>7. ASSUME NEW a \in Nat, NEW b \in Nat, NEW t \in Nat, b <= m PROVE a + b < a + m + 1 + t
  BY <1>7
<1> QED
  BY <1>0, <1>2, <1>3, <1>5, <1>6, <1>7

LEMMA TailIsLess ==
  ASSUME NEW ids, NEW nodes, NEW m \in Nat, NEW c \in ChainStates(ids, nodes), c.todo # <<>>,
         NEW o \in Seq(nodes)
  PROVE  Rest(c, o) \in ChainStates(ids, nodes) /\ Work(m, Rest(c, o)) < Work(m, c)
<1>0. PICK e : e = Rest(c, o)
  OBVIOUS
<1>1. c.remaining \in Int /\ c.todo \in Seq(ids)
  BY DEF ChainStates
<1>2. Tail(c.todo) \in Seq(ids) /\ Len(Tail(c.todo)) = Len(c.todo) - 1
  BY <1>1, HeadTailProperties
<1>3. e \in ChainStates(ids, nodes)
  BY <1>0, <1>1, <1>2 DEF ChainStates, Rest
<1>4. Len(c.todo) \in Nat
  BY <1>1, LenProperties
<1>5. PICK a : a = (IF c.remaining < 0 THEN 0 ELSE c.remaining + 1) * (m + 1)
  OBVIOUS
<1>6. a \in Nat
  <2>1. PICK k \in Nat : k = IF c.remaining < 0 THEN 0 ELSE c.remaining + 1
    BY <1>1
  <2>2. k * (m + 1) \in Nat
    OBVIOUS
  <2> QED
    BY <1>5, <2>1, <2>2
<1>7. Work(m, c) = a + Len(c.todo) /\ Work(m, e) = a + Len(Tail(c.todo))
  BY <1>0, <1>5 DEF Work, Rest
<1> QED
  BY <1>0, <1>2, <1>3, <1>4, <1>6, <1>7

\* Two searches answer alike for everything that is less work than c.
SameBelow(ids, nodes, m, c, g, h) ==
  \A e \in ChainStates(ids, nodes) :
    Work(m, e) < Work(m, c) => g[e] \in Seq(nodes) /\ h[e] = g[e]

\* One round of the search asks only for chains of less work.
LEMMA ChainRoundIsLocal ==
  ASSUME NEW ids, NEW nodes, NEW parents \in [nodes -> Seq(ids)], NEW m \in Nat,
         \A x \in nodes : Len(parents[x]) <= m,
         NEW g, NEW h, NEW c \in ChainStates(ids, nodes),
         SameBelow(ids, nodes, m, c, g, h)
  PROVE  /\ VisitParents(parents, g, c) \in Seq(nodes)
         /\ VisitParents(parents, h, c) = VisitParents(parents, g, c)
<1>0. c.ordered \in Seq(nodes) /\ c.todo \in Seq(ids) /\ c.remaining \in Int
  BY DEF ChainStates
<1>1. CASE c.todo = <<>>
  BY <1>0, <1>1 DEF VisitParents
<1>2. CASE c.todo # <<>>
  <2>1. PICK n : n = Head(c.todo)
    OBVIOUS
  <2>2. /\ VisitNode(parents, g, n, c.remaining, c.ordered) \in Seq(nodes)
        /\ VisitNode(parents, h, n, c.remaining, c.ordered)
             = VisitNode(parents, g, n, c.remaining, c.ordered)
    <3>1. CASE c.remaining < 0 \/ n \in ToSet(c.ordered) \/ n \notin DOMAIN parents
      BY <1>0, <3>1 DEF VisitNode
    <3>2. CASE ~ (c.remaining < 0 \/ n \in ToSet(c.ordered) \/ n \notin DOMAIN parents)
      <4>1. n \in nodes /\ c.remaining >= 0
        BY <1>0, <3>2
      <4>2. PICK e : e = Below(parents, c, n)
        OBVIOUS
      <4>3. e \in ChainStates(ids, nodes) /\ Work(m, e) < Work(m, c)
        BY <1>2, <4>1, <4>2, ParentsAreLess
      <4>4. /\ VisitNode(parents, g, n, c.remaining, c.ordered) = g[e]
            /\ VisitNode(parents, h, n, c.remaining, c.ordered) = h[e]
        BY <3>2, <4>2 DEF VisitNode, Below
      <4> QED
        BY <4>3, <4>4 DEF SameBelow
    <3> QED
      BY <3>1, <3>2
  <2>3. PICK o : o = VisitNode(parents, g, n, c.remaining, c.ordered)
    OBVIOUS
  <2>4. PICK e : e = Rest(c, o)
    OBVIOUS
  <2>5. e \in ChainStates(ids, nodes) /\ Work(m, e) < Work(m, c)
    BY <1>2, <2>2, <2>3, <2>4, TailIsLess
  <2>6. VisitParents(parents, g, c) = g[e] /\ VisitParents(parents, h, c) = h[e]
    BY <1>2, <2>1, <2>2, <2>3, <2>4 DEF VisitParents, Rest
  <2> QED
    BY <2>5, <2>6 DEF SameBelow
<1> QED
  BY <1>1, <1>2
\* Up to an amount n of work, the function g is what the chains are.
ChainUpTo(ids, nodes, parents, m, g, n) ==
  \A c \in ChainStates(ids, nodes) :
    Work(m, c) < n => g[c] \in Seq(nodes) /\ g[c] = VisitParents(parents, g, c)

LEMMA ChainsAgree ==
  ASSUME NEW ids, NEW nodes, NEW parents \in [nodes -> Seq(ids)], NEW m \in Nat,
         \A x \in nodes : Len(parents[x]) <= m, NEW n \in Nat,
         NEW g, ChainUpTo(ids, nodes, parents, m, g, n), NEW h, ChainUpTo(ids, nodes, parents, m, h, n)
  PROVE  \A c \in ChainStates(ids, nodes) : Work(m, c) < n => h[c] = g[c]
<1> DEFINE apart == {c \in ChainStates(ids, nodes) : Work(m, c) < n /\ h[c] # g[c]}
           works == {Work(m, c) : c \in apart}
<1> SUFFICES ASSUME apart # {} PROVE FALSE
  OBVIOUS
<1>1. works \in SUBSET Nat /\ works # {}
  BY WorkType
<1>2. PICK x \in works : \A y \in works : x <= y
  BY <1>1, LeastOf
<1>3. PICK c \in apart : x = Work(m, c)
  BY <1>2
<1>4. ASSUME NEW e \in ChainStates(ids, nodes), Work(m, e) < Work(m, c)
      PROVE  g[e] \in Seq(nodes) /\ h[e] = g[e]
  <2>1. Work(m, e) \in Nat /\ Work(m, c) \in Nat /\ Work(m, c) < n
    BY WorkType
  <2>2. Work(m, e) < n /\ ~ Work(m, c) <= Work(m, e)
    BY <1>4, <2>1
  <2>3. e \notin apart
    BY <1>2, <1>3, <2>2
  <2> QED
    BY <2>2, <2>3 DEF ChainUpTo
<1>5. VisitParents(parents, h, c) = VisitParents(parents, g, c)
  BY <1>4, ChainRoundIsLocal DEF SameBelow
<1> QED
  BY <1>5 DEF ChainUpTo

LEMMA ChainUpToExists ==
  ASSUME NEW ids, NEW nodes, NEW parents \in [nodes -> Seq(ids)], NEW m \in Nat,
         \A x \in nodes : Len(parents[x]) <= m
  PROVE  \A n \in Nat : \E g : ChainUpTo(ids, nodes, parents, m, g, n)
<1> DEFINE missing == {n \in Nat : ~ \E g : ChainUpTo(ids, nodes, parents, m, g, n)}
<1> SUFFICES ASSUME missing # {} PROVE FALSE
  OBVIOUS
<1>1. PICK n \in missing : \A k \in missing : n <= k
  <2>1. missing \in SUBSET Nat
    OBVIOUS
  <2> HIDE DEF missing
  <2> QED
    BY <2>1, LeastOf
<1>2. CASE n = 0
  <2>1. ChainUpTo(ids, nodes, parents, m, {}, 0)
    <3>1. \A c \in ChainStates(ids, nodes) : Work(m, c) \in Nat
      BY WorkType
    <3> QED
      BY <3>1 DEF ChainUpTo
  <2> QED
    BY <1>2, <2>1
<1>3. CASE n # 0
  <2>1. n - 1 \in Nat /\ ~ n <= n - 1
    BY <1>3
  <2>2. PICK g : ChainUpTo(ids, nodes, parents, m, g, n - 1)
    BY <1>1, <2>1
  <2> DEFINE next == [c \in ChainStates(ids, nodes) |-> VisitParents(parents, g, c)]
  <2>3. ASSUME NEW c \in ChainStates(ids, nodes), Work(m, c) < n
        PROVE  next[c] \in Seq(nodes) /\ next[c] = VisitParents(parents, next, c)
    <3>1. ASSUME NEW e \in ChainStates(ids, nodes), Work(m, e) < Work(m, c)
          PROVE  g[e] \in Seq(nodes) /\ next[e] = g[e]
      <4>1. Work(m, e) \in Nat /\ Work(m, c) \in Nat
        BY WorkType
      <4>2. Work(m, e) < n - 1
        BY <2>3, <3>1, <4>1
      <4> QED
        BY <2>2, <4>2 DEF ChainUpTo
    <3>2. next[c] = VisitParents(parents, g, c)
      OBVIOUS
    <3> HIDE DEF next
    <3>3. VisitParents(parents, g, c) \in Seq(nodes) /\ VisitParents(parents, next, c) = VisitParents(parents, g, c)
      BY <3>1, ChainRoundIsLocal DEF SameBelow
    <3> QED
      BY <3>2, <3>3
  <2> HIDE DEF next
  <2>4. ChainUpTo(ids, nodes, parents, m, next, n)
    BY <2>3 DEF ChainUpTo
  <2> QED
    BY <2>4
<1> QED
  BY <1>2, <1>3

LEMMA ChainIsDefined ==
  ASSUME NEW ids, NEW nodes, NEW parents \in [nodes -> Seq(ids)], NEW m \in Nat,
         \A x \in nodes : Len(parents[x]) <= m
  PROVE  \A c \in ChainStates(ids, nodes) : Chains(ids, parents)[c] = VisitParents(parents, Chains(ids, parents), c)
<1> DEFINE upTo(n) == CHOOSE g : ChainUpTo(ids, nodes, parents, m, g, n)
           all == [c \in ChainStates(ids, nodes) |-> upTo(Work(m, c) + 1)[c]]
<1>1. \A n \in Nat : ChainUpTo(ids, nodes, parents, m, upTo(n), n)
  BY ChainUpToExists
<1> HIDE DEF upTo
<1>2. ASSUME NEW c \in ChainStates(ids, nodes) PROVE all[c] = VisitParents(parents, all, c)
  <2>1. PICK n \in Nat : n = Work(m, c)
    BY WorkType
  <2>2. PICK g : g = upTo(n + 1)
    OBVIOUS
  <2>3. ChainUpTo(ids, nodes, parents, m, g, n + 1)
    BY <1>1, <2>2
  <2>4. ASSUME NEW e \in ChainStates(ids, nodes), Work(m, e) < Work(m, c)
        PROVE  g[e] \in Seq(nodes) /\ all[e] = g[e]
    <3>1. PICK k \in Nat : k = Work(m, e)
      BY WorkType
    <3>2. k < n + 1 /\ k + 1 <= n + 1 /\ k < k + 1
      BY <2>1, <2>4, <3>1
    <3>3. ChainUpTo(ids, nodes, parents, m, upTo(k + 1), k + 1)
      BY <1>1
    <3>4. ChainUpTo(ids, nodes, parents, m, g, k + 1)
      <4> SUFFICES ASSUME NEW f \in ChainStates(ids, nodes), Work(m, f) < k + 1
                   PROVE  g[f] \in Seq(nodes) /\ g[f] = VisitParents(parents, g, f)
        BY DEF ChainUpTo
      <4>1. Work(m, f) < n + 1
        BY <3>2, WorkType
      <4> QED
        BY <2>3, <4>1 DEF ChainUpTo
    <3>5. k + 1 \in Nat
      OBVIOUS
    <3>6. g[e] = upTo(k + 1)[e]
      BY <3>1, <3>2, <3>3, <3>4, <3>5, ChainsAgree
    <3> QED
      BY <2>3, <3>1, <3>2, <3>6 DEF ChainUpTo
  <2>5. all[c] = g[c] /\ g[c] = VisitParents(parents, g, c)
    BY <2>1, <2>2, <2>3 DEF ChainUpTo
  <2> HIDE DEF all
  <2>6. VisitParents(parents, all, c) = VisitParents(parents, g, c)
    BY <2>4, ChainRoundIsLocal DEF SameBelow
  <2> QED
    BY <2>5, <2>6
<1>3. all = [c \in ChainStates(ids, nodes) |-> VisitParents(parents, all, c)]
  <2>1. all = [c \in ChainStates(ids, nodes) |-> all[c]]
    OBVIOUS
  <2> HIDE DEF all
  <2> QED
    BY <1>2, <2>1
<1> HIDE DEF all
<1>4. DOMAIN parents = nodes
  OBVIOUS
<1>5. Chains(ids, parents) = CHOOSE s : s = [c \in ChainStates(ids, nodes) |-> VisitParents(parents, s, c)]
  BY <1>4 DEF Chains
<1>6. Chains(ids, parents) = [c \in ChainStates(ids, nodes) |-> VisitParents(parents, Chains(ids, parents), c)]
  BY <1>3, <1>5
<1> QED
  BY <1>6

LEMMA ChainType ==
  ASSUME NEW ids, NEW nodes, NEW parents \in [nodes -> Seq(ids)], NEW m \in Nat,
         \A x \in nodes : Len(parents[x]) <= m
  PROVE  \A c \in ChainStates(ids, nodes) : Chains(ids, parents)[c] \in Seq(nodes)
<1> DEFINE bad == {c \in ChainStates(ids, nodes) : Chains(ids, parents)[c] \notin Seq(nodes)}
           works == {Work(m, c) : c \in bad}
<1> SUFFICES ASSUME bad # {} PROVE FALSE
  OBVIOUS
<1>1. works \in SUBSET Nat /\ works # {}
  BY WorkType
<1>2. PICK x \in works : \A y \in works : x <= y
  BY <1>1, LeastOf
<1>3. PICK c \in bad : x = Work(m, c)
  BY <1>2
<1>4. ASSUME NEW e \in ChainStates(ids, nodes), Work(m, e) < Work(m, c)
      PROVE  Chains(ids, parents)[e] \in Seq(nodes)
  <2>1. ~ Work(m, c) <= Work(m, e)
    BY <1>4, WorkType
  <2> QED
    BY <1>2, <1>3, <2>1
<1>5. VisitParents(parents, Chains(ids, parents), c) \in Seq(nodes)
  BY <1>4, ChainRoundIsLocal DEF SameBelow
<1> QED
  BY <1>5, ChainIsDefined

\* Good steps: they wait for good steps only, and not for each other.
-----------------------------------------------------------------------------
LEMMA ElementsOf ==
  ASSUME NEW S, NEW s \in Seq(S)
  PROVE  /\ ToSet(s) \subseteq S
         /\ s # <<>> => ToSet(s) = {Head(s)} \cup ToSet(Tail(s))
<1>1. /\ Len(s) \in Nat /\ DOMAIN s = 1..Len(s)
      /\ \A i \in 1..Len(s) : s[i] \in S
  BY LenProperties, ElementOfSeq
<1>2. ASSUME s # <<>> PROVE ToSet(s) = {Head(s)} \cup ToSet(Tail(s))
  <2>1. PICK t : t = Tail(s)
    OBVIOUS
  <2>2. /\ t \in Seq(S) /\ Len(t) = Len(s) - 1
        /\ \A i \in 1..Len(t) : t[i] = s[i + 1]
    BY <1>2, <2>1, HeadTailProperties
  <2>3. Len(s) \in Nat \ {0} /\ DOMAIN t = 1..Len(s) - 1 /\ Head(s) = s[1]
    BY <1>1, <1>2, <2>2, EmptySeq, LenProperties
  <2>4. \A i \in 1..Len(s) - 1 : i + 1 \in 1..Len(s) /\ t[i] = s[i + 1]
    BY <2>2, <2>3
  <2>5. \A i \in 1..Len(s) : i = 1 \/ (i - 1 \in 1..Len(s) - 1 /\ s[i] = t[i - 1])
    <3>1. \A i \in 1..Len(s) : i = 1 \/ (i - 1 \in 1..Len(s) - 1 /\ (i - 1) + 1 = i)
      BY <2>3
    <3> QED
      BY <2>4, <3>1
  <2>6. 1 \in 1..Len(s)
    BY <2>3
  <2>7. ASSUME NEW x \in ToSet(s) PROVE x \in {Head(s)} \cup ToSet(t)
    <3>1. PICK i \in 1..Len(s) : x = s[i]
      BY <1>1 DEF ToSet
    <3>2. PICK j : j = i - 1
      OBVIOUS
    <3>3. i = 1 \/ (j \in DOMAIN t /\ s[i] = t[j])
      BY <2>3, <2>5, <3>2
    <3> QED
      BY <2>3, <3>1, <3>3 DEF ToSet
  <2>8. ASSUME NEW x \in {Head(s)} \cup ToSet(t) PROVE x \in ToSet(s)
    <3>1. CASE x = Head(s)
      BY <1>1, <2>3, <2>6, <3>1 DEF ToSet
    <3>2. CASE x \in ToSet(t)
      <4>1. PICK i \in 1..Len(s) - 1 : x = t[i]
        BY <2>3, <3>2 DEF ToSet
      <4>2. PICK j : j = i + 1
        OBVIOUS
      <4>3. j \in DOMAIN s /\ x = s[j]
        BY <1>1, <2>4, <4>1, <4>2
      <4> QED
        BY <4>3 DEF ToSet
    <3> QED
      BY <2>8, <3>1, <3>2
  <2> QED
    BY <2>1, <2>7, <2>8
<1> QED
  BY <1>1, <1>2 DEF ToSet

LEMMA OneMoreNode ==
  ASSUME NEW S, NEW s \in Seq(S), NEW x \in S
  PROVE  /\ ToSet(Append(s, x)) = ToSet(s) \cup {x}
         /\ IsInjective(s) /\ x \notin ToSet(s) => IsInjective(Append(s, x))
<1>1. PICK t : t = Append(s, x)
  OBVIOUS
<1>2. /\ Len(s) \in Nat /\ DOMAIN s = 1..Len(s) /\ DOMAIN t = 1..Len(s) + 1
      /\ \A i \in 1..Len(s) : t[i] = s[i]
      /\ t[Len(s) + 1] = x
  BY <1>1, LenProperties, AppendProperties
<1>3. \A i \in 1..Len(s) + 1 : i \in 1..Len(s) \/ i = Len(s) + 1
  BY <1>2
<1>4. Len(s) + 1 \in 1..Len(s) + 1 /\ \A i \in 1..Len(s) : i \in 1..Len(s) + 1
  BY <1>2
<1>5. ToSet(t) = ToSet(s) \cup {x}
  BY <1>2, <1>3, <1>4 DEF ToSet
<1>6. ASSUME IsInjective(s), x \notin ToSet(s) PROVE IsInjective(t)
  BY <1>2, <1>3, <1>6 DEF IsInjective, ToSet
<1> QED
  BY <1>1, <1>5, <1>6

LEMMA ReachIsMonotonic ==
  ASSUME NEW nodes, NEW caused, NEW start, NEW n, NEW d \in Int, NEW e \in Int, d <= e,
         WithinReach(nodes, caused, start, n, d)
  PROVE  WithinReach(nodes, caused, start, n, e)
<1>1. \A k \in 0..d : k \in 0..e
  OBVIOUS
<1> QED
  BY <1>1 DEF WithinReach

LEMMA ParentIsNear ==
  ASSUME NEW nodes, NEW caused, NEW start, NEW n, NEW d \in Int,
         WithinReach(nodes, caused, start, n, d), NEW p \in nodes, <<p, n>> \in caused
  PROVE  WithinReach(nodes, caused, start, p, d + 1)
<1>1. PICK k \in 0..d : \E path \in [0..k -> nodes] :
        /\ path[0] = start /\ path[k] = n
        /\ \A i \in 1..k : <<path[i], path[i - 1]>> \in caused
  BY DEF WithinReach
<1>2. PICK path \in [0..k -> nodes] :
        /\ path[0] = start /\ path[k] = n
        /\ \A i \in 1..k : <<path[i], path[i - 1]>> \in caused
  BY <1>1
<1> DEFINE longer == [i \in 0..k + 1 |-> IF i = k + 1 THEN p ELSE path[i]]
<1>3. k + 1 \in 0..d + 1 /\ k \in Nat
  BY <1>1
<1>4. \A i \in 0..k + 1 : i = k + 1 \/ i \in 0..k
  BY <1>3
<1>5. longer \in [0..k + 1 -> nodes]
  BY <1>4
<1>6. longer[0] = start /\ longer[k + 1] = p /\ \A i \in 0..k : longer[i] = path[i]
  <2>1. 0 \in 0..k /\ k + 1 \in 0..k + 1 /\ \A i \in 0..k : i \in 0..k + 1 /\ i # k + 1
    BY <1>3
  <2> QED
    BY <1>2, <2>1
<1>7. ASSUME NEW i \in 1..k + 1 PROVE <<longer[i], longer[i - 1]>> \in caused
  <2>1. CASE i = k + 1
    <3>1. i - 1 = k /\ k \in 0..k
      BY <1>3, <2>1
    <3> HIDE DEF longer
    <3> QED
      BY <1>2, <1>6, <2>1, <3>1
  <2>2. CASE i # k + 1
    <3>1. i \in 1..k /\ i \in 0..k /\ i - 1 \in 0..k
      BY <1>3, <2>2
    <3> HIDE DEF longer
    <3> QED
      BY <1>2, <1>6, <3>1
  <2> QED
    BY <2>1, <2>2
<1> HIDE DEF longer
<1> QED
  BY <1>3, <1>5, <1>6, <1>7 DEF WithinReach

\* What a chain r that is found from c promises: it is c.ordered and more, with
\* no node twice; it holds only nodes within reach, if that is where the search
\* was; and, when the depth left is enough for every node not yet visited, it
\* holds what was to visit, and with each new node its parents.
Grown(c, r) ==
  /\ ToSet(c.ordered) \subseteq ToSet(r)
  /\ IsInjective(c.ordered) => IsInjective(r)

AllNear(nodes, caused, start, S, d) == \A n \in S : WithinReach(nodes, caused, start, n, d)

StaysNear(nodes, caused, start, depth, c, r) ==
  /\ c.remaining <= depth
  /\ AllNear(nodes, caused, start, ToSet(c.ordered), depth)
  /\ AllNear(nodes, caused, start, ToSet(c.todo) \cap nodes, depth - c.remaining)
  => AllNear(nodes, caused, start, ToSet(r), depth)

DeepEnough(nodes, c) == Cardinality(nodes \ ToSet(c.ordered)) <= c.remaining + 1

Closed(nodes, parents, new, S) == \A n \in new : ToSet(parents[n]) \cap nodes \subseteq S

Complete(nodes, parents, c, r) ==
  DeepEnough(nodes, c) =>
    /\ ToSet(c.todo) \cap nodes \subseteq ToSet(r)
    /\ Closed(nodes, parents, ToSet(r) \ ToSet(c.ordered), ToSet(r))

Means(nodes, parents, start, depth, c, r) ==
  /\ Grown(c, r)
  /\ StaysNear(nodes, EdgesOf(parents), start, depth, c, r)
  /\ Complete(nodes, parents, c, r)

\* The same of one visit.
VisitMeans(nodes, parents, start, depth, c, n, r) ==
  /\ Grown(c, r)
  /\ /\ c.remaining <= depth
     /\ AllNear(nodes, EdgesOf(parents), start, ToSet(c.ordered), depth)
     /\ AllNear(nodes, EdgesOf(parents), start, {n} \cap nodes, depth - c.remaining)
     => AllNear(nodes, EdgesOf(parents), start, ToSet(r), depth)
  /\ DeepEnough(nodes, c) =>
       /\ {n} \cap nodes \subseteq ToSet(r)
       /\ Closed(nodes, parents, ToSet(r) \ ToSet(c.ordered), ToSet(r))

LEMMA SkippedVisit ==
  ASSUME NEW nodes, IsFiniteSet(nodes), NEW ids, NEW parents \in [nodes -> Seq(ids)],
         NEW start, NEW depth \in Int, NEW c \in ChainStates(ids, nodes), NEW n,
         c.remaining < 0 \/ n \in ToSet(c.ordered) \/ n \notin nodes
  PROVE  VisitMeans(nodes, parents, start, depth, c, n, c.ordered)
<1>1. ASSUME DeepEnough(nodes, c), n \in nodes PROVE n \in ToSet(c.ordered)
  <2> SUFFICES ASSUME n \notin ToSet(c.ordered), c.remaining < 0 PROVE FALSE
    BY <1>1
  <2>1. PICK left : left = nodes \ ToSet(c.ordered)
    OBVIOUS
  <2>2. IsFiniteSet(left) /\ left # {}
    BY <1>1, <2>1, FS_Subset
  <2>3. Cardinality(left) \in Nat /\ Cardinality(left) # 0
    BY <2>2, FS_CardinalityType, FS_EmptySet
  <2>4. Cardinality(left) <= c.remaining + 1 /\ c.remaining \in Int
    BY <1>1, <2>1 DEF DeepEnough, ChainStates
  <2> QED
    BY <2>3, <2>4
<1> QED
  BY <1>1 DEF VisitMeans, Grown, Closed

LEMMA NewVisit ==
  ASSUME NEW nodes, IsFiniteSet(nodes), NEW ids, NEW parents \in [nodes -> Seq(ids)],
         NEW start, NEW depth \in Int, NEW c \in ChainStates(ids, nodes),
         NEW n \in nodes, n \notin ToSet(c.ordered), c.remaining >= 0,
         NEW r, Means(nodes, parents, start, depth, Below(parents, c, n), r)
  PROVE  VisitMeans(nodes, parents, start, depth, c, n, r)
<1>0. PICK b : b = Below(parents, c, n)
  OBVIOUS
<1>1. /\ c.ordered \in Seq(nodes) /\ c.remaining \in Int
      /\ b.todo = parents[n] /\ b.remaining = c.remaining - 1 /\ b.ordered = Append(c.ordered, n)
  BY <1>0 DEF ChainStates, Below
<1>2. /\ ToSet(b.ordered) = ToSet(c.ordered) \cup {n}
      /\ IsInjective(c.ordered) => IsInjective(b.ordered)
  BY <1>1, OneMoreNode
<1>3. Means(nodes, parents, start, depth, b, r)
  BY <1>0
<1>4. Grown(c, r) /\ n \in ToSet(r)
  BY <1>2, <1>3 DEF Means, Grown
<1>5. ASSUME c.remaining <= depth,
             AllNear(nodes, EdgesOf(parents), start, ToSet(c.ordered), depth),
             AllNear(nodes, EdgesOf(parents), start, {n} \cap nodes, depth - c.remaining)
      PROVE  AllNear(nodes, EdgesOf(parents), start, ToSet(r), depth)
  <2>1. PICK d \in Int : d = depth - c.remaining
    BY <1>1
  <2>2. d <= depth /\ d + 1 = depth - b.remaining /\ b.remaining <= depth
    BY <1>1, <1>5, <2>1
  <2>3. WithinReach(nodes, EdgesOf(parents), start, n, d)
    BY <1>5, <2>1 DEF AllNear
  <2>4. WithinReach(nodes, EdgesOf(parents), start, n, depth)
    BY <2>2, <2>3, ReachIsMonotonic
  <2>5. AllNear(nodes, EdgesOf(parents), start, ToSet(b.ordered), depth)
    BY <1>2, <1>5, <2>4 DEF AllNear
  <2>6. ASSUME NEW p \in ToSet(b.todo) \cap nodes
        PROVE  WithinReach(nodes, EdgesOf(parents), start, p, d + 1)
    <3>1. <<p, n>> \in EdgesOf(parents)
      BY <1>1 DEF EdgesOf
    <3> QED
      BY <2>3, <3>1, ParentIsNear
  <2>7. AllNear(nodes, EdgesOf(parents), start, ToSet(b.todo) \cap nodes, depth - b.remaining)
    BY <2>2, <2>6 DEF AllNear
  <2> QED
    BY <1>3, <2>2, <2>5, <2>7 DEF Means, StaysNear
<1>6. ASSUME DeepEnough(nodes, c)
      PROVE  Closed(nodes, parents, ToSet(r) \ ToSet(c.ordered), ToSet(r))
  <2>1. PICK left : left = nodes \ ToSet(c.ordered)
    OBVIOUS
  <2>2. IsFiniteSet(left) /\ n \in left /\ nodes \ ToSet(b.ordered) = left \ {n}
    BY <1>2, <2>1, FS_Subset
  <2>3. Cardinality(left) \in Nat /\ Cardinality(left \ {n}) = Cardinality(left) - 1
    BY <2>2, FS_RemoveElement, FS_CardinalityType
  <2>4. Cardinality(left) <= c.remaining + 1
    BY <1>6, <2>1 DEF DeepEnough
  <2>5. Cardinality(left \ {n}) <= (c.remaining - 1) + 1
    BY <1>1, <2>3, <2>4
  <2>6. DeepEnough(nodes, b)
    BY <1>1, <2>2, <2>5 DEF DeepEnough
  <2>7. /\ ToSet(parents[n]) \cap nodes \subseteq ToSet(r)
        /\ Closed(nodes, parents, ToSet(r) \ ToSet(b.ordered), ToSet(r))
    BY <1>1, <1>3, <2>6 DEF Means, Complete
  <2> QED
    BY <1>2, <2>7 DEF Closed
<1> QED
  BY <1>4, <1>5, <1>6 DEF VisitMeans

LEMMA LoopGoesOn ==
  ASSUME NEW nodes, IsFiniteSet(nodes), NEW ids, NEW parents \in [nodes -> Seq(ids)],
         NEW start, NEW depth \in Int, NEW c \in ChainStates(ids, nodes), c.todo # <<>>,
         NEW v \in Seq(nodes), VisitMeans(nodes, parents, start, depth, c, Head(c.todo), v),
         NEW r, Means(nodes, parents, start, depth, Rest(c, v), r)
  PROVE  Means(nodes, parents, start, depth, c, r)
<1>0. PICK q : q = Rest(c, v)
  OBVIOUS
<1>n. PICK n : n = Head(c.todo)
  OBVIOUS
<1>1. /\ c.ordered \in Seq(nodes) /\ c.remaining \in Int /\ c.todo \in Seq(ids)
      /\ q.todo = Tail(c.todo) /\ q.remaining = c.remaining /\ q.ordered = v
  BY <1>0 DEF ChainStates, Rest
<1>2. ToSet(c.todo) = {n} \cup ToSet(q.todo)
  BY <1>1, <1>n, ElementsOf
<1>3. /\ Means(nodes, parents, start, depth, q, r)
      /\ VisitMeans(nodes, parents, start, depth, c, n, v)
  BY <1>0, <1>n
<1>4. Grown(c, v) /\ Grown(q, r)
  BY <1>3 DEF Means, VisitMeans
<1>5. Grown(c, r) /\ ToSet(c.ordered) \subseteq ToSet(v) /\ ToSet(v) \subseteq ToSet(r)
  BY <1>1, <1>4 DEF Grown
<1>6. StaysNear(nodes, EdgesOf(parents), start, depth, c, r)
  <2> SUFFICES ASSUME c.remaining <= depth,
                      AllNear(nodes, EdgesOf(parents), start, ToSet(c.ordered), depth),
                      AllNear(nodes, EdgesOf(parents), start, ToSet(c.todo) \cap nodes,
                              depth - c.remaining)
               PROVE  AllNear(nodes, EdgesOf(parents), start, ToSet(r), depth)
    BY DEF StaysNear
  <2>1. /\ AllNear(nodes, EdgesOf(parents), start, {n} \cap nodes, depth - c.remaining)
        /\ AllNear(nodes, EdgesOf(parents), start, ToSet(q.todo) \cap nodes, depth - c.remaining)
    BY <1>2 DEF AllNear
  <2>2. AllNear(nodes, EdgesOf(parents), start, ToSet(q.ordered), depth)
    BY <1>1, <1>3, <2>1 DEF VisitMeans
  <2> QED
    BY <1>1, <1>3, <2>1, <2>2 DEF Means, StaysNear
<1>7. Complete(nodes, parents, c, r)
  <2> SUFFICES ASSUME DeepEnough(nodes, c)
               PROVE  /\ ToSet(c.todo) \cap nodes \subseteq ToSet(r)
                      /\ Closed(nodes, parents, ToSet(r) \ ToSet(c.ordered), ToSet(r))
    BY DEF Complete
  <2>1. /\ {n} \cap nodes \subseteq ToSet(v)
        /\ Closed(nodes, parents, ToSet(v) \ ToSet(c.ordered), ToSet(v))
    BY <1>3 DEF VisitMeans
  <2>2. DeepEnough(nodes, q)
    <3>1. PICK some, fewer : some = nodes \ ToSet(c.ordered) /\ fewer = nodes \ ToSet(q.ordered)
      OBVIOUS
    <3>2. IsFiniteSet(some) /\ fewer \subseteq some
      BY <1>1, <1>5, <3>1, FS_Subset
    <3>3. IsFiniteSet(fewer) /\ Cardinality(fewer) <= Cardinality(some)
      BY <3>2, FS_Subset
    <3>4. Cardinality(some) \in Nat /\ Cardinality(fewer) \in Nat
      BY <3>2, <3>3, FS_CardinalityType
    <3> QED
      BY <1>1, <3>1, <3>3, <3>4 DEF DeepEnough
  <2>3. /\ ToSet(q.todo) \cap nodes \subseteq ToSet(r)
        /\ Closed(nodes, parents, ToSet(r) \ ToSet(v), ToSet(r))
    BY <1>1, <1>3, <2>2 DEF Means, Complete
  <2> QED
    BY <1>2, <1>5, <2>1, <2>3 DEF Closed
<1> QED
  BY <1>5, <1>6, <1>7 DEF Means

LEMMA EveryChainMeans ==
  ASSUME NEW nodes, IsFiniteSet(nodes), NEW ids, NEW parents \in [nodes -> Seq(ids)],
         NEW m \in Nat, \A x \in nodes : Len(parents[x]) <= m,
         NEW start, NEW depth \in Int
  PROVE  \A c \in ChainStates(ids, nodes) :
           /\ Chains(ids, parents)[c] \in Seq(nodes)
           /\ Means(nodes, parents, start, depth, c, Chains(ids, parents)[c])
<1> DEFINE bad == {c \in ChainStates(ids, nodes) :
                     ~ Means(nodes, parents, start, depth, c, Chains(ids, parents)[c])}
           works == {Work(m, c) : c \in bad}
<1>1. \A c \in ChainStates(ids, nodes) : Chains(ids, parents)[c] \in Seq(nodes)
  BY ChainType
<1> SUFFICES ASSUME bad # {} PROVE FALSE
  BY <1>1
<1>2. works \in SUBSET Nat /\ works # {}
  BY WorkType
<1>3. PICK x \in works : \A y \in works : x <= y
  BY <1>2, LeastOf
<1>4. PICK c \in bad : x = Work(m, c)
  BY <1>3
<1>5. ASSUME NEW e \in ChainStates(ids, nodes), Work(m, e) < Work(m, c)
      PROVE  Means(nodes, parents, start, depth, e, Chains(ids, parents)[e])
  <2>1. Work(m, e) \in Nat /\ Work(m, c) \in Nat
    BY WorkType
  <2>2. ~ Work(m, c) <= Work(m, e)
    BY <1>5, <2>1
  <2> QED
    BY <1>3, <1>4, <2>2
<1>6. /\ c \in ChainStates(ids, nodes)
      /\ c.ordered \in Seq(nodes) /\ c.remaining \in Int /\ c.todo \in Seq(ids)
      /\ ~ Means(nodes, parents, start, depth, c, Chains(ids, parents)[c])
  BY <1>4 DEF ChainStates
<1> HIDE DEF bad, works
<1>7. PICK chain : chain = Chains(ids, parents)
  OBVIOUS
<1>8. chain[c] = VisitParents(parents, chain, c)
  BY <1>6, <1>7, ChainIsDefined
<1>9. CASE c.todo = <<>>
  <2>1. chain[c] = c.ordered
    BY <1>8, <1>9 DEF VisitParents
  <2>2. ToSet(c.todo) = {}
    BY <1>9 DEF ToSet
  <2>3. Means(nodes, parents, start, depth, c, c.ordered)
    BY <2>2 DEF Means, Grown, StaysNear, Complete, Closed
  <2> QED
    BY <1>6, <1>7, <2>1, <2>3
<1>10. CASE c.todo # <<>>
  <2>1. PICK n : n = Head(c.todo)
    OBVIOUS
  <2>2. PICK v : v = VisitNode(parents, chain, n, c.remaining, c.ordered)
    OBVIOUS
  <2>3. v \in Seq(nodes) /\ VisitMeans(nodes, parents, start, depth, c, n, v)
    <3>1. CASE c.remaining < 0 \/ n \in ToSet(c.ordered) \/ n \notin nodes
      <4>1. v = c.ordered
        BY <2>2, <3>1 DEF VisitNode
      <4> QED
        BY <1>6, <3>1, <4>1, SkippedVisit
    <3>2. CASE ~ (c.remaining < 0 \/ n \in ToSet(c.ordered) \/ n \notin nodes)
      <4>1. n \in nodes /\ n \notin ToSet(c.ordered) /\ c.remaining >= 0
        BY <1>6, <3>2
      <4>2. PICK b : b = Below(parents, c, n)
        OBVIOUS
      <4>3. b \in ChainStates(ids, nodes) /\ Work(m, b) < Work(m, c)
        BY <1>6, <1>10, <4>1, <4>2, ParentsAreLess
      <4>4. v = chain[b]
        BY <2>2, <3>2, <4>2 DEF VisitNode, Below
      <4>5. v \in Seq(nodes) /\ Means(nodes, parents, start, depth, Below(parents, c, n), v)
        BY <1>1, <1>5, <1>7, <4>2, <4>3, <4>4
      <4> QED
        BY <1>6, <4>1, <4>5, NewVisit
    <3> QED
      BY <3>1, <3>2
  <2>4. PICK q : q = Rest(c, v)
    OBVIOUS
  <2>5. q \in ChainStates(ids, nodes) /\ Work(m, q) < Work(m, c)
    BY <1>6, <1>10, <2>3, <2>4, TailIsLess
  <2>6. chain[c] = chain[q]
    BY <1>8, <1>10, <2>1, <2>2, <2>4 DEF VisitParents, Rest
  <2>7. Means(nodes, parents, start, depth, Rest(c, v), chain[c])
    BY <1>5, <1>7, <2>4, <2>5, <2>6
  <2>8. Means(nodes, parents, start, depth, c, chain[c])
    BY <1>6, <1>10, <2>1, <2>3, <2>7, LoopGoesOn
  <2> QED
    BY <1>6, <1>7, <2>8
<1> QED
  BY <1>9, <1>10

LEMMA FiniteIsBounded ==
  ASSUME NEW T \in SUBSET Nat, IsFiniteSet(T)
  PROVE  \E m \in Nat : \A k \in T : k <= m
<1> DEFINE Bound(U) == \E m \in Nat : \A k \in U : k <= m
           bad == {U \in SUBSET T : ~ Bound(U)}
           sizes == {Cardinality(U) : U \in bad}
<1> SUFFICES ASSUME bad # {} PROVE FALSE
  OBVIOUS
<1>1. \A U \in SUBSET T : IsFiniteSet(U) /\ Cardinality(U) \in Nat
  BY FS_Subset, FS_CardinalityType
<1>2. sizes \in SUBSET Nat /\ sizes # {}
  BY <1>1
<1>3. PICK n \in sizes : \A k \in sizes : n <= k
  BY <1>2, LeastOf
<1>4. PICK U \in SUBSET T : ~ Bound(U) /\ n = Cardinality(U)
  BY <1>3
<1>5. PICK x : x \in U
  BY <1>4
<1>6. Cardinality(U \ {x}) = Cardinality(U) - 1 /\ U \ {x} \in SUBSET T
  BY <1>1, <1>5, FS_RemoveElement
<1>7. Cardinality(U \ {x}) \in Nat /\ ~ n <= Cardinality(U \ {x})
  BY <1>1, <1>4, <1>6
<1>8. Bound(U \ {x})
  BY <1>3, <1>6, <1>7
<1>9. PICK m \in Nat : \A k \in U \ {x} : k <= m
  BY <1>8
<1>10. PICK b \in Nat : m <= b /\ x <= b
  <2>1. x \in Nat
    BY <1>5
  <2>2. m <= m + x /\ x <= m + x /\ m + x \in Nat
    BY <2>1
  <2> QED
    BY <2>2
<1>11. ASSUME NEW k \in U PROVE k <= b
  <2>1. k \in Nat /\ (k = x \/ k <= m)
    BY <1>9
  <2> QED
    BY <1>10, <2>1
<1> QED
  BY <1>4, <1>11

LEMMA MostParents ==
  ASSUME NEW nodes, IsFiniteSet(nodes), NEW ids, NEW parents \in [nodes -> Seq(ids)]
  PROVE  \E m \in Nat : \A n \in nodes : Len(parents[n]) <= m
<1> DEFINE lengths == {Len(parents[n]) : n \in nodes}
<1>1. lengths \in SUBSET Nat
  BY LenProperties
<1>2. IsFiniteSet(lengths)
  <2>1. [n \in nodes |-> Len(parents[n])] \in Surjection(nodes, lengths)
    BY DEF Surjection
  <2> QED
    BY <2>1, FS_Surjection
<1> HIDE DEF lengths
<1>4. PICK m \in Nat : \A k \in lengths : k <= m
  BY <1>1, <1>2, FiniteIsBounded
<1>5. ASSUME NEW n \in nodes PROVE Len(parents[n]) <= m
  <2>1. PICK k \in lengths : k = Len(parents[n])
    BY DEF lengths
  <2> QED
    BY <1>1, <1>4, <2>1
<1> QED
  BY <1>5

\* The search that starts: with its parents in the ids of LocalChain, it means
\* what every chain does.
LEMMA LocalChainMeans ==
  ASSUME NEW nodes, IsFiniteSet(nodes), NEW all, NEW parents \in [nodes -> Seq(all)],
         NEW start, NEW depth \in Int
  PROVE  \E c :
           /\ c = [todo |-> <<start>>, remaining |-> depth, ordered |-> <<>>]
           /\ LocalChain(parents, start, depth) \in Seq(nodes)
           /\ Means(nodes, parents, start, depth, c, LocalChain(parents, start, depth))
<1>1. PICK ids : ids = Ids(parents, start)
  OBVIOUS
<1>2. parents \in [nodes -> Seq(ids)]
  <2>1. ASSUME NEW n \in nodes PROVE parents[n] \in Seq(ids)
    <3>1. PICK s : s = parents[n]
      OBVIOUS
    <3>2. Len(s) \in Nat /\ s \in [1..Len(s) -> all]
      BY <3>1, LenProperties
    <3>3. ToSet(s) \subseteq ids
      BY <1>1, <3>1 DEF Ids
    <3>4. s \in [1..Len(s) -> ids]
      BY <3>2, <3>3 DEF ToSet
    <3>5. s \in Seq(ids)
      <4>1. PICK l \in Nat : l = Len(s)
        BY <3>2
      <4>2. s \in [1..l -> ids]
        BY <3>4, <4>1
      <4>3. s \in UNION {[1..i -> ids] : i \in Nat}
        BY <4>2
      <4> QED
        BY <4>3, SeqDef, Zenon
    <3> QED
      BY <3>1, <3>5
  <2> QED
    BY <2>1
<1>3. PICK m \in Nat : \A n \in nodes : Len(parents[n]) <= m
  BY MostParents
<1>4. PICK c : c = [todo |-> <<start>>, remaining |-> depth, ordered |-> <<>>]
  OBVIOUS
<1>5. c \in ChainStates(ids, nodes)
  <2>1. start \in ids
    BY <1>1 DEF Ids
  <2> QED
    BY <1>4, <2>1 DEF ChainStates
<1>6. LocalChain(parents, start, depth) = Chains(ids, parents)[c]
  BY <1>1, <1>4 DEF LocalChain
<1>7. /\ Chains(ids, parents)[c] \in Seq(nodes)
      /\ Means(nodes, parents, start, depth, c, Chains(ids, parents)[c])
  BY <1>2, <1>3, <1>5, EveryChainMeans
<1> QED
  BY <1>4, <1>6, <1>7

LEMMA Start ==
  ASSUME NEW start
  PROVE  ToSet(<<start>>) = {start} /\ ToSet(<<>>) = {} /\ IsInjective(<<>>)
<1>1. DOMAIN <<start>> = {1} /\ <<start>>[1] = start
  OBVIOUS
<1> QED
  BY <1>1 DEF ToSet, IsInjective

\* What the dictionary answers: nodes it holds, none twice, and only ancestors
\* within the depth; up to the limit of the query only what Neo4j would answer.
\* So it is for any nodes, parents in any order, cycles, and nodes forgotten.
THEOREM LocalChainIsSound ==
  ASSUME NEW nodes, IsFiniteSet(nodes), NEW ids, NEW parents \in [nodes -> Seq(ids)],
         NEW start, NEW depth \in Int
  PROVE  LET chain == LocalChain(parents, start, depth)
         IN  /\ chain \in Seq(nodes)
             /\ IsInjective(chain)
             /\ \A n \in ToSet(chain) : WithinReach(nodes, EdgesOf(parents), start, n, depth)
             /\ depth <= 10 =>
                  ToSet(chain) \subseteq GraphChain(nodes, EdgesOf(parents), start, depth)
<1>1. PICK chain : chain = LocalChain(parents, start, depth)
  OBVIOUS
<1>2. PICK c : /\ c = [todo |-> <<start>>, remaining |-> depth, ordered |-> <<>>]
               /\ chain \in Seq(nodes)
               /\ Means(nodes, parents, start, depth, c, chain)
  BY <1>1, LocalChainMeans
<1>3. /\ ToSet(c.todo) = {start} /\ ToSet(c.ordered) = {} /\ IsInjective(c.ordered)
      /\ c.remaining = depth /\ depth - c.remaining = 0
  BY <1>2, Start
<1>4. start \in nodes => WithinReach(nodes, EdgesOf(parents), start, start, 0)
  <2> SUFFICES ASSUME start \in nodes PROVE WithinReach(nodes, EdgesOf(parents), start, start, 0)
    OBVIOUS
  <2>1. PICK path : path = [i \in 0..0 |-> start]
    OBVIOUS
  <2>2. /\ path \in [0..0 -> nodes] /\ path[0] = start /\ 0 \in 0..0
        /\ \A i \in 1..0 : <<path[i], path[i - 1]>> \in EdgesOf(parents)
    BY <2>1
  <2> QED
    BY <2>2 DEF WithinReach
<1>5. \A n \in ToSet(chain) : WithinReach(nodes, EdgesOf(parents), start, n, depth)
  <2>1. /\ c.remaining <= depth
        /\ AllNear(nodes, EdgesOf(parents), start, ToSet(c.ordered), depth)
        /\ AllNear(nodes, EdgesOf(parents), start, ToSet(c.todo) \cap nodes, depth - c.remaining)
    BY <1>3, <1>4 DEF AllNear
  <2> QED
    BY <1>2, <2>1 DEF Means, StaysNear, AllNear
<1>6. IsInjective(chain)
  BY <1>2, <1>3 DEF Means, Grown
<1>7. ASSUME depth <= 10
      PROVE  ToSet(chain) \subseteq GraphChain(nodes, EdgesOf(parents), start, depth)
  <2>1. ToSet(chain) \subseteq nodes
    BY <1>2, ElementsOf
  <2>2. PICK safe \in Int : safe = IF depth < 0 THEN 0 ELSE IF depth > 10 THEN 10 ELSE depth
    OBVIOUS
  <2>3. depth <= safe
    BY <1>7, <2>2
  <2>4. \A n \in ToSet(chain) : WithinReach(nodes, EdgesOf(parents), start, n, safe)
    BY <1>5, <2>3, ReachIsMonotonic
  <2> QED
    BY <2>1, <2>2, <2>4 DEF GraphChain
<1> QED
  BY <1>1, <1>2, <1>5, <1>6, <1>7

\* A depth that no path without a repetition can exhaust hides nothing: then
\* the dictionary answers everything that Neo4j would, whatever it is asked for.
THEOREM DeepChainIsComplete ==
  ASSUME NEW nodes, IsFiniteSet(nodes), NEW ids, NEW parents \in [nodes -> Seq(ids)],
         NEW start, NEW depth \in Int, Cardinality(nodes) <= depth + 1, NEW d \in Int
  PROVE  GraphChain(nodes, EdgesOf(parents), start, d)
           \subseteq ToSet(LocalChain(parents, start, depth))
<1>1. PICK found : found = ToSet(LocalChain(parents, start, depth))
  OBVIOUS
<1>2. PICK c : /\ c = [todo |-> <<start>>, remaining |-> depth, ordered |-> <<>>]
               /\ Means(nodes, parents, start, depth, c, LocalChain(parents, start, depth))
  BY LocalChainMeans
<1>3. ToSet(c.todo) = {start} /\ ToSet(c.ordered) = {} /\ c.remaining = depth
  BY <1>2, Start
<1>4. DeepEnough(nodes, c)
  <2>1. nodes \ ToSet(c.ordered) = nodes
    BY <1>3
  <2> QED
    BY <1>3, <2>1 DEF DeepEnough
<1>5. {start} \cap nodes \subseteq found /\ \A n \in found : ToSet(parents[n]) \cap nodes \subseteq found
  BY <1>1, <1>2, <1>3, <1>4 DEF Means, Complete, Closed
<1>6. ASSUME NEW k \in Nat, NEW path \in [0..k -> nodes], path[0] = start,
             \A i \in 1..k : <<path[i], path[i - 1]>> \in EdgesOf(parents)
      PROVE  path[k] \in found
  <2> DEFINE missed == {i \in 0..k : path[i] \notin found}
  <2>0. k \in 0..k
    OBVIOUS
  <2> SUFFICES ASSUME missed # {} PROVE FALSE
    BY <2>0
  <2>1. missed \in SUBSET Nat
    OBVIOUS
  <2>2. PICK i \in missed : \A j \in missed : i <= j
    <3> HIDE DEF missed
    <3> QED
      BY <2>1, LeastOf
  <2>3. i # 0
    <3>1. 0 \in 0..k
      OBVIOUS
    <3> QED
      BY <1>5, <1>6, <2>2, <3>1
  <2>4. PICK j \in Nat : j = i - 1 /\ j \in 0..k /\ i \in 1..k /\ ~ i <= j
    BY <2>2, <2>3
  <2>5. path[j] \in found
    BY <2>2, <2>4
  <2>6. <<path[i], path[j]>> \in EdgesOf(parents)
    BY <1>6, <2>4
  <2>7. path[i] \in ToSet(parents[path[j]]) /\ path[i] \in nodes
    BY <2>4, <2>6 DEF EdgesOf
  <2> QED
    BY <1>5, <2>2, <2>5, <2>7
<1>7. ASSUME NEW n \in GraphChain(nodes, EdgesOf(parents), start, d) PROVE n \in found
  <2>1. PICK safe \in Int : WithinReach(nodes, EdgesOf(parents), start, n, safe)
    BY DEF GraphChain
  <2>2. PICK k \in 0..safe : \E path \in [0..k -> nodes] :
          /\ path[0] = start /\ path[k] = n
          /\ \A i \in 1..k : <<path[i], path[i - 1]>> \in EdgesOf(parents)
    BY <2>1 DEF WithinReach
  <2>3. PICK path \in [0..k -> nodes] :
          /\ path[0] = start /\ path[k] = n
          /\ \A i \in 1..k : <<path[i], path[i - 1]>> \in EdgesOf(parents)
    BY <2>2
  <2>4. k \in Nat
    BY <2>2
  <2> QED
    BY <1>6, <2>3, <2>4
<1> QED
  BY <1>1, <1>7
=============================================================================
