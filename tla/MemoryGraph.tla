---------------------------- MODULE MemoryGraph ----------------------------
(***************************************************************************)
(* The memory service.  MemoryGraph writes every node and causal link to   *)
(* its own dictionary, then to PostgreSQL, then to Neo4j, as far as it     *)
(* reached them at startup; the requests are handled concurrently, each    *)
(* call of a backend is an await, and a call that raises ends the request  *)
(* with a 500 where it is.  Nothing repairs what is half done but a retry: *)
(* a store of a node_id that is known overwrites the node, whether it is a *)
(* client's second attempt, an update, or a request that is late.          *)
(***************************************************************************)
EXTENDS Naturals, Functions

CONSTANTS
  Nodes,         \* node_ids
  Stores,        \* the POST store requests, each with a MemoryNode of its own
  Target,        \* Target[r]: its node_id
  MemoryType,    \* MemoryType[r]: its memory_type, "working" or "episodic" (any other)
  Unimportant,   \* those with an importance_score below 0.2 and an access_count of 0
  Links,         \* causal links clients ask for, <<parent, child>>
  MaxFaults      \* bound on the calls that raise and the restarts of the service

ASSUME MemoryAssumption ==
  /\ Target \in [Stores -> Nodes]
  /\ MemoryType \in [Stores -> {"working", "episodic"}]
  /\ Unimportant \subseteq Stores
  /\ Links \subseteq {l \in Nodes \X Nodes : l[1] # l[2]}
  /\ MaxFaults \in Nat

\* What the graph may be owed of a node, but for a store.
Owed == {"nothing", "promotion", "removal", "overwritten"}

ASSUME StoresAssumption == Stores \cap Owed = {}

VARIABLES
  pool,          \* whether PostgreSQL was reached at startup
  driver,        \* whether Neo4j was
  age,           \* of the timestamp of each request's node: "fresh", "hour" or "day"
  object,        \* the MemoryNode of each request
  local,         \* InMemoryMemoryRepository.nodes: the request whose object it holds
  rows,          \* the table memory_nodes; "by" is the request that wrote the row
  vertices,      \* memory_type of the Memory nodes of Neo4j
  edges,         \* the CAUSED relationships
  storing,       \* where each store request is
  linking,       \* where the present request for each link is
  consolidating, \* where the consolidation is
  moved,         \* promoted_rows of it
  forgotten,     \* forgotten_rows of it
  querying,      \* the nodes a query has fetched and not yet touched
  faults,        \* calls that raised and restarts so far
  ends,          \* history: the objects the last request for a link has linked
  raced,         \* history: links not asked for between two nodes of the graph
  gone,          \* history: nodes deleted from the table
  due            \* history: the change of a node's row the graph is to see last

backends == <<pool, driver, faults>>
reached == <<pool, driver>>
graph == <<vertices, edges>>
cleaning == <<consolidating, moved, forgotten>>
history == <<ends, raced, gone, due>>
vars == <<backends, age, object, local, rows, graph, storing, linking, cleaning,
          querying, history>>

Empty == [n \in {} |-> n]
NewNode(r) == [by |-> r, kind |-> MemoryType[r], used |-> FALSE, parents |-> {},
               children |-> {}]
Put(f, n, v) == [x \in DOMAIN f \cup {n} |-> IF x = n THEN v ELSE f[x]]
Without(f, S) == Restrict(f, DOMAIN f \ S)

\* The dictionary with its nodes in place of the references to them.
Remembered == [n \in DOMAIN local |-> object[local[n]]]

\* A change comes to the vertices of S: the one that is due, or an older one.
Shows(S, change) ==
  due' = [n \in Nodes |-> IF n \notin S THEN due[n]
                          ELSE IF due[n] = change THEN "nothing"
                          ELSE IF due[n] = "nothing" THEN "overwritten" ELSE due[n]]

Init ==
  /\ pool \in BOOLEAN /\ driver \in BOOLEAN /\ faults = 0
  /\ age = [r \in Stores |-> "fresh"]
  /\ object = [r \in Stores |-> NewNode(r)]
  /\ local = Empty /\ rows = Empty
  /\ vertices = Empty /\ edges = {}
  /\ storing = [r \in Stores |-> "idle"]
  /\ linking = [l \in Links |-> "idle"]
  /\ consolidating = "idle" /\ moved = {} /\ forgotten = {}
  /\ querying = {}
  /\ ends = [l \in Links |-> {}] /\ raced = {}
  /\ gone = {} /\ due = [n \in Nodes |-> "nothing"]

StoreInFlight(r) == storing[r] \in {"rows", "graph"}
LinkInFlight(l) == linking[l] \in {"parent", "child", "edge"}
Fault == faults < MaxFaults /\ faults' = faults + 1
Counted(stage) == IF stage = "failed" THEN Fault ELSE UNCHANGED faults
StoreGoesTo(r, stage) == storing' = [storing EXCEPT ![r] = stage] /\ Counted(stage)
Proceeds(l, stage) == linking' = [linking EXCEPT ![l] = stage]
AfterRows(stage) == IF driver THEN stage ELSE "answered"
-----------------------------------------------------------------------------
\* POST store: InMemoryMemoryRepository.store_memory, whatever the dictionary
\* holds under the node_id.
StoreLocally(r) ==
  /\ storing[r] = "idle"
  /\ local' = Put(local, Target[r], r)
  /\ StoreGoesTo(r, IF pool THEN "rows" ELSE AfterRows("graph"))
  /\ UNCHANGED <<reached, age, object, rows, graph, linking, cleaning, querying, history>>

\* _store_postgres inserts or overwrites the row.  It writes the request's node
\* as it is by now: with the links and the promotion it got in memory meanwhile,
\* and without those of a node that has replaced it there.  The call may raise
\* although the row is there.
InsertRow(r) ==
  /\ storing[r] = "rows"
  /\ rows' = Put(rows, Target[r], object[r])
  /\ due' = [due EXCEPT ![Target[r]] = r]
  /\ \E stage \in {AfterRows("graph"), "failed"} : StoreGoesTo(r, stage)
  /\ UNCHANGED <<reached, age, object, local, graph, linking, cleaning, querying, ends,
                 raced, gone>>

\* Mutant of MergeVertex: the vertex is composed when the request arrives.
MergeNewVertex(r) ==
  /\ storing[r] = "graph"
  /\ vertices' = Put(vertices, Target[r], MemoryType[r])
  /\ Shows({Target[r]}, r)
  /\ \E stage \in {"answered", "failed"} : StoreGoesTo(r, stage)
  /\ UNCHANGED <<reached, age, object, local, rows, edges, linking, cleaning, querying,
                 ends, raced, gone>>

\* _store_neo4j merges the vertex, which keeps its relationships.
MergeVertex(r) ==
  /\ storing[r] = "graph"
  /\ vertices' = Put(vertices, Target[r], object[r].kind)
  /\ Shows({Target[r]}, r)
  /\ \E stage \in {"answered", "failed"} : StoreGoesTo(r, stage)
  /\ UNCHANGED <<reached, age, object, local, rows, edges, linking, cleaning, querying,
                 ends, raced, gone>>

StoreFails(r) ==
  /\ StoreInFlight(r)
  /\ StoreGoesTo(r, "failed")
  /\ UNCHANGED <<reached, age, object, local, rows, graph, linking, cleaning, querying,
                 history>>
-----------------------------------------------------------------------------
\* The node of each end, in memory.
EndsInMemory(l) == {local[l[1]], local[l[2]]}

LinkInMemory(l) ==
  /\ object' = [object EXCEPT ![local[l[1]]].children = @ \cup {l[2]},
                              ![local[l[2]]].parents = @ \cup {l[1]}]
  /\ ends' = [ends EXCEPT ![l] = EndsInMemory(l)]
  /\ raced' = IF driver /\ \A r \in EndsInMemory(l) : storing[r] = "answered"
              THEN raced \ {l} ELSE raced \cup {l}

\* Mutant of LinkLocally: a link already known in memory is answered at once.
LinkLocallyOnce(l) ==
  /\ ~ LinkInFlight(l)
  /\ IF {l[1], l[2]} \subseteq DOMAIN local
     THEN /\ LinkInMemory(l)
          /\ Proceeds(l, IF l[2] \in object[local[l[1]]].children THEN "answered"
                         ELSE IF pool THEN "parent" ELSE AfterRows("edge"))
     ELSE Proceeds(l, "failed") /\ UNCHANGED <<object, ends, raced>>
  /\ UNCHANGED <<backends, age, local, rows, graph, storing, cleaning, querying, gone,
                 due>>

\* POST link, at first or again: both nodes have to be in memory, or the lookup
\* raises.
LinkLocally(l) ==
  /\ ~ LinkInFlight(l)
  /\ IF {l[1], l[2]} \subseteq DOMAIN local
     THEN LinkInMemory(l) /\ Proceeds(l, IF pool THEN "parent" ELSE AfterRows("edge"))
     ELSE Proceeds(l, "failed") /\ UNCHANGED <<object, ends, raced>>
  /\ UNCHANGED <<backends, age, local, rows, graph, storing, cleaning, querying, gone,
                 due>>

\* The two UPDATEs of DurableMemoryRepository.link_causal; one of a row that
\* is not there changes nothing.
UpdateParent(l) ==
  /\ linking[l] = "parent"
  /\ rows' = IF l[1] \in DOMAIN rows
             THEN [rows EXCEPT ![l[1]].children = @ \cup {l[2]}] ELSE rows
  /\ \E stage \in {"child", "failed"} : Proceeds(l, stage) /\ Counted(stage)
  /\ UNCHANGED <<reached, age, object, local, graph, storing, cleaning, querying, history>>

UpdateChild(l) ==
  /\ linking[l] = "child"
  /\ rows' = IF l[2] \in DOMAIN rows
             THEN [rows EXCEPT ![l[2]].parents = @ \cup {l[1]}] ELSE rows
  /\ \E stage \in {AfterRows("edge"), "failed"} : Proceeds(l, stage) /\ Counted(stage)
  /\ UNCHANGED <<reached, age, object, local, graph, storing, cleaning, querying, history>>

\* MATCH finds both nodes or nothing.
MergeEdge(l) ==
  /\ linking[l] = "edge"
  /\ edges' = IF {l[1], l[2]} \subseteq DOMAIN vertices THEN edges \cup {l} ELSE edges
  /\ \E stage \in {"answered", "failed"} : Proceeds(l, stage) /\ Counted(stage)
  /\ UNCHANGED <<reached, age, object, local, rows, vertices, storing, cleaning, querying,
                 history>>

LinkFails(l) ==
  /\ LinkInFlight(l)
  /\ Proceeds(l, "failed") /\ Fault
  /\ UNCHANGED <<reached, age, object, local, rows, graph, storing, cleaning, querying,
                 history>>
-----------------------------------------------------------------------------
Promotable(f) == {n \in DOMAIN f : f[n].kind = "working" /\ age[f[n].by] # "fresh"}
Forgettable(f) ==
  {n \in DOMAIN f : f[n].by \in Unimportant /\ ~ f[n].used /\ age[f[n].by] = "day"}
Promoted(f) ==
  [n \in DOMAIN f |-> IF n \in Promotable(f) THEN [f[n] EXCEPT !.kind = "episodic"]
                      ELSE f[n]]

\* POST consolidate: in memory first, and no further without PostgreSQL.
ConsolidateLocally ==
  /\ consolidating = "idle"
  /\ object' = [r \in Stores |-> IF \E n \in Promotable(Remembered) : local[n] = r
                                 THEN [object[r] EXCEPT !.kind = "episodic"] ELSE object[r]]
  /\ local' = Without(local, Forgettable(Remembered))
  /\ consolidating' = IF pool THEN "promote" ELSE "idle"
  /\ UNCHANGED <<backends, age, rows, graph, storing, linking, moved, forgotten,
                 querying, history>>

\* UPDATE ... RETURNING node_id.
PromoteRows ==
  /\ consolidating = "promote"
  /\ rows' = Promoted(rows)
  /\ moved' = Promotable(rows)
  /\ due' = [n \in Nodes |-> IF n \in Promotable(rows) THEN "promotion" ELSE due[n]]
  /\ consolidating' = "forget"
  /\ UNCHANGED <<backends, age, object, local, graph, storing, linking, forgotten, querying,
                 ends, raced, gone>>

\* DELETE ... RETURNING node_id.
ForgetRows ==
  LET ids == Forgettable(rows)
  IN  /\ consolidating = "forget"
      /\ rows' = Without(rows, ids)
      /\ gone' = gone \cup ids
      /\ due' = [n \in Nodes |-> IF n \in ids THEN "removal" ELSE due[n]]
      /\ IF driver
         THEN consolidating' = "graphPromote" /\ forgotten' = ids /\ UNCHANGED moved
         ELSE consolidating' = "idle" /\ forgotten' = {} /\ moved' = {}
      /\ UNCHANGED <<backends, age, object, local, graph, storing, linking, querying, ends,
                     raced>>

\* MATCH finds the vertices there are.
PromoteVertices ==
  /\ consolidating = "graphPromote"
  /\ vertices' = [n \in DOMAIN vertices |-> IF n \in moved THEN "episodic"
                                            ELSE vertices[n]]
  /\ Shows(moved \cap DOMAIN vertices, "promotion")
  /\ consolidating' = "graphForget" /\ moved' = {}
  /\ UNCHANGED <<backends, age, object, local, rows, edges, storing, linking, forgotten,
                 querying, ends, raced, gone>>

\* Mutant of ForgetVertices: DELETE without DETACH.
ForgetVerticesOnly ==
  /\ consolidating = "graphForget"
  /\ vertices' = Without(vertices, forgotten)
  /\ Shows(forgotten, "removal")
  /\ consolidating' = "idle" /\ forgotten' = {}
  /\ UNCHANGED <<backends, age, object, local, rows, edges, storing, linking, moved,
                 querying, ends, raced, gone>>

\* DETACH DELETE takes the relationships along.
ForgetVertices ==
  /\ consolidating = "graphForget"
  /\ vertices' = Without(vertices, forgotten)
  /\ edges' = {l \in edges : {l[1], l[2]} \cap forgotten = {}}
  /\ Shows(forgotten, "removal")
  /\ consolidating' = "idle" /\ forgotten' = {}
  /\ UNCHANGED <<backends, age, object, local, rows, storing, linking, moved, querying,
                 ends, raced, gone>>

\* A later consolidation no longer finds what this one changed in the table.
ConsolidateFails ==
  /\ consolidating # "idle" /\ Fault
  /\ consolidating' = "idle" /\ moved' = {} /\ forgotten' = {}
  /\ UNCHANGED <<reached, age, object, local, rows, graph, storing, linking, querying,
                 history>>
-----------------------------------------------------------------------------
Touched(f, S) ==
  [n \in DOMAIN f |-> IF n \in S THEN [f[n] EXCEPT !.used = TRUE] ELSE f[n]]
Untouched(f) == {n \in DOMAIN f : f[n].by \in Unimportant}

\* POST query: the rows it selects, for whatever reason.  Those in memory are
\* not touched.  Only the touches of unimportant nodes ever matter, and Next
\* leaves out the others.
QueryRows(S) ==
  /\ pool /\ querying = {}
  /\ S # {} /\ querying' = S
  /\ UNCHANGED <<backends, age, object, local, rows, graph, storing, linking, cleaning,
                 history>>

\* _touch_nodes, or it raises.  A row may have been forgotten or stored anew
\* meanwhile.
TouchRows ==
  /\ querying # {} /\ querying' = {}
  /\ rows' \in {rows, Touched(rows, querying)}
  /\ UNCHANGED <<backends, age, object, local, graph, storing, linking, cleaning, history>>

QueryLocally(S) ==
  /\ ~ pool /\ S # {}
  /\ object' = [r \in Stores |-> IF \E n \in S : local[n] = r
                                 THEN [object[r] EXCEPT !.used = TRUE] ELSE object[r]]
  /\ UNCHANGED <<backends, age, local, rows, graph, storing, linking, cleaning, querying,
                 history>>
-----------------------------------------------------------------------------
\* An hour and a day pass after the timestamp of a request's node.  The client
\* sets it: the node may be old when it comes, or grow old while it is stored.
\* Nothing tells the second hour of an important node from its second day, and
\* no age changes an important one that is not "working".
Age(r) ==
  /\ \/ age[r] = "fresh" /\ (MemoryType[r] = "working" \/ r \in Unimportant)
     \/ age[r] = "hour" /\ r \in Unimportant
  /\ age' = [age EXCEPT ![r] = IF @ = "fresh" THEN "hour" ELSE "day"]
  /\ UNCHANGED <<backends, object, local, rows, graph, storing, linking, cleaning, querying,
                 history>>

\* The process is killed and starts again with an empty dictionary.
Crash ==
  /\ Fault
  /\ pool' \in BOOLEAN /\ driver' \in BOOLEAN
  /\ local' = Empty
  /\ storing' = [r \in Stores |-> IF StoreInFlight(r) THEN "failed" ELSE storing[r]]
  /\ linking' = [l \in Links |-> IF LinkInFlight(l) THEN "failed" ELSE linking[l]]
  /\ consolidating' = "idle" /\ moved' = {} /\ forgotten' = {}
  /\ querying' = {}
  /\ UNCHANGED <<age, object, rows, graph, history>>

Next ==
  \/ \E r \in Stores : StoreLocally(r) \/ InsertRow(r) \/ MergeVertex(r) \/ StoreFails(r)
                       \/ Age(r)
  \/ \E l \in Links : LinkLocally(l) \/ UpdateParent(l) \/ UpdateChild(l) \/ MergeEdge(l)
                      \/ LinkFails(l)
  \/ ConsolidateLocally \/ PromoteRows \/ ForgetRows \/ PromoteVertices \/ ForgetVertices
  \/ ConsolidateFails
  \/ \E S \in SUBSET Untouched(rows) : QueryRows(S)
  \/ TouchRows
  \/ \E S \in SUBSET Untouched(Remembered) : QueryLocally(S)
  \/ Crash

Spec == Init /\ [][Next]_vars
-----------------------------------------------------------------------------
Node == [by : Stores, kind : {"working", "episodic"}, used : BOOLEAN,
         parents : SUBSET Nodes, children : SUBSET Nodes]
Table(f) == DOMAIN f \subseteq Nodes /\ f \in [DOMAIN f -> Node]

\* Type invariant: the stores, with no relationship that has lost an end.
TypeOK ==
  /\ pool \in BOOLEAN /\ driver \in BOOLEAN /\ faults \in 0..MaxFaults
  /\ age \in [Stores -> {"fresh", "hour", "day"}]
  /\ object \in [Stores -> Node] /\ \A r \in Stores : object[r].by = r
  /\ DOMAIN local \subseteq Nodes /\ local \in [DOMAIN local -> Stores]
  /\ Table(rows)
  /\ DOMAIN vertices \subseteq Nodes
  /\ vertices \in [DOMAIN vertices -> {"working", "episodic"}]
  /\ edges \subseteq Links \cap ((DOMAIN vertices) \X (DOMAIN vertices))
  /\ storing \in [Stores -> {"idle", "rows", "graph", "answered", "failed"}]
  /\ linking \in [Links -> {"idle", "parent", "child", "edge", "answered", "failed"}]
  /\ consolidating \in {"idle", "promote", "forget", "graphPromote", "graphForget"}
  /\ {moved, forgotten, querying, gone} \subseteq SUBSET Nodes
  /\ ends \in [Links -> SUBSET Stores] /\ raced \subseteq Links
  /\ due \in [Nodes -> Owed \cup Stores]

\* Only another store of a node takes an answered link out of its row, which it
\* writes with the links of its own node: as long as the row of an end comes
\* from the node that was linked it has the link, whether the row was written
\* before, while or after the link was asked for, and whatever consolidations,
\* queries, failed attempts and restarts came between.  The graph keeps the link
\* through stores too: if both stores had been answered when it was asked for, it
\* is there until one of the nodes is forgotten.
AnsweredLinksAreStored ==
  \A l \in Links : linking[l] = "answered" =>
    /\ l[1] \in DOMAIN rows /\ rows[l[1]].by \in ends[l] => l[2] \in rows[l[1]].children
    /\ l[2] \in DOMAIN rows /\ rows[l[2]].by \in ends[l] => l[1] \in rows[l[2]].parents
    /\ l \notin raced /\ {l[1], l[2]} \cap gone = {} => l \in edges

\* When the last change of a node's row, be it a store, a promotion or a removal,
\* has come to the graph and no older one after it, the graph has the node if
\* and only if the table has it, with the same memory_type, or ahead of the table
\* by a promotion the stored node has had in memory.  So a store that comes
\* through repairs what failed and interrupted requests have left.
GraphFollowsRows ==
  \A n \in Nodes : due[n] = "nothing" =>
    /\ n \in DOMAIN rows <=> n \in DOMAIN vertices
    /\ n \in DOMAIN rows =>
         \/ vertices[n] = rows[n].kind
         \/ vertices[n] = "episodic" /\ object[rows[n].by].kind = "episodic"
=============================================================================
