---------------------------- MODULE CausalChains ----------------------------
(***************************************************************************)
(* extract_causal_chain, as the memory service computes it from its own    *)
(* dictionary and as it asks Neo4j for it.  parents is a function from the *)
(* nodes held to the sequences causal_parents, which may name nodes that   *)
(* are gone; edges is the set of CAUSED relationships.                     *)
(***************************************************************************)
EXTENDS Integers, SequencesExt

\* Where the search in memory is: the ids that a loop over causal_parents has
\* still to visit, the depth they are visited with, and "ordered" so far.
ChainStates(ids, nodes) == [todo : Seq(ids), remaining : Int, ordered : Seq(nodes)]

\* visit(current_id, remaining_depth), where "chain" is what the loops below it
\* come to.  A node is visited once, with the depth that was left when it was
\* first met.
VisitNode(parents, chain, id, remaining, ordered) ==
  IF remaining < 0 \/ id \in ToSet(ordered) \/ id \notin DOMAIN parents THEN ordered
  ELSE chain[[todo |-> parents[id], remaining |-> remaining - 1,
              ordered |-> Append(ordered, id)]]

VisitParents(parents, chain, c) ==
  IF c.todo = <<>> THEN c.ordered
  ELSE chain[[todo |-> Tail(c.todo), remaining |-> c.remaining,
              ordered |-> VisitNode(parents, chain, Head(c.todo), c.remaining, c.ordered)]]

Chains(ids, parents) ==
  LET chain[c \in ChainStates(ids, DOMAIN parents)] == VisitParents(parents, chain, c)
  IN  chain

Ids(parents, start) == {start} \cup UNION {ToSet(parents[n]) : n \in DOMAIN parents}

LocalChain(parents, start, depth) ==
  Chains(Ids(parents, start), parents)
    [[todo |-> <<start>>, remaining |-> depth, ordered |-> <<>>]]

\* n is found over at most d relationships from the start.
WithinReach(vertices, edges, start, n, d) ==
  \E k \in 0..d : \E path \in [0..k -> vertices] :
    /\ path[0] = start /\ path[k] = n
    /\ \A i \in 1..k : <<path[i], path[i - 1]>> \in edges

\* The query of Neo4j: the nodes on the paths of at most depth relationships
\* that lead to the start, with a depth between 0 and 10.
GraphChain(vertices, edges, start, depth) ==
  LET safeDepth == IF depth < 0 THEN 0 ELSE IF depth > 10 THEN 10 ELSE depth
  IN  {n \in vertices : WithinReach(vertices, edges, start, n, safeDepth)}

\* The relationships of the graph that has the parents of the dictionary, as
\* far as it has the nodes.
EdgesOf(parents) ==
  {e \in (DOMAIN parents) \X (DOMAIN parents) : e[1] \in ToSet(parents[e[2]])}
=============================================================================
