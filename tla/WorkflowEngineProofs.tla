------------------------ MODULE WorkflowEngineProofs ------------------------
(***************************************************************************)
(* Proofs about WorkflowEngine, for every set of executions, every set of  *)
(* templates (every dependency graph and stop list) and every length of    *)
(* the review queue; and about the validation of templates, for every      *)
(* finite graph.                                                           *)
(***************************************************************************)
EXTENDS WorkflowEngine, GovernedRunProofs, FiniteSetTheorems, WellFoundedInduction

\* The validation.  Its search is a recursive function: that it is defined is
\* shown along the number of steps not on the way yet and of those to visit.
SearchOutcomes(ids) == [visited : SUBSET ids, raised : BOOLEAN]

Effort(ids, c) ==
  Cardinality(ids \ c.visiting) * (Cardinality(ids) + 1) + Cardinality(c.todo)

LEMMA LeastOf ==
  ASSUME NEW T \in SUBSET Nat, T # {}
  PROVE  \E x \in T : \A y \in T : x <= y
<1>1. PICK x \in T : \A y \in T : ~ (<<y, x>> \in OpToRel(<, Nat))
  BY WFMin, NatLessThanWellFounded
<1>2. \A y \in T : ~ (y < x)
  BY <1>1 DEF OpToRel
<1> QED
  BY <1>2

LEMMA LessEffort ==
  ASSUME NEW n \in Nat, NEW a \in Nat, NEW b \in Nat, b < a,
         NEW t \in Nat, NEW u \in Nat, u <= n
  PROVE  b * (n + 1) + u < a * (n + 1) + t
<1>1. PICK k \in Nat : a = b + 1 + k
  <2>1. a - b - 1 \in Nat /\ a = b + 1 + (a - b - 1)
    OBVIOUS
  <2> QED
    BY <2>1
<1>2. PICK m \in Nat : m = n + 1
  OBVIOUS
<1>3. a * m = b * m + m + k * m /\ b * m \in Nat /\ k * m \in Nat
  BY <1>1, <1>2
<1> QED
  BY <1>2, <1>3

LEMMA EffortType ==
  ASSUME NEW ids, IsFiniteSet(ids), NEW c \in SearchStates(ids)
  PROVE  Effort(ids, c) \in Nat
<1>1. IsFiniteSet(ids \ c.visiting) /\ IsFiniteSet(c.todo)
  BY FS_Subset DEF SearchStates
<1>2. /\ Cardinality(ids \ c.visiting) \in Nat /\ Cardinality(ids) \in Nat
      /\ Cardinality(c.todo) \in Nat
  BY <1>1, FS_CardinalityType
<1>3. \A a, b, t \in Nat : a * (b + 1) + t \in Nat
  OBVIOUS
<1> QED
  BY <1>2, <1>3 DEF Effort

\* A visit to a new step, and the rest of the loop, are less effort.
LEMMA VisitIsLess ==
  ASSUME NEW ids, IsFiniteSet(ids), NEW deps \in [ids -> SUBSET ids],
         NEW c \in SearchStates(ids), NEW d \in c.todo, d \notin c.visiting,
         NEW e, e = [todo |-> deps[d], visiting |-> c.visiting \cup {d}, visited |-> c.visited]
  PROVE  e \in SearchStates(ids) /\ Effort(ids, e) < Effort(ids, c)
<1>1. e \in SearchStates(ids) /\ d \in ids /\ e.visiting = c.visiting \cup {d} /\ e.todo \subseteq ids
  BY DEF SearchStates
<1>2. /\ IsFiniteSet(ids \ c.visiting) /\ IsFiniteSet(c.todo) /\ IsFiniteSet(e.todo)
      /\ Cardinality(e.todo) <= Cardinality(ids)
  BY <1>1, FS_Subset DEF SearchStates
<1>3. /\ ids \ e.visiting = (ids \ c.visiting) \ {d} /\ d \in ids \ c.visiting
  BY <1>1
<1>4. /\ IsFiniteSet(ids \ e.visiting)
      /\ Cardinality(ids \ e.visiting) = Cardinality(ids \ c.visiting) - 1
  <2>1. PICK fresh : fresh = ids \ c.visiting
    OBVIOUS
  <2>2. IsFiniteSet(fresh \ {d}) /\ Cardinality(fresh \ {d}) = Cardinality(fresh) - 1
    BY <1>2, <1>3, <2>1, FS_RemoveElement
  <2> QED
    BY <1>3, <2>1, <2>2
<1>5. /\ Cardinality(ids) \in Nat /\ Cardinality(ids \ c.visiting) \in Nat
      /\ Cardinality(ids \ e.visiting) \in Nat
      /\ Cardinality(c.todo) \in Nat /\ Cardinality(e.todo) \in Nat
  BY <1>2, <1>4, FS_CardinalityType
<1>6. Cardinality(ids \ e.visiting) < Cardinality(ids \ c.visiting)
  BY <1>4, <1>5
<1> QED
  BY <1>1, <1>2, <1>5, <1>6, LessEffort DEF Effort

LEMMA RestIsLess ==
  ASSUME NEW ids, IsFiniteSet(ids), NEW c \in SearchStates(ids), NEW d \in c.todo,
         NEW v \in SUBSET ids,
         NEW e, e = [todo |-> c.todo \ {d}, visiting |-> c.visiting, visited |-> v]
  PROVE  e \in SearchStates(ids) /\ Effort(ids, e) < Effort(ids, c)
<1>1. e \in SearchStates(ids) /\ e.visiting = c.visiting /\ e.todo = c.todo \ {d}
  BY DEF SearchStates
<1>2. IsFiniteSet(ids \ c.visiting) /\ IsFiniteSet(c.todo)
  BY FS_Subset DEF SearchStates
<1>3. IsFiniteSet(e.todo) /\ Cardinality(e.todo) = Cardinality(c.todo) - 1
  BY <1>1, <1>2, FS_RemoveElement
<1>4. /\ Cardinality(ids) \in Nat /\ Cardinality(ids \ c.visiting) \in Nat
      /\ Cardinality(c.todo) \in Nat /\ Cardinality(e.todo) \in Nat
  BY <1>2, <1>3, FS_CardinalityType
<1>5. \A a, b, t \in Nat : a * (b + 1) \in Nat
  OBVIOUS
<1>6. PICK k \in Nat : k = Cardinality(ids \ c.visiting) * (Cardinality(ids) + 1)
  BY <1>4, <1>5
<1>7. Effort(ids, e) = k + Cardinality(e.todo) /\ Effort(ids, c) = k + Cardinality(c.todo)
  BY <1>1, <1>6 DEF Effort
<1> QED
  BY <1>1, <1>3, <1>4, <1>7

\* One round of the search asks only for outcomes of less effort.
LEMMA RoundIsLocal ==
  ASSUME NEW ids, IsFiniteSet(ids), NEW deps \in [ids -> SUBSET ids],
         NEW g, NEW h, NEW c \in SearchStates(ids),
         \A e \in SearchStates(ids) :
           Effort(ids, e) < Effort(ids, c) => g[e] \in SearchOutcomes(ids) /\ h[e] = g[e]
  PROVE  /\ VisitAll(deps, g, c) \in SearchOutcomes(ids)
         /\ VisitAll(deps, h, c) = VisitAll(deps, g, c)
<1> USE DEF Found
<1>1. CASE c.todo = {}
  BY <1>1 DEF VisitAll, SearchOutcomes, SearchStates
<1>2. CASE c.todo # {}
  <2>1. PICK d \in c.todo : d = CHOOSE x \in c.todo : TRUE
    BY <1>2
  <2>2. Visit(deps, g, c, d) \in SearchOutcomes(ids) /\ Visit(deps, h, c, d) = Visit(deps, g, c, d)
    <3>1. CASE d \in c.visited \/ d \in c.visiting
      BY <3>1 DEF Visit, SearchOutcomes, SearchStates
    <3>2. CASE d \notin c.visited /\ d \notin c.visiting
      <4>1. PICK e : e = [todo |-> deps[d], visiting |-> c.visiting \cup {d}, visited |-> c.visited]
        OBVIOUS
      <4>2. e \in SearchStates(ids) /\ Effort(ids, e) < Effort(ids, c)
        BY <3>2, <4>1, VisitIsLess
      <4>3. g[e] \in SearchOutcomes(ids) /\ h[e] = g[e]
        BY <4>2
      <4>4. /\ Visit(deps, g, c, d) = IF g[e].raised THEN g[e] ELSE Found(g[e].visited \cup {d})
            /\ Visit(deps, h, c, d) = IF h[e].raised THEN h[e] ELSE Found(h[e].visited \cup {d})
        BY <3>2, <4>1 DEF Visit
      <4>5. d \in ids
        BY DEF SearchStates
      <4> QED
        BY <4>3, <4>4, <4>5 DEF SearchOutcomes
    <3> QED
      BY <3>1, <3>2
  <2>3. PICK v : v = Visit(deps, g, c, d)
    OBVIOUS
  <2>4. PICK e : e = [todo |-> c.todo \ {d}, visiting |-> c.visiting, visited |-> v.visited]
    OBVIOUS
  <2>5. e \in SearchStates(ids) /\ Effort(ids, e) < Effort(ids, c)
    BY <2>2, <2>3, <2>4, RestIsLess DEF SearchOutcomes
  <2>6. g[e] \in SearchOutcomes(ids) /\ h[e] = g[e]
    BY <2>5
  <2>7. /\ VisitAll(deps, g, c) = IF v.raised THEN v ELSE g[e]
        /\ VisitAll(deps, h, c) = IF v.raised THEN v ELSE h[e]
    BY <1>2, <2>1, <2>2, <2>3, <2>4 DEF VisitAll
  <2> QED
    BY <2>2, <2>3, <2>6, <2>7
<1> QED
  BY <1>1, <1>2

\* Up to an effort of n, the function g is what the search comes to.
SearchUpTo(ids, deps, g, n) ==
  \A c \in SearchStates(ids) :
    Effort(ids, c) < n => g[c] \in SearchOutcomes(ids) /\ g[c] = VisitAll(deps, g, c)

LEMMA SearchesAgree ==
  ASSUME NEW ids, IsFiniteSet(ids), NEW deps \in [ids -> SUBSET ids], NEW n \in Nat,
         NEW g, SearchUpTo(ids, deps, g, n), NEW h, SearchUpTo(ids, deps, h, n)
  PROVE  \A c \in SearchStates(ids) : Effort(ids, c) < n => h[c] = g[c]
<1> DEFINE apart == {c \in SearchStates(ids) : Effort(ids, c) < n /\ h[c] # g[c]}
           efforts == {Effort(ids, c) : c \in apart}
<1> SUFFICES ASSUME apart # {} PROVE FALSE
  OBVIOUS
<1>1. efforts \in SUBSET Nat /\ efforts # {}
  BY EffortType
<1>2. PICK x \in efforts : \A y \in efforts : x <= y
  BY <1>1, LeastOf
<1>3. PICK c \in apart : x = Effort(ids, c)
  BY <1>2
<1>4. ASSUME NEW e \in SearchStates(ids), Effort(ids, e) < Effort(ids, c)
      PROVE  g[e] \in SearchOutcomes(ids) /\ h[e] = g[e]
  <2>1. Effort(ids, e) \in Nat /\ Effort(ids, c) \in Nat /\ Effort(ids, c) < n
    BY EffortType
  <2>2. Effort(ids, e) < n /\ ~ Effort(ids, c) <= Effort(ids, e)
    BY <1>4, <2>1
  <2>3. e \notin apart
    BY <1>2, <1>3, <2>2
  <2> QED
    BY <2>2, <2>3 DEF SearchUpTo
<1>5. VisitAll(deps, h, c) = VisitAll(deps, g, c)
  BY <1>4, RoundIsLocal
<1> QED
  BY <1>5 DEF SearchUpTo

LEMMA SearchUpToExists ==
  ASSUME NEW ids, IsFiniteSet(ids), NEW deps \in [ids -> SUBSET ids]
  PROVE  \A n \in Nat : \E g : SearchUpTo(ids, deps, g, n)
<1> DEFINE missing == {n \in Nat : ~ \E g : SearchUpTo(ids, deps, g, n)}
<1> SUFFICES ASSUME missing # {} PROVE FALSE
  OBVIOUS
<1>1. PICK n \in missing : \A k \in missing : n <= k
  <2>1. missing \in SUBSET Nat
    OBVIOUS
  <2> HIDE DEF missing
  <2> QED
    BY <2>1, LeastOf
<1>2. CASE n = 0
  <2>1. SearchUpTo(ids, deps, {}, 0)
    BY EffortType DEF SearchUpTo
  <2> QED
    BY <1>2, <2>1
<1>3. CASE n # 0
  <2>1. n - 1 \in Nat /\ ~ n <= n - 1
    BY <1>3
  <2>2. PICK g : SearchUpTo(ids, deps, g, n - 1)
    BY <1>1, <2>1
  <2> DEFINE next == [c \in SearchStates(ids) |-> VisitAll(deps, g, c)]
  <2>3. ASSUME NEW c \in SearchStates(ids), Effort(ids, c) < n
        PROVE  next[c] \in SearchOutcomes(ids) /\ next[c] = VisitAll(deps, next, c)
    <3>1. ASSUME NEW e \in SearchStates(ids), Effort(ids, e) < Effort(ids, c)
          PROVE  g[e] \in SearchOutcomes(ids) /\ next[e] = g[e]
      <4>1. Effort(ids, e) \in Nat /\ Effort(ids, c) \in Nat
        BY EffortType
      <4>2. Effort(ids, e) < n - 1
        BY <2>3, <3>1, <4>1
      <4> QED
        BY <2>2, <4>2 DEF SearchUpTo
    <3>2. next[c] = VisitAll(deps, g, c)
      OBVIOUS
    <3> HIDE DEF next
    <3>3. VisitAll(deps, g, c) \in SearchOutcomes(ids) /\ VisitAll(deps, next, c) = VisitAll(deps, g, c)
      BY <3>1, RoundIsLocal
    <3> QED
      BY <3>2, <3>3
  <2> HIDE DEF next
  <2>4. SearchUpTo(ids, deps, next, n)
    BY <2>3 DEF SearchUpTo
  <2> QED
    BY <2>4
<1> QED
  BY <1>2, <1>3

LEMMA SearchIsDefined ==
  ASSUME NEW ids, IsFiniteSet(ids), NEW deps \in [ids -> SUBSET ids]
  PROVE  \A c \in SearchStates(ids) : Search(deps)[c] = VisitAll(deps, Search(deps), c)
<1> DEFINE upTo(n) == CHOOSE g : SearchUpTo(ids, deps, g, n)
           all == [c \in SearchStates(ids) |-> upTo(Effort(ids, c) + 1)[c]]
<1>1. \A n \in Nat : SearchUpTo(ids, deps, upTo(n), n)
  BY SearchUpToExists
<1> HIDE DEF upTo
<1>2. ASSUME NEW c \in SearchStates(ids) PROVE all[c] = VisitAll(deps, all, c)
  <2>1. PICK n \in Nat : n = Effort(ids, c)
    BY EffortType
  <2>2. PICK g : g = upTo(n + 1)
    OBVIOUS
  <2>3. SearchUpTo(ids, deps, g, n + 1)
    BY <1>1, <2>2
  <2>4. ASSUME NEW e \in SearchStates(ids), Effort(ids, e) < Effort(ids, c)
        PROVE  g[e] \in SearchOutcomes(ids) /\ all[e] = g[e]
    <3>1. PICK k \in Nat : k = Effort(ids, e)
      BY EffortType
    <3>2. k < n + 1 /\ k + 1 <= n + 1 /\ k < k + 1
      BY <2>1, <2>4, <3>1
    <3>3. SearchUpTo(ids, deps, upTo(k + 1), k + 1)
      BY <1>1
    <3>4. SearchUpTo(ids, deps, g, k + 1)
      <4> SUFFICES ASSUME NEW f \in SearchStates(ids), Effort(ids, f) < k + 1
                   PROVE  g[f] \in SearchOutcomes(ids) /\ g[f] = VisitAll(deps, g, f)
        BY DEF SearchUpTo
      <4>1. Effort(ids, f) < n + 1
        BY <3>2, EffortType
      <4> QED
        BY <2>3, <4>1 DEF SearchUpTo
    <3>5. k + 1 \in Nat
      OBVIOUS
    <3>6. g[e] = upTo(k + 1)[e]
      BY <3>1, <3>2, <3>3, <3>4, <3>5, SearchesAgree
    <3> QED
      BY <2>3, <3>1, <3>2, <3>6 DEF SearchUpTo
  <2>5. all[c] = g[c] /\ g[c] = VisitAll(deps, g, c)
    BY <2>1, <2>2, <2>3 DEF SearchUpTo
  <2> HIDE DEF all
  <2>6. VisitAll(deps, all, c) = VisitAll(deps, g, c)
    BY <2>4, RoundIsLocal
  <2> QED
    BY <2>5, <2>6
<1>3. all = [c \in SearchStates(ids) |-> VisitAll(deps, all, c)]
  <2>1. all = [c \in SearchStates(ids) |-> all[c]]
    OBVIOUS
  <2> HIDE DEF all
  <2> QED
    BY <1>2, <2>1
<1> HIDE DEF all
<1>4. DOMAIN deps = ids
  OBVIOUS
<1>5. Search(deps) = CHOOSE s : s = [c \in SearchStates(ids) |-> VisitAll(deps, s, c)]
  BY <1>4 DEF Search
<1>6. Search(deps) = [c \in SearchStates(ids) |-> VisitAll(deps, Search(deps), c)]
  BY <1>3, <1>5
<1> QED
  BY <1>6

LEMMA SearchType ==
  ASSUME NEW ids, IsFiniteSet(ids), NEW deps \in [ids -> SUBSET ids]
  PROVE  \A c \in SearchStates(ids) : Search(deps)[c] \in SearchOutcomes(ids)
<1> DEFINE bad == {c \in SearchStates(ids) : Search(deps)[c] \notin SearchOutcomes(ids)}
           efforts == {Effort(ids, c) : c \in bad}
<1> SUFFICES ASSUME bad # {} PROVE FALSE
  OBVIOUS
<1>1. efforts \in SUBSET Nat /\ efforts # {}
  BY EffortType
<1>2. PICK x \in efforts : \A y \in efforts : x <= y
  BY <1>1, LeastOf
<1>3. PICK c \in bad : x = Effort(ids, c)
  BY <1>2
<1>4. ASSUME NEW e \in SearchStates(ids), Effort(ids, e) < Effort(ids, c)
      PROVE  Search(deps)[e] \in SearchOutcomes(ids)
  <2>1. ~ Effort(ids, c) <= Effort(ids, e)
    BY <1>4, EffortType
  <2> QED
    BY <1>2, <1>3, <2>1
<1>5. VisitAll(deps, Search(deps), c) \in SearchOutcomes(ids)
  BY <1>4, RoundIsLocal
<1> QED
  BY <1>5, SearchIsDefined

\* Good steps: they wait for good steps only, and not for each other.
Settled(deps, v) ==
  /\ \A s \in v : deps[s] \subseteq v
  /\ \A S \in SUBSET v : S # {} => \E s \in S : deps[s] \cap S = {}

LEMMA OneMoreSettled ==
  ASSUME NEW deps, NEW v, Settled(deps, v), NEW d, deps[d] \subseteq v
  PROVE  Settled(deps, v \cup {d})
<1>1. \A s \in v \cup {d} : deps[s] \subseteq v
  BY DEF Settled
<1>2. ASSUME NEW S \in SUBSET (v \cup {d}), S # {} PROVE \E s \in S : deps[s] \cap S = {}
  <2>1. CASE S \cap v # {}
    <3>1. PICK s \in S \cap v : deps[s] \cap (S \cap v) = {}
      BY <2>1 DEF Settled
    <3> QED
      BY <1>1, <3>1
  <2>2. CASE S \cap v = {}
    <3>1. S = {d}
      BY <1>2, <2>2
    <3> QED
      BY <2>2, <3>1
  <2> QED
    BY <2>1, <2>2
<1> QED
  BY <1>1, <1>2 DEF Settled

\* What the search comes to when it does not raise: everything it was to visit
\* is good, if what it began with was.
SearchSettles(deps, c) ==
  ~ Search(deps)[c].raised /\ Settled(deps, c.visited) =>
    /\ Settled(deps, Search(deps)[c].visited)
    /\ c.visited \cup c.todo \subseteq Search(deps)[c].visited

\* A step that is being visited waits for one that is, but for the last, which
\* waits for what is to be visited: the way to it is a path.
OnPath(deps, c) ==
  c.visiting # {} =>
    \E last \in c.visiting :
      /\ c.todo \subseteq deps[last]
      /\ \A s \in c.visiting \ {last} : deps[s] \cap c.visiting # {}

\* It raises only when the way to a step has led back to it.
SearchFinds(deps, c) ==
  OnPath(deps, c) /\ Search(deps)[c].raised => ~ AcyclicGraph(deps)

LEMMA SearchRound ==
  ASSUME NEW ids, IsFiniteSet(ids), NEW deps \in [ids -> SUBSET ids],
         NEW c \in SearchStates(ids),
         \A e \in SearchStates(ids) :
           Effort(ids, e) < Effort(ids, c) => SearchSettles(deps, e) /\ SearchFinds(deps, e)
  PROVE  SearchSettles(deps, c) /\ SearchFinds(deps, c)
<1> DEFINE out == Search(deps)[c]
<1>1. out = VisitAll(deps, Search(deps), c)
  BY SearchIsDefined
<1>2. CASE c.todo = {}
  <2>1. out = [visited |-> c.visited, raised |-> FALSE]
    BY <1>1, <1>2 DEF VisitAll, Found
  <2> QED
    BY <1>2, <2>1 DEF SearchSettles, SearchFinds
<1>3. CASE c.todo # {}
  <2>1. PICK d \in c.todo : d = CHOOSE x \in c.todo : TRUE
    BY <1>3
  <2>2. PICK v : v = Visit(deps, Search(deps), c, d)
    OBVIOUS
  <2>3. PICK e : e = [todo |-> c.todo \ {d}, visiting |-> c.visiting, visited |-> v.visited]
    OBVIOUS
  <2>4. out = IF v.raised THEN v ELSE Search(deps)[e]
    BY <1>1, <1>3, <2>1, <2>2, <2>3 DEF VisitAll
  <2>5. d \in ids
    BY DEF SearchStates
  \* The visit of d.
  <2>6. /\ v \in SearchOutcomes(ids)
        /\ ~ v.raised /\ Settled(deps, c.visited) =>
             Settled(deps, v.visited) /\ c.visited \cup {d} \subseteq v.visited
        /\ v.raised /\ OnPath(deps, c) => ~ AcyclicGraph(deps)
    <3>1. CASE d \in c.visited
      <4>1. v = [visited |-> c.visited, raised |-> FALSE]
        BY <2>2, <3>1 DEF Visit, Found
      <4> QED
        BY <3>1, <4>1 DEF SearchOutcomes, SearchStates
    <3>2. CASE d \notin c.visited /\ d \in c.visiting
      <4>1. v = [visited |-> c.visited, raised |-> TRUE]
        BY <2>2, <3>2 DEF Visit
      <4>2. ASSUME OnPath(deps, c) PROVE ~ AcyclicGraph(deps)
        <5>1. PICK last \in c.visiting :
                /\ c.todo \subseteq deps[last]
                /\ \A s \in c.visiting \ {last} : deps[s] \cap c.visiting # {}
          BY <3>2, <4>2 DEF OnPath
        <5>2. d \in deps[last] \cap c.visiting
          BY <3>2, <5>1
        <5>3. \A s \in c.visiting : deps[s] \cap c.visiting # {}
          BY <5>1, <5>2
        <5>4. c.visiting \in SUBSET DOMAIN deps /\ c.visiting # {}
          BY <3>2 DEF SearchStates
        <5> QED
          BY <5>3, <5>4 DEF AcyclicGraph
      <4>3. v \in SearchOutcomes(ids) /\ v.raised
        BY <4>1 DEF SearchOutcomes, SearchStates
      <4> QED
        BY <4>2, <4>3
    <3>3. CASE d \notin c.visited /\ d \notin c.visiting
      <4>1. PICK b : b = [todo |-> deps[d], visiting |-> c.visiting \cup {d}, visited |-> c.visited]
        OBVIOUS
      <4>2. b \in SearchStates(ids) /\ Effort(ids, b) < Effort(ids, c)
        BY <3>3, <4>1, VisitIsLess
      <4>3. /\ SearchSettles(deps, b) /\ SearchFinds(deps, b)
            /\ Search(deps)[b] \in SearchOutcomes(ids)
        BY <4>2, SearchType
      <4>4. PICK below : below = Search(deps)[b]
        OBVIOUS
      <4>5. v = IF below.raised THEN below
                ELSE [visited |-> below.visited \cup {d}, raised |-> FALSE]
        BY <2>2, <3>3, <4>1, <4>4 DEF Visit, Found
      <4>6. v \in SearchOutcomes(ids)
        BY <2>5, <4>3, <4>4, <4>5 DEF SearchOutcomes
      <4>7. ASSUME ~ v.raised, Settled(deps, c.visited)
            PROVE  Settled(deps, v.visited) /\ c.visited \cup {d} \subseteq v.visited
        <5>1. /\ ~ below.raised /\ v.visited = below.visited \cup {d}
              /\ b.visited = c.visited /\ b.todo = deps[d]
          BY <4>1, <4>5, <4>7
        <5>2. Settled(deps, below.visited) /\ c.visited \cup deps[d] \subseteq below.visited
          BY <4>3, <4>4, <4>7, <5>1 DEF SearchSettles
        <5>3. Settled(deps, below.visited \cup {d})
          BY <5>2, OneMoreSettled
        <5> QED
          BY <5>1, <5>2, <5>3
      <4>8. ASSUME v.raised, OnPath(deps, c) PROVE ~ AcyclicGraph(deps)
        <5>1. below.raised
          BY <4>5, <4>8
        <5>2. /\ b.visiting = c.visiting \cup {d} /\ b.todo = deps[d] /\ d \in b.visiting
          BY <4>1
        <5>3. \A s \in b.visiting \ {d} : deps[s] \cap b.visiting # {}
          <6> SUFFICES ASSUME NEW s \in c.visiting PROVE deps[s] \cap b.visiting # {}
            BY <5>2
          <6>1. PICK last \in c.visiting :
                  /\ c.todo \subseteq deps[last]
                  /\ \A o \in c.visiting \ {last} : deps[o] \cap c.visiting # {}
            BY <4>8 DEF OnPath
          <6> QED
            BY <5>2, <6>1
        <5>4. OnPath(deps, b)
          BY <5>2, <5>3 DEF OnPath
        <5> QED
          BY <4>3, <4>4, <5>1, <5>4 DEF SearchFinds
      <4> QED
        BY <4>6, <4>7, <4>8
    <3> QED
      BY <3>1, <3>2, <3>3
  <2>7. e \in SearchStates(ids) /\ Effort(ids, e) < Effort(ids, c)
    BY <2>3, <2>6, RestIsLess DEF SearchOutcomes
  <2>8. /\ SearchSettles(deps, e) /\ SearchFinds(deps, e)
        /\ e.visited = v.visited /\ e.todo = c.todo \ {d} /\ e.visiting = c.visiting
    BY <2>3, <2>7
  <2>9. SearchSettles(deps, c)
    <3> SUFFICES ASSUME ~ out.raised, Settled(deps, c.visited)
                 PROVE  Settled(deps, out.visited) /\ c.visited \cup c.todo \subseteq out.visited
      BY DEF SearchSettles
    <3>1. ~ v.raised /\ out = Search(deps)[e]
      BY <2>4
    <3>2. Settled(deps, v.visited) /\ c.visited \cup {d} \subseteq v.visited
      BY <2>6, <3>1
    <3>3. Settled(deps, out.visited) /\ v.visited \cup (c.todo \ {d}) \subseteq out.visited
      BY <2>8, <3>1, <3>2 DEF SearchSettles
    <3> QED
      BY <3>2, <3>3
  <2>10. SearchFinds(deps, c)
    <3> SUFFICES ASSUME out.raised, OnPath(deps, c) PROVE ~ AcyclicGraph(deps)
      BY DEF SearchFinds
    <3>1. OnPath(deps, e)
      BY <2>8 DEF OnPath
    <3> QED
      BY <2>4, <2>6, <2>8, <3>1 DEF SearchFinds
  <2> QED
    BY <2>9, <2>10
<1> QED
  BY <1>2, <1>3

LEMMA SearchMeaning ==
  ASSUME NEW ids, IsFiniteSet(ids), NEW deps \in [ids -> SUBSET ids]
  PROVE  \A c \in SearchStates(ids) : SearchSettles(deps, c) /\ SearchFinds(deps, c)
<1> DEFINE bad == {c \in SearchStates(ids) : ~ (SearchSettles(deps, c) /\ SearchFinds(deps, c))}
           efforts == {Effort(ids, c) : c \in bad}
<1> SUFFICES ASSUME bad # {} PROVE FALSE
  OBVIOUS
<1>1. efforts \in SUBSET Nat /\ efforts # {}
  BY EffortType
<1>2. PICK x \in efforts : \A y \in efforts : x <= y
  BY <1>1, LeastOf
<1>3. PICK c \in bad : x = Effort(ids, c)
  BY <1>2
<1>4. ASSUME NEW e \in SearchStates(ids), Effort(ids, e) < Effort(ids, c)
      PROVE  SearchSettles(deps, e) /\ SearchFinds(deps, e)
  <2>1. ~ Effort(ids, c) <= Effort(ids, e)
    BY <1>4, EffortType
  <2> QED
    BY <1>2, <1>3, <2>1
<1> QED
  BY <1>3, <1>4, SearchRound

\* _validate_workflow_steps refuses exactly the graphs with a cycle, whatever
\* the number of steps and in whichever order the search takes them.
THEOREM ValidationIsExact ==
  ASSUME NEW ids, IsFiniteSet(ids), NEW deps \in [ids -> SUBSET ids]
  PROVE  Validated(deps) <=> AcyclicGraph(deps)
<1>1. PICK c : c = [todo |-> ids, visiting |-> {}, visited |-> {}]
  OBVIOUS
<1>2. c \in SearchStates(ids) /\ DOMAIN deps = ids
  BY <1>1 DEF SearchStates
<1>3. SearchSettles(deps, c) /\ SearchFinds(deps, c) /\ Search(deps)[c] \in SearchOutcomes(ids)
  BY <1>2, SearchMeaning, SearchType
<1>4. Validated(deps) <=> ~ Search(deps)[c].raised
  BY <1>1, <1>2 DEF Validated
<1>5. ASSUME ~ Search(deps)[c].raised PROVE AcyclicGraph(deps)
  <2>1. Settled(deps, c.visited)
    BY <1>1 DEF Settled
  <2>2. Settled(deps, Search(deps)[c].visited) /\ ids \subseteq Search(deps)[c].visited
    BY <1>1, <1>3, <1>5, <2>1 DEF SearchSettles
  <2> QED
    BY <1>2, <2>2 DEF Settled, AcyclicGraph
<1>6. ASSUME Search(deps)[c].raised PROVE ~ AcyclicGraph(deps)
  <2>1. OnPath(deps, c)
    BY <1>1 DEF OnPath
  <2> QED
    BY <1>3, <1>6, <2>1 DEF SearchFinds
<1> QED
  BY <1>4, <1>5, <1>6

LEMMA StepIdsFinite ==
  ASSUME NEW T, NEW steps \in Seq(T)
  PROVE  IsFiniteSet(StepIds(steps)) /\ DOMAIN steps = 1..Len(steps) /\ Len(steps) \in Nat
<1>1. DOMAIN steps = 1..Len(steps) /\ Len(steps) \in Nat
  BY LenProperties
<1>2. IsFiniteSet(1..Len(steps))
  BY <1>1, FS_Interval
<1>3. [i \in DOMAIN steps |-> steps[i].id] \in Surjection(DOMAIN steps, StepIds(steps))
  BY DEF Surjection, StepIds
<1> QED
  BY <1>1, <1>2, <1>3, FS_Surjection

\* create_workflow accepts exactly the lists of steps that are not empty, have
\* distinct ids and known dependencies, and no cycle.
THEOREM AcceptedIsExact ==
  ASSUME NEW Ids, NEW Tasks, NEW steps \in Seq([id : Ids, task : Tasks, needs : SUBSET Ids])
  PROVE  Accepted(steps) <=>
           /\ steps # <<>>
           /\ \A i, j \in DOMAIN steps : steps[i].id = steps[j].id => i = j
           /\ \A i \in DOMAIN steps : steps[i].needs \subseteq StepIds(steps)
           /\ AcyclicGraph(DependencyMap(steps))
<1> SUFFICES ASSUME \A i \in DOMAIN steps : steps[i].needs \subseteq StepIds(steps)
             PROVE  Validated(DependencyMap(steps)) <=> AcyclicGraph(DependencyMap(steps))
  BY DEF Accepted
<1>1. DependencyMap(steps) \in [StepIds(steps) -> SUBSET StepIds(steps)]
  BY DEF DependencyMap
<1> QED
  BY <1>1, StepIdsFinite, ValidationIsExact

\* A request that names tasks only is refused only when it names none.
THEOREM TaskListsAreAccepted ==
  ASSUME NEW Tasks, NEW tasks \in Seq(Tasks)
  PROVE  Accepted(Normalized(tasks, <<>>)) <=> tasks # <<>>
<1> DEFINE ids == Nat \X Tasks
           chain == Chain(tasks)
<1>1. DOMAIN tasks = 1..Len(tasks) /\ Len(tasks) \in Nat /\ \A i \in 1..Len(tasks) : tasks[i] \in Tasks
  BY LenProperties, ElementOfSeq
<1> DEFINE name(i) == <<i, tasks[i]>>
           before(i) == IF i = 1 THEN {} ELSE {name(i - 1)}
<1>2. /\ DOMAIN chain = 1..Len(tasks)
      /\ chain = [i \in 1..Len(tasks) |-> [id |-> name(i), task |-> tasks[i], needs |-> before(i)]]
  BY DEF Chain
<1>3. \A i \in 1..Len(tasks) : i # 1 => i - 1 \in 1..Len(tasks)
  BY <1>1
<1>4. ASSUME NEW i \in 1..Len(tasks)
      PROVE  /\ name(i) \in ids /\ before(i) \in SUBSET ids
             /\ before(i) \subseteq {name(j) : j \in 1..Len(tasks)}
             /\ \A j \in 1..Len(tasks) : name(i) = name(j) => i = j
  <2>1. \A j \in 1..Len(tasks) : name(j) \in ids
    BY <1>1
  <2>2. \A j \in 1..Len(tasks) : name(i) = name(j) => i = j
    OBVIOUS
  <2> HIDE DEF name, ids
  <2> QED
    BY <1>3, <2>1, <2>2
<1> HIDE DEF name, before, ids
<1>5. /\ \A i \in 1..Len(tasks) : chain[i].id = name(i) /\ chain[i].needs = before(i)
      /\ \A i \in 1..Len(tasks) : chain[i] \in [id : ids, task : Tasks, needs : SUBSET ids]
  <2> HIDE DEF chain
  <2> QED
    BY <1>1, <1>2, <1>4
<1>6. chain \in Seq([id : ids, task : Tasks, needs : SUBSET ids]) /\ Len(chain) = Len(tasks)
  <2>1. chain \in [1..Len(tasks) -> [id : ids, task : Tasks, needs : SUBSET ids]]
    BY <1>2, <1>5
  <2> HIDE DEF chain
  <2>2. PICK n \in Nat : n = Len(tasks)
    BY <1>1
  <2>3. PICK S : S = [id : ids, task : Tasks, needs : SUBSET ids]
    OBVIOUS
  <2>4. chain \in Seq(S)
    <3>1. chain \in [1..n -> S]
      BY <2>1, <2>2, <2>3
    <3>2. \E m \in Nat : chain \in [1..m -> S]
      BY <3>1
    <3>3. chain \in UNION {[1..m -> S] : m \in Nat}
      BY <3>2, Zenon
    <3> QED
      BY <3>3, SeqDef, Zenon
  <2>5. DOMAIN chain = 1..n /\ Len(chain) \in Nat /\ DOMAIN chain = 1..Len(chain)
    BY <2>1, <2>2, <2>4, LenProperties
  <2>6. Len(chain) = n
    BY <2>5
  <2> QED
    BY <2>2, <2>3, <2>4, <2>6
<1> HIDE DEF chain
<1>10. /\ \A i, j \in DOMAIN chain : chain[i].id = chain[j].id => i = j
       /\ StepIds(chain) = {name(i) : i \in 1..Len(tasks)}
       /\ \A i \in DOMAIN chain : chain[i].needs \subseteq StepIds(chain)
  <2>1. \A i, j \in DOMAIN chain : chain[i].id = chain[j].id => i = j
    BY <1>2, <1>4, <1>5
  <2>2. StepIds(chain) = {name(i) : i \in 1..Len(tasks)}
    BY <1>2, <1>5 DEF StepIds
  <2> QED
    BY <1>2, <1>4, <1>5, <2>1, <2>2
<1>7. AcyclicGraph(DependencyMap(chain))
  <2> DEFINE deps == DependencyMap(chain)
  <2>1. /\ DOMAIN deps = {name(i) : i \in 1..Len(tasks)}
        /\ \A i \in 1..Len(tasks) : deps[name(i)] = before(i)
    <3>1. ASSUME NEW i \in 1..Len(tasks) PROVE deps[name(i)] = before(i)
      <4>1. {j \in DOMAIN chain : chain[j].id = name(i)} = {i}
        BY <1>2, <1>4, <1>5
      <4>2. name(i) \in StepIds(chain)
        BY <1>10
      <4>3. deps[name(i)] = UNION {chain[j].needs : j \in {i}}
        BY <4>1, <4>2 DEF DependencyMap
      <4> QED
        BY <1>5, <4>3
    <3>2. DOMAIN deps = StepIds(chain)
      BY DEF DependencyMap
    <3> QED
      BY <1>10, <3>1, <3>2
  <2> HIDE DEF deps
  <2> SUFFICES ASSUME NEW S \in SUBSET DOMAIN deps, S # {}
               PROVE  \E s \in S : deps[s] \cap S = {}
    BY DEF AcyclicGraph, deps
  <2> DEFINE at == {i \in 1..Len(tasks) : name(i) \in S}
  <2>2. at # {} /\ at \in SUBSET Nat
    BY <2>1
  <2>3. PICK i \in at : \A k \in at : i <= k
    <3> HIDE DEF at
    <3> QED
      BY <2>2, LeastOf
  <2>4. i # 1 => name(i - 1) \notin S
    <3> SUFFICES ASSUME i # 1, name(i - 1) \in S PROVE FALSE
      OBVIOUS
    <3>1. i - 1 \in at
      BY <1>3
    <3>2. ~ i <= i - 1
      BY <1>1
    <3> QED
      BY <2>3, <3>1, <3>2
  <2>5. deps[name(i)] \cap S = {}
    <3>1. deps[name(i)] = before(i)
      BY <2>1
    <3>2. CASE i = 1
      BY <3>1, <3>2 DEF before
    <3>3. CASE i # 1
      BY <2>4, <3>1, <3>3 DEF before
    <3> QED
      BY <3>2, <3>3
  <2> QED
    BY <2>3, <2>5
<1>8. Accepted(chain) <=> chain # <<>>
  BY <1>6, <1>7, <1>10, AcceptedIsExact
<1>9. chain # <<>> <=> tasks # <<>>
  BY <1>1, <1>6, EmptySeq
<1> QED
  BY <1>8, <1>9 DEF Normalized, chain
-----------------------------------------------------------------------------
\* The executions below the workflow.
RunsInv == RunTypeOK /\ \A r \in Runs : Control(r)

\* A step is untouched until it enters a batch, and it enters one only when
\* what it depends on is recorded; recorded steps have returned.
BatchInv ==
  /\ \A s \in Steps : pc[s] # "idle" => s \in completed \cup batch
  /\ \A s \in completed \cup batch : template.deps[s] \subseteq completed
  /\ \A s \in completed : pc[s] = "returned"
  /\ completed \cap batch = {}
  /\ wfPc \notin {"idle", "gather"} => \A s \in batch : pc[s] \in Ended
  /\ wfPc = "idle" => batch = {} /\ completed = {}

\* stop_triggered is raised by the first recorded status of the stop list and
\* stays up; no batch is gathered while it is up.
StopInv ==
  /\ stopped = "none" => \A s \in completed : status[s] \notin template.stop
  /\ wfPc \in {"idle", "gather"} => stopped = "none"

\* The record of the execution follows the coroutine.
RecordInv ==
  /\ wfPc = "idle" => wfStatus = "absent"
  /\ wfPc \in {"gather", "collect"} => wfStatus = "running"
  /\ wfPc \in {"review"} \cup Ended => wfStatus \in Terminal
  /\ wfPc \in {"review"} \cup Ended /\ stopped = "none" /\ wfStatus # "failed" =>
       completed = Steps

WfIInv ==
  /\ WfTypeOK
  /\ RunsInv
  /\ BatchInv
  /\ StopInv
  /\ RecordInv
  /\ FailureHasCause

LEMMA StepsAreRuns ==
  /\ Steps \subseteq Runs
  /\ \A s \in Steps : Kind[s] = "step" /\ s # Workflow
BY WorkflowAssumption DEF Steps

LEMMA WfInitIInv == WfInit => WfIInv
<1> SUFFICES ASSUME WfInit PROVE WfIInv
  OBVIOUS
<1>1. IInv
  BY InitIInv DEF WfInit
<1>2. WfTypeOK
  BY <1>1, ReviewLimitAssumption
     DEF WfInit, Init, IInv, TypeOK, WfTypeOK, QueueTypeOK, WfPCs, Statuses, Outcomes
<1>3. RunsInv
  BY <1>1 DEF IInv, TypeOK, RunsInv
<1>4. BatchInv /\ StopInv /\ RecordInv /\ FailureHasCause
  BY StepsAreRuns DEF WfInit, Init, BatchInv, StopInv, RecordInv, FailureHasCause, Ended
<1> QED
  BY <1>2, <1>3, <1>4 DEF WfIInv

\* The step of an execution below the workflow, or of an unrelated one.
LEMMA RunStepIInv ==
  ASSUME WfIInv, NEW r \in Runs, StepStarts(r) \/ OtherStarts(r) \/ RunProgress(r)
  PROVE  WfIInv'
<1>1. /\ Request(r) \/ Progress(r)
      /\ UNCHANGED wfVars
      /\ Request(r) => r \notin Steps \/ (wfPc = "gather" /\ r \in batch)
  BY EndedIsFinal DEF StepStarts, OtherStarts, RunProgress
<1> USE <1>1
<1>2. RunTypeOK /\ Control(r)
  BY DEF WfIInv, WfTypeOK, RunsInv
<1>3. /\ RunTypeOK'
      /\ QueueTypeOK(Runs \cup {Workflow})'
      /\ Control(r)'
  BY <1>2, StepType, StepControl, StepQueue DEF WfIInv, WfTypeOK
<1>4. \A o \in Runs \ {r} : /\ pc'[o] = pc[o]
                            /\ status'[o] = status[o]
                            /\ Control(o)'
  BY <1>2, OwnStepOnly DEF WfIInv, RunsInv, Control, RecordedOutcome
<1>5. WfTypeOK'
  BY <1>3 DEF WfIInv, WfTypeOK, wfVars
<1>6. RunsInv'
  BY <1>3, <1>4 DEF RunsInv
<1>7. pc[r] \notin Ended
  BY EndedIsFinal
<1>8. /\ \A s \in Steps : pc[s] \in Ended => pc'[s] = pc[s] /\ status'[s] = status[s]
      /\ \A s \in Steps : pc[s] = "idle" /\ pc'[s] # "idle" => s \in batch
  BY <1>4, <1>7, EndedIsFinal, StepsAreRuns
<1>9. BatchInv'
  BY <1>8 DEF WfIInv, WfTypeOK, BatchInv, wfVars, Ended
<1>10. StopInv' /\ RecordInv'
  BY <1>8 DEF WfIInv, WfTypeOK, BatchInv, StopInv, RecordInv, wfVars, Ended
<1>11. FailureHasCause'
  BY <1>8 DEF WfIInv, FailureHasCause, wfVars, Ended
<1> QED
  BY <1>5, <1>6, <1>9, <1>10, <1>11 DEF WfIInv
\* queue_review for the execution itself.
LEMMA WorkflowEnqueue ==
  ASSUME WfTypeOK, NEW t \in NeedsReview, Enqueue(Workflow, t)
  PROVE  QueueTypeOK(Runs \cup {Workflow})'
<1> DEFINE Sources == Runs \cup {Workflow}
<1>1. Workflow \in Sources /\ reviews \in Seq(ReviewsOf(Sources)) /\ Len(reviews) <= ReviewLimit
  BY DEF WfTypeOK, QueueTypeOK
<1> HIDE DEF Sources
<1>2. reviews' \in Seq(ReviewsOf(Sources)) /\ Len(reviews') \in 1 .. ReviewLimit
  BY <1>1, EnqueueShape
<1> QED
  BY <1>2, ReviewLimitAssumption DEF QueueTypeOK, Sources

\* What the end of an execution does, whatever its final status.
LEMMA ConcludeType ==
  ASSUME WfTypeOK, NEW final \in Terminal, Conclude(final),
         UNCHANGED <<runVars, template, batch, completed, stopped, lastStatus>>
  PROVE  WfTypeOK' /\ wfStatus' = final /\ wfPc' \in {"review", "returned"}
<1>1. wfStatus' = final /\ wfPc' \in {"review", "returned"}
  BY DEF Conclude
<1>2. QueueTypeOK(Runs \cup {Workflow})'
  <2>1. CASE final \in NeedsReview
    BY <2>1, WorkflowEnqueue DEF Conclude
  <2>2. CASE final \notin NeedsReview
    BY <2>2 DEF Conclude, WfTypeOK, QueueTypeOK
  <2> QED
    BY <2>1, <2>2
<1> QED
  BY <1>1, <1>2 DEF WfTypeOK, RunTypeOK, runVars, WfPCs, Statuses, Terminal

LEMMA FailType ==
  ASSUME WfTypeOK, Fail,
         UNCHANGED <<runVars, template, batch, completed, stopped, lastStatus>>
  PROVE  WfTypeOK' /\ wfStatus' = "failed" /\ wfPc' = "raised"
<1>1. wfStatus' = "failed" /\ wfPc' = "raised"
  BY DEF Fail
<1>2. QueueTypeOK(Runs \cup {Workflow})'
  BY DEF Fail, WfTypeOK, QueueTypeOK
<1> QED
  BY <1>1, <1>2 DEF WfTypeOK, RunTypeOK, runVars, WfPCs, Statuses, Terminal

\* While steps remain and none is ready, the steps that remain wait for each
\* other: the template has a cycle, and the validation refuses it.
LEMMA NoneReadyMeansCycle ==
  ASSUME WfTypeOK, Remaining # {}, Ready = {}
  PROVE  ~ Validated(template.deps)
<1>1. \A s \in Remaining : template.deps[s] \cap Remaining # {}
  <2> SUFFICES ASSUME NEW s \in Remaining PROVE template.deps[s] \cap Remaining # {}
    OBVIOUS
  <2>1. ~ template.deps[s] \subseteq completed
    BY DEF Ready
  <2>2. template.deps[s] \subseteq Steps
    BY TemplatesAssumption DEF WfTypeOK, Remaining
  <2> QED
    BY <2>1, <2>2 DEF Remaining
<1>2. DOMAIN template.deps = Steps /\ template \in Templates
  BY TemplatesAssumption DEF WfTypeOK
<1>3. ~ AcyclicGraph(template.deps)
  BY <1>1, <1>2 DEF AcyclicGraph, Remaining
<1> QED
  BY <1>2, <1>3, StepsAssumption, ValidationIsExact, TemplatesAssumption

\* The steps of the workflow coroutine.
LEMMA WorkflowStepIInv ==
  ASSUME WfIInv, StartWorkflow \/ WorkflowProgress
  PROVE  WfIInv'
<1> USE DEF WfIInv
<1>1. RunsInv'
  <2>1. UNCHANGED runVars
    BY DEF StartWorkflow, WorkflowProgress, StartBatch, HaltWorkflow, GatherDone,
           CollectResult, CollectException, StopWorkflow, CompleteWorkflow,
           PublishWorkflowReview, vars, runVars
  <2> QED
    BY <2>1 DEF RunsInv, RunTypeOK, Control, RecordedOutcome, runVars
<1>2. ASSUME StartWorkflow PROVE WfIInv'
  <2>1. WfTypeOK'
    BY <1>2 DEF StartWorkflow, WfTypeOK, RunTypeOK, QueueTypeOK, vars, WfPCs, Statuses
  <2> QED
    BY <1>1, <1>2, <2>1
       DEF StartWorkflow, vars, BatchInv, StopInv, RecordInv, FailureHasCause, Ended
<1>3. ASSUME StartBatch PROVE WfIInv'
  <2>1. WfTypeOK'
    BY <1>3 DEF StartBatch, WfTypeOK, RunTypeOK, QueueTypeOK, vars, WfPCs, Ready, Remaining
  <2> QED
    BY <1>1, <1>3, <2>1
       DEF StartBatch, vars, LoopHead, Ready, Remaining, BatchInv, StopInv, RecordInv,
           FailureHasCause, Ended
<1>4. ASSUME HaltWorkflow PROVE WfIInv'
  <2>1. WfTypeOK' /\ wfStatus' = "failed" /\ wfPc' = "raised"
    BY <1>4, FailType DEF HaltWorkflow
  <2>2. ~ Validated(template.deps)
    BY <1>4, NoneReadyMeansCycle DEF HaltWorkflow
  <2> QED
    BY <1>1, <1>4, <2>1, <2>2
       DEF HaltWorkflow, runVars, LoopHead, BatchInv, StopInv, RecordInv,
           FailureHasCause, Ended, Terminal
<1>5. ASSUME GatherDone PROVE WfIInv'
  <2>1. WfTypeOK'
    BY <1>5 DEF GatherDone, WfTypeOK, RunTypeOK, QueueTypeOK, vars, WfPCs
  <2> QED
    BY <1>1, <1>5, <2>1
       DEF GatherDone, vars, BatchInv, StopInv, RecordInv, FailureHasCause, Ended
<1>6. ASSUME NEW s \in Steps, CollectResult(s) PROVE WfIInv'
  <2>1. status[s] \in Outcomes
    BY <1>6, StepsAreRuns DEF CollectResult, RunsInv, Control
  <2>2. WfTypeOK'
    BY <1>6, <2>1
       DEF CollectResult, NextResult, WfTypeOK, RunTypeOK, QueueTypeOK, vars, WfPCs, Statuses
  <2>3. BatchInv'
    BY <1>6 DEF CollectResult, NextResult, vars, BatchInv, Ended
  <2>4. StopInv'
    BY <1>6, <2>1 DEF CollectResult, NextResult, vars, StopInv, Outcomes
  <2>5. RecordInv' /\ FailureHasCause'
    BY <1>6 DEF CollectResult, NextResult, vars, RecordInv, FailureHasCause, Ended
  <2> QED
    BY <1>1, <2>2, <2>3, <2>4, <2>5
<1>7. ASSUME NEW s \in Steps, CollectException(s) PROVE WfIInv'
  <2>1. WfTypeOK' /\ wfStatus' = "failed" /\ wfPc' = "raised"
    BY <1>7, FailType DEF CollectException
  <2> QED
    BY <1>1, <1>7, <2>1
       DEF CollectException, NextResult, runVars, BatchInv, StopInv, RecordInv,
           FailureHasCause, Ended, Terminal
<1>8. ASSUME StopWorkflow PROVE WfIInv'
  <2>1. stopped \in Outcomes
    BY <1>8 DEF StopWorkflow, WfTypeOK
  <2>2. WfTypeOK' /\ wfStatus' = stopped /\ wfPc' \in {"review", "returned"}
    BY <1>8, <2>1, ConcludeType DEF StopWorkflow, Terminal
  <2> QED
    BY <1>1, <1>8, <2>1, <2>2
       DEF StopWorkflow, runVars, BatchInv, StopInv, RecordInv, FailureHasCause,
           Ended, Terminal, Outcomes
<1>9. ASSUME CompleteWorkflow PROVE WfIInv'
  <2>1. lastStatus \in Outcomes
    BY DEF WfTypeOK
  <2>2. WfTypeOK' /\ wfStatus' = lastStatus /\ wfPc' \in {"review", "returned"}
    BY <1>9, <2>1, ConcludeType DEF CompleteWorkflow, Terminal
  <2>3. completed = Steps
    BY <1>9 DEF CompleteWorkflow, Remaining, WfTypeOK
  <2> QED
    BY <1>1, <1>9, <2>1, <2>2, <2>3
       DEF CompleteWorkflow, LoopHead, runVars, BatchInv, StopInv, RecordInv,
           FailureHasCause, Ended, Terminal, Outcomes
<1>10. ASSUME PublishWorkflowReview PROVE WfIInv'
  <2>1. WfTypeOK'
    BY <1>10 DEF PublishWorkflowReview, WfTypeOK, RunTypeOK,
                 QueueTypeOK, vars, WfPCs, Ended
  <2> QED
    BY <1>1, <1>10, <2>1
       DEF PublishWorkflowReview, vars, BatchInv, StopInv,
           RecordInv, FailureHasCause, Ended
<1> QED
  BY <1>2, <1>3, <1>4, <1>5, <1>6, <1>7, <1>8, <1>9, <1>10 DEF WorkflowProgress

LEMMA WfNextIInv == WfIInv /\ [WfNext]_allVars => WfIInv'
<1>1. ASSUME WfIInv, UNCHANGED allVars PROVE WfIInv'
  BY <1>1 DEF allVars, vars, wfVars, WfIInv, WfTypeOK, RunTypeOK, QueueTypeOK, RunsInv,
              Control, RecordedOutcome, BatchInv, StopInv, RecordInv, FailureHasCause
<1> QED
  BY <1>1, RunStepIInv, WorkflowStepIInv DEF WfNext

THEOREM WfInvariance == WfSpec => []WfIInv
BY WfInitIInv, WfNextIInv, PTL DEF WfSpec

\* Every variable of the workflow and of the executions keeps its type.
THEOREM WfTypeCorrect == WfSpec => []WfTypeOK
<1>1. WfIInv => WfTypeOK
  BY DEF WfIInv
<1> QED
  BY <1>1, WfInvariance, PTL

\* Whatever the graph, no step is under way before its dependencies returned.
THEOREM DependenciesFirst == WfSpec => []DependencyOrder
<1>1. WfIInv => DependencyOrder
  <2> SUFFICES ASSUME WfIInv PROVE DependencyOrder
    OBVIOUS
  <2>1. \A s \in Steps : pc[s] # "idle" => template.deps[s] \subseteq completed
    BY DEF WfIInv, BatchInv
  <2>2. \A s \in completed : pc[s] = "returned" /\ status[s] \in Outcomes
    BY StepsAreRuns DEF WfIInv, BatchInv, RunsInv, Control, WfTypeOK
  <2> QED
    BY <2>1, <2>2 DEF DependencyOrder
<1> QED
  BY <1>1, WfInvariance, PTL

\* With a template that passed _validate_workflow_steps the engine never
\* halts for want of a ready step: a failed execution has a step that raised.
THEOREM NoHaltOnValidatedTemplate == WfSpec => []FailureHasCause
<1>1. WfIInv => FailureHasCause
  BY DEF WfIInv
<1> QED
  BY <1>1, WfInvariance, PTL

\* An execution that has ended left no step running and no step out.
THEOREM EndConsistency == WfSpec => []EndIsConsistent
<1>1. WfIInv => EndIsConsistent
  <2> SUFFICES ASSUME WfIInv, WfEnded PROVE EndIsConsistent
    BY DEF EndIsConsistent
  <2>1. wfStatus \in Terminal
    BY DEF WfIInv, RecordInv, WfEnded
  <2>2. \A s \in Steps : pc[s] \in Ended \cup {"idle"}
    BY DEF WfIInv, BatchInv, WfEnded, Ended
  <2>3. stopped = "none" /\ wfStatus # "failed" =>
          completed = Steps /\ \A s \in Steps : status[s] \notin template.stop
    BY DEF WfIInv, RecordInv, StopInv, WfEnded
  <2> QED
    BY <2>1, <2>2, <2>3 DEF EndIsConsistent
<1> QED
  BY <1>1, WfInvariance, PTL

\* What a step of the workflow coroutine or of an execution does to the
\* program counters of the steps.
LEMMA WhoStartsSteps ==
  ASSUME WfIInv, WfNext, NEW s \in Steps, pc[s] = "idle", pc'[s] # "idle"
  PROVE  wfPc = "gather" /\ s \in batch /\ UNCHANGED wfVars
<1>1. ~ StartWorkflow /\ ~ WorkflowProgress
  BY DEF StartWorkflow, WorkflowProgress, StartBatch, HaltWorkflow, GatherDone,
         CollectResult, CollectException, StopWorkflow, CompleteWorkflow,
         PublishWorkflowReview, vars, runVars
<1>2. PICK r \in Runs : StepStarts(r) \/ OtherStarts(r) \/ RunProgress(r)
  BY <1>1 DEF WfNext
<1>3. r = s
  BY <1>2, OwnStepOnly, StepsAreRuns
     DEF WfIInv, RunsInv, StepStarts, OtherStarts, RunProgress
<1> QED
  BY <1>2, <1>3, EndedIsFinal DEF StepStarts, OtherStarts, RunProgress

\* No step starts once a status of the stop list has been recorded.
THEOREM StopIsFinal == WfSpec => NoStartAfterStop
<1> DEFINE Held ==
      \A s \in Steps : pc[s] = "idle" /\ pc'[s] # "idle" =>
        \A d \in completed : status[d] \notin template.stop
<1>1. WfIInv /\ [WfNext]_allVars => [Held]_allVars
  BY WhoStartsSteps DEF WfIInv, StopInv
<1> QED
  BY <1>1, WfInvariance, PTL DEF WfSpec, NoStartAfterStop

\* The coroutine's steps are steps of the promise or stutter.
LEMMA WorkflowStepRefines ==
  ASSUME WfIInv, WfIInv', StartWorkflow \/ WorkflowProgress
  PROVE  [Promise!Next]_(Promise!vars)
<1> USE DEF WfIInv, Phase, Launched
<1>1. UNCHANGED <<pc, template>>
  BY DEF StartWorkflow, WorkflowProgress, StartBatch, HaltWorkflow, GatherDone,
         CollectResult, CollectException, StopWorkflow, CompleteWorkflow,
         PublishWorkflowReview, vars, runVars
<1>2. UNCHANGED <<template.deps, Launched>>
  BY <1>1
<1>3. CASE StartWorkflow
  <2>1. Promise!Accept
    BY <1>2, <1>3 DEF StartWorkflow, Promise!Accept, StopInv
  <2> QED
    BY <2>1 DEF Promise!Next
<1>4. CASE StartBatch \/ GatherDone
  <2>1. UNCHANGED Promise!vars
    BY <1>2, <1>4 DEF StartBatch, GatherDone, LoopHead, Promise!vars
  <2> QED
    BY <2>1
<1>5. CASE PublishWorkflowReview
  <2>1. UNCHANGED Promise!vars
    BY <1>2, <1>5 DEF PublishWorkflowReview, Ended, Promise!vars
  <2> QED
    BY <2>1
<1>6. CASE HaltWorkflow
  <2>1. wfStatus' = "failed" /\ wfPc' = "raised" /\ completed' = completed
    BY <1>6 DEF HaltWorkflow, Fail
  <2>2. completed # Steps /\ \A s \in Steps \ completed : ~ template.deps[s] \subseteq completed
    BY <1>6 DEF HaltWorkflow, Remaining, Ready
  <2>3. Promise!Fail
    BY <1>2, <1>6, <2>1, <2>2 DEF HaltWorkflow, LoopHead, Promise!Fail
  <2> QED
    BY <2>3 DEF Promise!Next
<1>7. ASSUME NEW s \in Steps, CollectResult(s) PROVE Promise!Next
  <2>1. s \in Launched \ completed
    BY <1>7 DEF CollectResult, NextResult, BatchInv
  <2>2. Promise!Record(s)
    BY <1>2, <1>7, <2>1 DEF CollectResult, NextResult, Promise!Record, WfTypeOK, Outcomes
  <2> QED
    BY <2>2 DEF Promise!Next
<1>8. ASSUME NEW s \in Steps, CollectException(s) PROVE Promise!Next
  <2>1. s \in Launched \ completed
    BY <1>8 DEF CollectException, NextResult, BatchInv
  <2>2. wfStatus' = "failed" /\ wfPc' = "raised" /\ completed' = completed
    BY <1>8 DEF CollectException, Fail
  <2>3. Promise!Fail
    BY <1>2, <1>8, <2>1, <2>2 DEF CollectException, NextResult, Promise!Fail
  <2> QED
    BY <2>3 DEF Promise!Next
<1>9. CASE StopWorkflow
  <2>1. wfStatus' = stopped /\ wfPc' \in {"review", "returned"} /\ stopped # "failed"
    BY <1>9 DEF StopWorkflow, Conclude, WfTypeOK, Outcomes
  <2>2. completed = Launched
    BY <1>9 DEF StopWorkflow, BatchInv, WfTypeOK
  <2>3. Promise!Stop
    BY <1>2, <1>9, <2>1, <2>2 DEF StopWorkflow, Promise!Stop
  <2> QED
    BY <2>3 DEF Promise!Next
<1>10. CASE CompleteWorkflow
  <2>1. wfStatus' = lastStatus /\ wfPc' \in {"review", "returned"} /\ lastStatus # "failed"
    BY <1>10 DEF CompleteWorkflow, Conclude, WfTypeOK, Outcomes
  <2>2. completed = Steps
    BY <1>10 DEF CompleteWorkflow, Remaining, WfTypeOK
  <2>3. Promise!Complete
    BY <1>2, <1>10, <2>1, <2>2 DEF CompleteWorkflow, LoopHead, Promise!Complete
  <2> QED
    BY <2>3 DEF Promise!Next
<1> QED
  BY <1>3, <1>4, <1>5, <1>6, <1>7, <1>8, <1>9, <1>10 DEF WorkflowProgress

\* An execution's step launches a step of the workflow or does not show.
LEMMA RunStepRefines ==
  ASSUME WfIInv, NEW r \in Runs, StepStarts(r) \/ OtherStarts(r) \/ RunProgress(r)
  PROVE  [Promise!Next]_(Promise!vars)
<1>1. /\ Request(r) \/ Progress(r)
      /\ UNCHANGED wfVars
  BY DEF StepStarts, OtherStarts, RunProgress
<1>2. RunTypeOK
  BY DEF WfIInv, RunsInv
<1>3. \A o \in Runs \ {r} : pc'[o] = pc[o]
  BY <1>1, <1>2, OwnStepOnly
<1>4. pc'[r] # "idle"
  BY <1>1, <1>2, NeverIdleAgain
<1>5. UNCHANGED <<template.deps, Phase, completed>>
  BY <1>1 DEF wfVars, Phase
<1>6. CASE r \in Steps /\ pc[r] = "idle"
  <2>1. wfPc = "gather" /\ r \in batch
    BY <1>6, EndedIsFinal DEF StepStarts, OtherStarts, RunProgress
  <2>2. Phase = "open" /\ template.deps[r] \subseteq completed
    BY <2>1 DEF WfIInv, BatchInv, StopInv, Phase
  <2>3. Launched' = Launched \cup {r} /\ r \notin Launched
    BY <1>3, <1>4, <1>6, StepsAreRuns DEF Launched
  <2>4. Promise!Launch(r)
    BY <1>5, <2>2, <2>3 DEF Promise!Launch
  <2> QED
    BY <1>6, <2>4 DEF Promise!Next
<1>7. CASE ~ (r \in Steps /\ pc[r] = "idle")
  <2>1. UNCHANGED Launched
    BY <1>3, <1>4, <1>7, StepsAreRuns DEF Launched
  <2> QED
    BY <1>5, <2>1 DEF Promise!vars
<1> QED
  BY <1>6, <1>7

\* The engine, with its batches, its failures and its publications, does
\* nothing the workflow promise does not allow.
THEOREM EngineImplementsPromise == WfSpec => ImplementsPromise
<1>1. WfInit => Promise!Init
  BY TemplatesAssumption
     DEF WfInit, Init, Promise!Init, Phase, Launched, Steps
<1>2. WfIInv /\ WfIInv' /\ [WfNext]_allVars => [Promise!Next]_(Promise!vars)
  <2>1. ASSUME UNCHANGED allVars PROVE UNCHANGED Promise!vars
    BY <2>1 DEF allVars, vars, wfVars, Promise!vars, Phase, Launched
  <2> QED
    BY <2>1, WorkflowStepRefines, RunStepRefines DEF WfNext
<1> QED
  BY <1>1, <1>2, WfInvariance, PTL DEF WfSpec, ImplementsPromise, Promise!Spec

\* What the queue holds about the workflow: nothing while the execution is
\* under way, then one item with its final status, as long as it is not
\* pushed out; never an item of a step.
QueueInv ==
  /\ \A i \in 1 .. Len(reviews) : reviews[i].run \notin Steps
  /\ \A i \in 1 .. Len(reviews) :
       reviews[i].run = Workflow =>
         /\ wfPc \notin {"idle", "gather", "collect"}
         /\ reviews[i].trigger = wfStatus /\ wfStatus # "failed"
  /\ \A i, j \in 1 .. Len(reviews) :
       reviews[i].run = Workflow /\ reviews[j].run = Workflow => i = j

\* EnqueueShape for the queue of this module.
LEMMA WfEnqueueShape ==
  ASSUME WfTypeOK, NEW run \in Runs \cup {Workflow}, NEW t \in NeedsReview, Enqueue(run, t)
  PROVE  /\ Len(reviews) \in Nat
         /\ Len(reviews') \in Nat
         /\ Len(reviews') <= Len(reviews) + 1
         /\ reviews'[1] = [run |-> run, trigger |-> t]
         /\ \A i \in 2 .. Len(reviews') : reviews'[i] = reviews[i - 1]
<1> DEFINE Sources == Runs \cup {Workflow}
<1>1. run \in Sources /\ reviews \in Seq(ReviewsOf(Sources)) /\ Len(reviews) <= ReviewLimit
  BY DEF WfTypeOK, QueueTypeOK
<1> HIDE DEF Sources
<1>2. /\ Len(reviews') \in 1 .. ReviewLimit
      /\ Len(reviews') <= Len(reviews) + 1
      /\ reviews'[1] = [run |-> run, trigger |-> t]
      /\ \A i \in 2 .. Len(reviews') : reviews'[i] = reviews[i - 1]
  BY <1>1, EnqueueShape
<1> QED
  BY <1>1, <1>2, ReviewLimitAssumption

\* An unrelated execution queues a review of its own.
LEMMA OtherEnqueue ==
  ASSUME WfTypeOK, QueueInv, UNCHANGED wfVars, NEW r \in Runs, Kind[r] # "step",
         NEW t \in NeedsReview, Enqueue(r, t)
  PROVE  QueueInv'
<1>1. r \notin Steps /\ r # Workflow
  BY WorkflowAssumption DEF Steps
<1>2. \A i \in 1 .. Len(reviews') :
        \/ i = 1 /\ reviews'[i] = [run |-> r, trigger |-> t]
        \/ i - 1 \in 1 .. Len(reviews) /\ reviews'[i] = reviews[i - 1]
  BY WfEnqueueShape
<1>3. \A i \in 1 .. Len(reviews') :
        \/ reviews'[i].run = r
        \/ i - 1 \in 1 .. Len(reviews) /\ reviews'[i] = reviews[i - 1]
  BY <1>2
<1>4. \A i \in 1 .. Len(reviews') : reviews'[i].run \notin Steps
  BY <1>1, <1>3 DEF QueueInv
<1>5. \A i \in 1 .. Len(reviews') :
        reviews'[i].run = Workflow =>
          /\ wfPc \notin {"idle", "gather", "collect"}
          /\ reviews'[i].trigger = wfStatus /\ wfStatus # "failed"
  BY <1>1, <1>3 DEF QueueInv
<1>6. \A i, j \in 1 .. Len(reviews') :
        reviews'[i].run = Workflow /\ reviews'[j].run = Workflow => i = j
  <2> SUFFICES ASSUME NEW i \in 1 .. Len(reviews'), NEW j \in 1 .. Len(reviews'),
                      reviews'[i].run = Workflow, reviews'[j].run = Workflow
               PROVE  i = j
    OBVIOUS
  <2>1. i - 1 = j - 1
    BY <1>1, <1>3 DEF QueueInv
  <2> QED
    BY <2>1
<1>7. Steps' = Steps
  BY DEF Steps
<1> QED
  BY <1>4, <1>5, <1>6, <1>7 DEF QueueInv, wfVars

\* The execution queues its review when it ends.
LEMMA OwnEnqueue ==
  ASSUME WfTypeOK, QueueInv, wfPc = "collect", NEW t \in NeedsReview, t # "failed",
         Enqueue(Workflow, t), wfStatus' = t, wfPc' = "review"
  PROVE  QueueInv'
<1>1. Workflow \notin Steps
  BY StepsAreRuns
<1>2. \A i \in 1 .. Len(reviews') :
        \/ i = 1 /\ reviews'[i] = [run |-> Workflow, trigger |-> t]
        \/ i - 1 \in 1 .. Len(reviews) /\ reviews'[i] = reviews[i - 1]
  BY WfEnqueueShape
<1>3. \A i \in 1 .. Len(reviews) : reviews[i].run # Workflow
  BY DEF QueueInv
<1>4. \A i \in 1 .. Len(reviews') : reviews'[i].run \notin Steps
  BY <1>1, <1>2 DEF QueueInv
<1>5. \A i \in 1 .. Len(reviews') :
        reviews'[i].run = Workflow => i = 1 /\ reviews'[i].trigger = t
  BY <1>2, <1>3
<1>6. Steps' = Steps
  BY DEF Steps
<1> QED
  BY <1>4, <1>5, <1>6 DEF QueueInv

LEMMA QueueStep ==
  ASSUME WfIInv, QueueInv, WfNext
  PROVE  QueueInv'
<1> USE DEF WfIInv
<1>1. ASSUME NEW r \in Runs, StepStarts(r) \/ OtherStarts(r) \/ RunProgress(r)
      PROVE  QueueInv'
  <2>1. (Request(r) \/ Progress(r)) /\ UNCHANGED wfVars
    BY <1>1 DEF StepStarts, OtherStarts, RunProgress
  <2>2. CASE UNCHANGED reviews
    BY <2>1, <2>2 DEF QueueInv, wfVars
  <2>3. ASSUME Kind[r] # "step", NEW t \in NeedsReview, Enqueue(r, t) PROVE QueueInv'
    BY <2>1, <2>3, OtherEnqueue
  <2>4. \/ UNCHANGED reviews
        \/ Kind[r] # "step" /\ \E t \in NeedsReview : Enqueue(r, t)
    BY <2>1, OwnStepOnly DEF RunsInv
  <2> QED
    BY <2>2, <2>3, <2>4
<1>2. ASSUME \/ StartWorkflow \/ StartBatch \/ GatherDone
             \/ \E s \in Steps : CollectResult(s)
             \/ PublishWorkflowReview
      PROVE  QueueInv'
  <2>1. UNCHANGED reviews
    BY <1>2 DEF StartWorkflow, StartBatch, GatherDone, CollectResult,
                PublishWorkflowReview, vars
  <2> QED
    BY <1>2, <2>1
       DEF QueueInv, RecordInv, StartWorkflow, StartBatch, GatherDone, CollectResult,
           NextResult, LoopHead, PublishWorkflowReview, Ended
<1>3. ASSUME HaltWorkflow \/ \E s \in Steps : CollectException(s) PROVE QueueInv'
  <2>1. wfPc = "collect" /\ UNCHANGED reviews
    BY <1>3 DEF HaltWorkflow, LoopHead, CollectException, NextResult, Fail
  <2> QED
    BY <2>1 DEF QueueInv
<1>4. ASSUME NEW final, Conclude(final), wfPc = "collect", final # "failed" PROVE QueueInv'
  <2>1. CASE final \in NeedsReview
    BY <1>4, <2>1, OwnEnqueue DEF Conclude
  <2>2. CASE final \notin NeedsReview
    BY <1>4, <2>2 DEF Conclude, QueueInv
  <2> QED
    BY <2>1, <2>2
<1>5. ASSUME StopWorkflow \/ CompleteWorkflow PROVE QueueInv'
  BY <1>4, <1>5 DEF StopWorkflow, CompleteWorkflow, LoopHead, WfTypeOK, Outcomes
<1> QED
  BY <1>1, <1>2, <1>3, <1>5 DEF WfNext, WorkflowProgress

\* One review per execution that is blocked or escalated, none per step or per
\* failed execution, whatever publications fail and whatever other requests
\* share the queue.
THEOREM SingleReview == WfSpec => []OneReviewPerWorkflow
<1>1. WfInit => QueueInv
  BY DEF WfInit, Init, QueueInv
<1>2. WfIInv /\ QueueInv /\ [WfNext]_allVars => QueueInv'
  <2>1. ASSUME QueueInv, UNCHANGED allVars PROVE QueueInv'
    BY <2>1 DEF allVars, vars, wfVars, QueueInv
  <2> QED
    BY <2>1, QueueStep
<1>3. WfIInv /\ QueueInv => OneReviewPerWorkflow
  <2> SUFFICES ASSUME WfIInv, QueueInv PROVE OneReviewPerWorkflow
    OBVIOUS
  <2>1. DOMAIN reviews = 1 .. Len(reviews)
    BY DEF WfIInv, WfTypeOK, QueueTypeOK
  <2>2. \A i \in 1 .. Len(reviews) : reviews[i].trigger \in NeedsReview
    <3> DEFINE Sources == Runs \cup {Workflow}
    <3>1. reviews \in Seq(ReviewsOf(Sources))
      BY DEF WfIInv, WfTypeOK, QueueTypeOK
    <3>2. \A item \in ReviewsOf(Sources) : item.trigger \in NeedsReview
      BY DEF ReviewsOf
    <3> HIDE DEF Sources
    <3> QED
      BY <3>1, <3>2
  <2> QED
    BY <2>1, <2>2 DEF QueueInv, OneReviewPerWorkflow, NeedsReview
<1> QED
  BY <1>1, <1>2, <1>3, WfInvariance, PTL DEF WfSpec

WorkflowQueued ==
  \/ \E i \in 1 .. Len(reviews) : reviews[i].run = Workflow
  \/ Len(reviews) = ReviewLimit

\* The status a stop ends with is of the stop list, and an execution that ends
\* blocked or escalated has its review.
OwedInv ==
  /\ stopped # "none" => stopped \in template.stop
  /\ wfPc \in {"review"} \cup Ended /\ wfStatus # "failed" /\ stopped # "none" =>
       wfStatus = stopped
  /\ wfPc \in {"review"} \cup Ended /\ wfStatus \in {"blocked", "escalated"} =>
       WorkflowQueued

\* A new review leaves the workflow's in the queue or finds it full.
LEMMA WorkflowStaysQueued ==
  ASSUME WfTypeOK, NEW run \in Runs \cup {Workflow}, NEW t \in NeedsReview, Enqueue(run, t)
  PROVE  WorkflowQueued \/ run = Workflow => WorkflowQueued'
<1> DEFINE Sources == Runs \cup {Workflow}
<1>1. run \in Sources /\ reviews \in Seq(ReviewsOf(Sources)) /\ Len(reviews) <= ReviewLimit
  BY DEF WfTypeOK, QueueTypeOK
<1> HIDE DEF Sources
<1>2. /\ Len(reviews') \in 1 .. ReviewLimit
      /\ Len(reviews') = Len(reviews) + 1 \/ Len(reviews') = ReviewLimit
      /\ Len(reviews') <= Len(reviews) + 1
      /\ reviews'[1] = [run |-> run, trigger |-> t]
      /\ \A i \in 2 .. Len(reviews') : reviews'[i] = reviews[i - 1]
  BY <1>1, EnqueueShape
<1>3. Len(reviews) \in Nat /\ ReviewLimit \in Nat
  BY <1>1, ReviewLimitAssumption
<1>4. CASE run = Workflow
  BY <1>2, <1>3, <1>4 DEF WorkflowQueued
<1>5. CASE Len(reviews') = ReviewLimit
  BY <1>5 DEF WorkflowQueued
<1>6. CASE Len(reviews') = Len(reviews) + 1 /\ \E i \in 1 .. Len(reviews) : reviews[i].run = Workflow
  <2>1. PICK i \in 1 .. Len(reviews) : reviews[i].run = Workflow
    BY <1>6
  <2>2. i + 1 \in 2 .. Len(reviews') /\ i + 1 \in 1 .. Len(reviews') /\ (i + 1) - 1 = i
    BY <1>3, <1>6
  <2>3. reviews'[i + 1].run = Workflow
    BY <1>2, <2>1, <2>2
  <2> QED
    BY <2>2, <2>3 DEF WorkflowQueued
<1>7. CASE Len(reviews') = Len(reviews) + 1 /\ Len(reviews) = ReviewLimit
  BY <1>2, <1>3, <1>7
<1> QED
  BY <1>2, <1>4, <1>5, <1>6, <1>7 DEF WorkflowQueued

LEMMA OwedStep ==
  ASSUME WfIInv, OwedInv, WfNext
  PROVE  OwedInv'
<1> USE DEF WfIInv
<1>1. ASSUME NEW r \in Runs, StepStarts(r) \/ OtherStarts(r) \/ RunProgress(r)
      PROVE  OwedInv'
  <2>1. (Request(r) \/ Progress(r)) /\ UNCHANGED wfVars
    BY <1>1 DEF StepStarts, OtherStarts, RunProgress
  <2>2. WorkflowQueued => WorkflowQueued'
    <3>1. UNCHANGED reviews \/ \E t \in NeedsReview : Enqueue(r, t)
      BY <2>1, OwnStepOnly DEF RunsInv
    <3>2. CASE UNCHANGED reviews
      BY <3>2 DEF WorkflowQueued
    <3> QED
      BY <3>1, <3>2, WorkflowStaysQueued
  <2> QED
    BY <2>1, <2>2 DEF OwedInv, wfVars
<1>2. CASE StartWorkflow \/ StartBatch \/ GatherDone
  BY <1>2 DEF OwedInv, StartWorkflow, StartBatch, GatherDone, StopInv, Ended, LoopHead
<1>3. ASSUME NEW s \in Steps, CollectResult(s) PROVE OwedInv'
  <2>1. /\ wfPc' = "collect" /\ template' = template
        /\ stopped' = stopped \/ stopped' \in template.stop
    BY <1>3 DEF CollectResult, NextResult
  <2> QED
    BY <2>1 DEF OwedInv, Ended
<1>4. ASSUME HaltWorkflow \/ \E s \in Steps : CollectException(s) PROVE OwedInv'
  <2>1. wfStatus' = "failed" /\ UNCHANGED <<template, stopped>>
    BY <1>4 DEF HaltWorkflow, CollectException, Fail
  <2> QED
    BY <2>1 DEF OwedInv
<1>5. ASSUME NEW final, Conclude(final), UNCHANGED <<template, stopped>>,
             stopped # "none" => final = stopped
      PROVE  OwedInv'
  <2>1. final \in NeedsReview => WorkflowQueued'
    BY <1>5, WorkflowStaysQueued DEF Conclude
  <2> QED
    BY <1>5, <2>1 DEF OwedInv, Conclude, NeedsReview
<1>6. CASE StopWorkflow \/ CompleteWorkflow
  BY <1>5, <1>6 DEF StopWorkflow, CompleteWorkflow, LoopHead
<1>7. CASE PublishWorkflowReview
  BY <1>7 DEF OwedInv, PublishWorkflowReview, vars, Ended,
              WorkflowQueued, RecordInv
<1> QED
  BY <1>1, <1>2, <1>3, <1>4, <1>6, <1>7 DEF WfNext, WorkflowProgress

\* With the default stop list a blocked or escalated step puts its workflow into
\* the review queue unless the workflow fails: only newer reviews, of whatever
\* requests share the queue, can push it out.
THEOREM OutcomesReachAnOperator == WfSpec => []StepsReachAnOperator
<1>1. WfInit => OwedInv
  BY DEF WfInit, OwedInv, Ended
<1>2. WfIInv /\ OwedInv /\ [WfNext]_allVars => OwedInv'
  <2>1. ASSUME OwedInv, UNCHANGED allVars PROVE OwedInv'
    BY <2>1 DEF allVars, vars, wfVars, OwedInv, WorkflowQueued
  <2> QED
    BY <2>1, OwedStep
<1>3. WfIInv /\ OwedInv => StepsReachAnOperator
  <2> SUFFICES ASSUME WfIInv, OwedInv, WfEnded, DefaultStop, wfStatus # "failed",
                      NEW s \in Steps, status[s] \in NeedsReview
               PROVE  WorkflowQueued
    BY DEF StepsReachAnOperator, WorkflowQueued, WfIInv, WfTypeOK, QueueTypeOK
  <2>1. stopped # "none"
    BY DEF WfIInv, RecordInv, StopInv, WfEnded, DefaultStop
  <2>2. wfStatus \in {"blocked", "escalated"}
    BY <2>1 DEF OwedInv, WfEnded, DefaultStop, NeedsReview
  <2> QED
    BY <2>2 DEF OwedInv, WfEnded
<1> QED
  BY <1>1, <1>2, <1>3, WfInvariance, PTL DEF WfSpec
=============================================================================
