---------------------------- MODULE MCMemoryGraph ----------------------------
\* MemoryGraph for TLC: a cause, its effect, which is stored twice, and the link
\* between them; and the two ways to find a causal chain, compared.
EXTENDS MemoryGraph, CausalChains

CONSTANTS cause, effect, c1, e1, e2

MCStores == {c1, e1, e2}
MCTarget == [r \in MCStores |-> IF r = c1 THEN cause ELSE effect]
MCMemoryType == [r \in MCStores |-> IF r = e1 THEN "working" ELSE "episodic"]
MCLinks == {<<cause, effect>>}

\* causal_parents of three nodes, in any order, cycles included, and of nodes
\* that have been forgotten.
Histories == [1..3 -> {s \in BoundedSeq(1..4, 2) : IsInjective(s)}]

\* What memory answers is part of what the graph answers, no node twice.
ASSUME LocalChainIsSound ==
  \A h \in Histories, d \in 0..3 :
    LET chain == LocalChain(h, 1, d)
    IN  IsInjective(chain) /\ ToSet(chain) \subseteq GraphChain(1..3, EdgesOf(h), 1, d)

\* With a depth no path can exhaust the two agree.
ASSUME DeepChainsAgree ==
  \A h \in Histories : ToSet(LocalChain(h, 1, 2)) = GraphChain(1..3, EdgesOf(h), 1, 2)

\* Otherwise a node first met on a detour may hide what lies behind it: here 4,
\* two links away from 1, is missed.
Detour == <<<<2, 3>>, <<3>>, <<4>>, <<>>>>
ASSUME ShallowChainsMayMissNodes ==
  LocalChain(Detour, 1, 2) = <<1, 2, 3>> /\ GraphChain(1..4, EdgesOf(Detour), 1, 2) = 1..4
=============================================================================
