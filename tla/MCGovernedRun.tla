--------------------------- MODULE MCGovernedRun ---------------------------
\* GovernedRun for TLC: an agent run, a task run, a step some workflow asked
\* for and a dangling task run, interleaved; the review queue is shorter than
\* the three reviews they can produce.
EXTENDS GovernedRun

CONSTANTS agent1, task1, step1, lost1

MCRuns == {agent1, task1, step1, lost1}
MCKind == [r \in MCRuns |-> CASE r = agent1 -> "agent"
                              [] r = step1 -> "step"
                              [] OTHER -> "task"]
MCDangling == {lost1}
=============================================================================
