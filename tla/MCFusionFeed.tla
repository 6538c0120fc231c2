---------------------------- MODULE MCFusionFeed ----------------------------
\* FusionFeed for TLC: two pipeline runs, one with two packets, and a client
\* that posts something else on their topic.
EXTENDS FusionFeed

CONSTANTS r1, r2, other

MCPerRun == [r \in {r1, r2} |-> IF r = r1 THEN 2 ELSE 1]
MCMessages == ({r1, r2} \X (1..2)) \cup {other}
=============================================================================
