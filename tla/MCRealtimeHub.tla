---------------------------- MODULE MCRealtimeHub ----------------------------
\* RealtimeHub for TLC: two posts on a topic that another service uses too.
EXTENDS RealtimeHub

CONSTANTS post1, post2, foreign
=============================================================================
