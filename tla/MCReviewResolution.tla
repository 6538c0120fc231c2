------------------------- MODULE MCReviewResolution -------------------------
\* ReviewResolution for TLC: two operators, and a queue that the reviews of
\* one replay, or of other runs, can push an item out of.
EXTENDS ReviewResolution

CONSTANTS first, second

MCRequests == {first, second}
=============================================================================
