----------------------------- MODULE MCTclkAgent -----------------------------
EXTENDS TclkAgent, TLC

\* Bound of "market": a failure and a restart together are followed only in
\* rooms one frame smaller than the largest.
CalmInLargeRooms == failures = 0 \/ crashes = 0 \/ Len(room) < MaxFrames
=============================================================================
