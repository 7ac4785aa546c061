--------------------------- MODULE MCRunLifecycle ---------------------------
(* RunLifecycle for TLC: workers are interchangeable.                      *)
EXTENDS RunLifecycle, TLC

Symmetry == Permutations(Workers)

\* Bound of "delivery": once there is a second run, pause, stop and a second
\* fault are not followed any further.
CalmAfterRetry ==
  run[MaxRuns].status = "NONE" \/ (failures <= 1 /\ \A r \in Runs : run[r].control = "none")
=============================================================================
