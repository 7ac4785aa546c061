CONSTANTS
  Workers = {w1, w2}
  MaxTasks = 1
  MaxRuns = 1
  MaxApprovals = 2
  MaxTickets = 2
  MaxUnread = 1
  MaxRetries = 0
  MaxRecovered = 1
  MaxFailures = 2
  Faults = {"crash", "slip", "expire"}
  Operations = {"web"}
SPECIFICATION Spec
CHECK_DEADLOCK FALSE
SYMMETRY Symmetry
INVARIANTS TypeOK EffectAtMostOnce RecordIsTruthful
PROPERTIES ApprovalsAreSingleUse
