CONSTANTS
  Workers = {w1, w2}
  MaxTasks = 1
  MaxRuns = 2
  MaxApprovals = 1
  MaxTickets = 3
  MaxUnread = 1
  MaxRetries = 1
  MaxRecovered = 2
  MaxFailures = 1
  Faults = {"crash", "expire"}
  Operations = {"web"}
SPECIFICATION FairSpec
CHECK_DEADLOCK FALSE
INVARIANTS LeaseExclusion
PROPERTIES TerminalUnlessRecovered QueuedRunIsClaimed ExecutingRunRests
