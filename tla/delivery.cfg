CONSTANTS
  Workers = {w1}
  MaxTasks = 1
  MaxRuns = 2
  MaxApprovals = 1
  MaxTickets = 2
  MaxUnread = 1
  MaxRetries = 1
  MaxRecovered = 1
  MaxFailures = 2
  Faults = {"crash", "lost", "noack", "sched"}
  Operations = {"web", "telegram", "pause", "stop", "resume", "retry"}
SPECIFICATION Spec
CHECK_DEADLOCK FALSE
INVARIANT QueuedHasMessage
CONSTRAINT CalmAfterRetry
