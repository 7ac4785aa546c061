CONSTANTS
  Workers = {w1}
  MaxTasks = 1
  MaxRuns = 1
  MaxApprovals = 1
  MaxTickets = 2
  MaxUnread = 1
  MaxRetries = 0
  MaxRecovered = 1
  MaxFailures = 0
  Faults = {}
  Operations = {"web"}
SPECIFICATION FairSpec
CHECK_DEADLOCK FALSE
PROPERTY ApprovedRunResumes
