CONSTANTS
  Offers = {o1}
  Validation = {}
  AcceptPerHour = 1
  Reserve = 0
  MaxActive = 2
  MaxFrames = 2
  MaxAccepts = 1
  MaxFailures = 1
  MaxCrashes = 0
SPECIFICATION FairSpec
CHECK_DEADLOCK FALSE
PROPERTY LoopIsNotStalled
