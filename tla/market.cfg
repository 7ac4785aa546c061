CONSTANTS
  Offers = {o1, o2}
  Validation = {o2}
  AcceptPerHour = 1
  Reserve = 1
  MaxActive = 2
  MaxFrames = 3
  MaxAccepts = 2
  MaxFailures = 1
  MaxCrashes = 1
SPECIFICATION Spec
CONSTRAINT CalmInLargeRooms
CHECK_DEADLOCK FALSE
INVARIANTS OncePerDeal AuditIsTrue
 
