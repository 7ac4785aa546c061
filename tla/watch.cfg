CONSTANTS
  Watchers = {"scorer", "sources", "digest"}
  Configured = {a}
  Announced = {b}
  Malformed = malformed
  TclkRooms = {b}
  MaxMsgs = 2
  MaxFailures = 1
  MaxCrashes = 1
  ByName <- MCByName
  Broken = {"s1"}
  Hashes = {"a", "b"}
  Operators = {"o1"}
  PerTick = 2
  SrMaxFaults = 1
  ByTitle <- MCByTitle
  Changes = {c1}
  Evaluations = {e1, e2}
  Low = {e2}
  Clerks = {"k1"}
  PAGE = 1
  PerRun = 1
  Interval = 1
  DgMaxTime = 2
  DgMaxDigests = 2
SPECIFICATION WatchSpec
CHECK_DEADLOCK FALSE
INVARIANTS CursorsPassNothing NothingIsSkipped
PROPERTIES NoAlertAfterCommit RoomsCatchUp SourcesAreWatched
