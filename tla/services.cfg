CONSTANTS
  Services = {"outbox", "events", "inbox", "memory"}
  Runs = {r1, r2}
  Workers = {w1, w2}
  Scheduler = sched
  Tabs = {t1, t2}
  NoOne = noone
  LIMIT = 2
  MaxEvents = 3
  MaxBreaks = 2
  Updates = {u1, u2}
  Handlers = {h1, h2}
  InMaxFaults = 2
  Items = {i1}
  Admins = {a1, a2}
  MinRuns = 2
  MeMaxTime = 2
  MeMaxFailures = 1
  MaxRows = 3
  Limit = 2
  MaxAttempts = 1
  MaxErrors = 2
  MaxCrashes = 2
SPECIFICATION ServiceSpec
CHECK_DEADLOCK FALSE
INVARIANTS HandledOnce ServedIsEarned
PROPERTIES LogIsFeed OutboxIsRelay EveryMessageIsPublished EventsArrive UpdatesGetHandled BadItemsLeave
