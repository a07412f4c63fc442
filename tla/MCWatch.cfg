SPECIFICATION WatchSpec
CONSTANTS
  Part = {"app"}
  Flaw = {"gomod", "php"}
  About <- MCAbout
  Stopgapped = {"gomod"}
  TopVersion = 2
  AGENT_TICK = 1
  AGENT_DAY = 1
  MaxBad = 1
  Alert = {"kev", "high"}
  Curated = {"kev"}
  Momentary = {"lead"}
  Failure = {"failed"}
  URGENT_MAX = 1
  MAX_RENDERED = 1
  MaxUnlucky = 1
  WAIT_LIMIT = 3
  MaxPushes = 1
INVARIANTS TypesOK WatchTellsTruth
PROPERTIES ClosedWhenGone WatchLiveness
CHECK_DEADLOCK FALSE
