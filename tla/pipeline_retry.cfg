SPECIFICATION MCSpec
CONSTANTS
  Scenes = {1, 2, 3}
  Acquired <- MCAcquired
  Cloud <- MCCloud
  DayLength = 1
  Overlap = 1
  NoScene = NoScene
  Worker = worker
  Callers = {}
  Requests <- DefaultOnly
  Limit = 3
  ChangedPairs <- FirstPair
  LastDay = 1
  Midnight = FALSE
  MaxRetries = 1
  Faults = {}
  MaxFaults = 0
INVARIANTS
  PreparedScenesReady
