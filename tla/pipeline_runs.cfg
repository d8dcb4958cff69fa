SPECIFICATION MCSpec
CONSTANTS
  Scenes = {1, 2, 3, 4}
  Acquired <- MCAcquired
  Cloud <- MCCloud
  DayLength = 1
  Overlap = 1
  NoScene = NoScene
  Worker = worker
  Callers = {c1}
  Requests <- DefaultOrForced
  Limit = 3
  ChangedPairs <- FirstPair
  LastDay = 2
  Midnight = TRUE
  MaxRetries = 1
  Faults = {"crash", "files_lost"}
  MaxFaults = 1
INVARIANTS
  TypeOK
  PreviousAfterAnalysed
  CompletedRunDelivers
  ForcedRunFindsProducts
  CancelBoundsWork
  DuplicatesBounded
PROPERTIES
  RunEnds
