SPECIFICATION MCSafetySpec
CONSTANTS
  Monitors = {m1}
  Jobs = {j1, j2}
  Clients = {c1, c2}
  Workers = {w1, w2}
  MaxRetries = 1
  Faults = {"api_crash", "send_ambiguous", "republish_lost", "db_error", "worker_crash", "redeliver"}
  MaxFaults = 1
  NoMonitor = NoMonitor
  NoJob = NoJob
  NoMsg = NoMsg
SYMMETRY Symmetry
INVARIANTS
  OneActiveJob
  JobAndRunAgree
  OverlapOnlyWithCancelled
PROPERTIES
  CancelledBeforePickupStays
