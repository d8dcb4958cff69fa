SPECIFICATION MCSpec
CONSTANTS
  Monitors = {m1}
  Jobs = {j1, j2}
  Clients = {c1}
  Workers = {w1}
  MaxRetries = 1
  Faults = {"worker_crash"}
  MaxFaults = 1
  NoMonitor = NoMonitor
  NoJob = NoJob
  NoMsg = NoMsg
INVARIANTS
  ActiveJobHasDriver
PROPERTIES
  ContractHolds
  SlotsHold
