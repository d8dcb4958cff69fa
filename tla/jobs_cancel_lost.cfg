SPECIFICATION MCSafetySpec
CONSTANTS
  Monitors = {m1}
  Jobs = {j1}
  Clients = {c1}
  Workers = {w1}
  MaxRetries = 1
  Faults = {}
  MaxFaults = 0
  NoMonitor = NoMonitor
  NoJob = NoJob
  NoMsg = NoMsg
PROPERTIES
  CancelledStaysCancelled
