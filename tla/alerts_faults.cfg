SPECIFICATION Spec
CONSTANTS
  s1 = s1
  s2 = s2
  run = run
  event = event
  w1 = w1
  w2 = w2
  Session = {s1, s2}
  Key = {run, event}
  Batch <- MCBatch
  RunKey = {run}
  Worker = {w1, w2}
  None = None
  MaxRetries = 1
  MaxFaults = 1
  MaxSwitches = 1
INVARIANTS
  AlertsAreKept
  EmailedOnce
PROPERTIES
  DeliverySettles
CHECK_DEADLOCK FALSE
