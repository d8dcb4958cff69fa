SPECIFICATION Spec
CONSTANTS
  Monitors = {m1}
  Scanners = {s1}
  MaxDue = 1
  Faults = {}
  MaxFaults = 0
  NoScanner = NoScanner
INVARIANTS
  DisabledHasNoTime
