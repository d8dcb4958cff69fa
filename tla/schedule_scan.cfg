SPECIFICATION MCSpec
CONSTANTS
  Monitors = {m1, m2, m3}
  Scanners = {s1, s2}
  Third = m3
  First = s1
  MaxDue = 2
  Faults = {"crash"}
  MaxFaults = 1
  NoScanner = NoScanner
INVARIANTS
  TypeOK
  OneScanAtATime
  ServedSlotIsBusy
PROPERTIES
  DueIsServed
