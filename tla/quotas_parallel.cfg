SPECIFICATION Spec
CONSTANTS
  m1 = m1
  m2 = m2
  m3 = m3
  c1 = c1
  c2 = c2
  Client = {c1, c2}
  Monitor = {m1, m2, m3}
  Default <- MCDefault
  Override <- MCOverride
  RateLimit = 2
  MaxRequests = 4
  MaxChanges = 2
  MaxOutages = 1
SYMMETRY Interchangeable
INVARIANTS
  DailyUseBounded
  StockBounded
  ChargedOnce
  RateHolds
CHECK_DEADLOCK FALSE
