SPECIFICATION Spec
CONSTANTS
  t1 = t1
  t2 = t2
  t3 = t3
  c1 = c1
  c2 = c2
  c3 = c3
  b1 = b1
  b2 = b2
  Browser = {b1, b2}
  Tab = {t1, t2, t3}
  BrowserOf <- MCBrowserOf
  FormTab = {t1, t3}
  Call = {c1, c2, c3}
  TabOf <- MCTabOf
  Start <- MCStart
  None = None
  Denied = Denied
  MaxSessions = 3
  MaxForms = 1
  MaxLosses = 1

SYMMETRY Interchangeable
INVARIANTS
  TypeOK
  OneSessionPerSignIn
  SignOutHolds
  CookiesUsable
  WaitingHasRefresh
