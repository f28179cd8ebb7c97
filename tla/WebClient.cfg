SPECIFICATION Spec
CONSTANTS
  Requests = {1, 2, 3}
  Calls = {c1, c2}
  Tabs = {t1, t2}
  AccessTtl = 1
  RefreshTtl = 2
  MaxTime = 3
  None = None
SYMMETRY ClientSymmetry
INVARIANTS
  OneSessionPerLogin
  LogoutEndsLogin
  RevocationReachesAll
  StoreIsLive
  NotThrownOut
  NoCallForgotten
