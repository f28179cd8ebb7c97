SPECIFICATION Spec
CONSTANTS
  Requests = {1, 2, 3}
  Calls = {c1}
  Tabs = {t1}
  AccessTtl = 1
  RefreshTtl = 2
  MaxTime = 3
  None = None
SYMMETRY ClientSymmetry
INVARIANTS LogoutEndsTheSession
