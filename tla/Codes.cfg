SPECIFICATION Spec
CONSTANTS
  Requests = {r1, r2, r3}
  Cooldown = 1
  Ttl = 2
  MaxAttempts = 1
  MaxTime = 3
  None = None
SYMMETRY RequestSymmetry
INVARIANTS
  CodesAreSpaced
  OneUsePerCode
  AttemptsBounded
  RegisteredHaveRole
CHECK_DEADLOCK FALSE
