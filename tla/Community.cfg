SPECIFICATION Spec
CONSTANTS
  Requests = {r1, r2}
  Units = {u1}
  Floors = {f1}
  Residents = {x1, x2}
  Owners = {o1}
  Posts = {a1}
  Accounts = {x1, x2, o1}
  None = None
SYMMETRY CommunitySymmetry
INVARIANTS
  CountsHold
  NewestLeaseHolds
  AnsweredReachedAudience
CHECK_DEADLOCK FALSE
