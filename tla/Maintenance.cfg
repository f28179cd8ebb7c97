SPECIFICATION Spec
CONSTANTS
  None = None
  Requests = {r1, r2, r3}
  Tickets = {t1}
  People = {p1, p2}
  Costs = {k1, k2}
  Seeds = {"NONE", "SUBMITTED", "IN_PROGRESS"}
SYMMETRY TicketSymmetry
CHECK_DEADLOCK FALSE
INVARIANTS
  TrailIsHistoryUnlessOverlapped
  DoneIsResolvedUnlessOverlapped
  NewestAssignmentHolds
  PeopleAreTold
PROPERTIES
  MovesAllowedUnlessOverlapped
