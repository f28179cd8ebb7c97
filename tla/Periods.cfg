SPECIFICATION FairSpec
CONSTANTS
  None = None
  Requests = {r1, r2, r3}
  Months = {m1}
  Units = {u1, u2, u3}
  Reachable = {u1, u2}
CHECK_DEADLOCK FALSE
INVARIANTS
  OnePeriodPerMonth
  PeriodIsComplete
  AnsweredApprovalAnnounced
PROPERTIES
  ApprovalAnnounces
