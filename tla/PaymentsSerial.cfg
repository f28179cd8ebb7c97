SPECIFICATION Spec
CONSTANTS
  None = None
  r1 = r1
  r2 = r2
  r3 = r3
  c1 = c1
  c2 = c2
  u1 = u1
  k1 = k1
  Requests = {r1, r2, r3}
  Boxes = {b1, b2}
  Charges = {c1, c2}
  Auths = {a1}
  Amounts = {1}
  Opening <- SmallOpening
  SeedBoxes = {b1}
  Due <- TwoDue
  Kinds = {"income", "expense", "cashbox", "manual", "initiate", "verify"}
  Serial = TRUE
  Issued <- InOrder
  UnitOf <- SameUnit
  CategoryOf <- SomeCategories
  Latest = 1
  Years = {1402, 1403}
  StartOf <- SmallCalendar
  EndOf <- SmallCalendarEnds
  Day = 8
  Second = 2
  Noon = 3
  Zones = {0, 3}
  DayOf <- SomeDays
  Moment <- SomeMoments
CHECK_DEADLOCK FALSE
INVARIANTS
  DebtFiguresAgree
  TypedDatesStay
  FinanceFiguresAgree
PROPERTIES
  ChargeOnlyMovesForward
  SuccessIsFinal
  ImplementsLedger
