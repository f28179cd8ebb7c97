SPECIFICATION Spec
CONSTANTS
  None = None
  Requests = {r1, r2, r3, r4}
  Boxes = {b1, b2}
  Charges = {c1}
  Auths = {a1}
  Amounts = {1, 2}
  Opening <- SmallOpening
  SeedBoxes = {}
  Due <- TwoDue
  Kinds = {"income", "expense", "cashbox", "manual"}
  Serial = FALSE
SYMMETRY RequestSymmetry
CHECK_DEADLOCK FALSE
INVARIANTS
  PaidNeverExceedsCollected
  ChargeExactUnlessOverlapped
  BoxExactUnlessOverlapped
