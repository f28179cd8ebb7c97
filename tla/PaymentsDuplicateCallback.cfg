SPECIFICATION Spec
CONSTANTS
  None = None
  Requests = {r1, r2, r3}
  Boxes = {b1}
  Charges = {c1}
  Auths = {a1}
  Amounts = {1, 2}
  Opening <- SmallOpening
  SeedBoxes = {b1}
  Due <- TwoDue
  Kinds = {"initiate", "verify"}
  Serial = FALSE
SYMMETRY RequestSymmetry
CHECK_DEADLOCK FALSE
INVARIANTS
  AtMostOnePaymentPerTrx
