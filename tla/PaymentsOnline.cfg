SPECIFICATION FairSpec
CONSTANTS
  None = None
  Requests = {r1, r2, r3}
  Boxes = {b1}
  Charges = {c1}
  Auths = {a1, a2, a3}
  Amounts = {2}
  Opening <- SmallOpening
  SeedBoxes = {b1}
  Due <- TwoDue
  Kinds = {"expense", "manual", "initiate", "verify"}
  Serial = FALSE
CHECK_DEADLOCK FALSE
INVARIANTS
  TrxShowsItsPayment
  BooksFollowMoney
PROPERTIES
  EveryRequestEnds
