SPECIFICATION Spec
CONSTANTS
  Units = {u1, u2, u3}
  UnitInputs <- SomeInputs
  Bases = {0, 5}
  ItemLists <- SomeItems
  Formulas <- SomeFormulas
  Scale = 100
SYMMETRY UnitSymmetry
CHECK_DEADLOCK FALSE
INVARIANTS
  BreakdownAddsUp
  ChargesAddUpToPeriod
PROPERTIES
  GrowingUnitSparesOthers
