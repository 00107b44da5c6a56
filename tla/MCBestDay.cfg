SPECIFICATION Spec
CONSTANTS
  c1 = c1
  c2 = c2
  Codes = {c1, c2}
  Routes = {"whole", "partial", "auto"}
  Start <- HoldsFirst
  MaxQty = 2
  MaxDay <- WholeTwice
  MaxSends = 2
  MaxRetries = 1
  None = None
\* A blocked plan stays until the next signal.
CHECK_DEADLOCK FALSE
INVARIANTS
  QuantitiesAreFixed
  NoReversal
  NothingForgotten
PROPERTY
  SellsFinishFirst
