SPECIFICATION Spec
CONSTANTS
  c1 = c1
  c2 = c2
  Codes = {c1, c2}
  Routes = {"auto"}
  Start <- HoldsFirst
  MaxQty = 2
  MaxDay <- Twice
  MaxSends = 1
  MaxRetries = 1
  None = None
\* A blocked plan stays until the next signal.
CHECK_DEADLOCK FALSE
INVARIANT
  ExitsAreSold
