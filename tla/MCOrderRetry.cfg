SPECIFICATION Spec
CONSTANTS
  a1 = a1
  a2 = a2
  c1 = c1
  c2 = c2
  Accounts = {a1, a2}
  Paper = Paper
  Codes = {c1}
  Manifests <- OneRetry
  MaxGen = 1
  MaxQty = 2
  StartShares <- NoShares1
  NoId = NoId
  Driven = TRUE
INVARIANTS
  SentAtMostOnce
  RowDescribesOrder
  RetryWithinOriginal
  OneOutstanding
PROPERTIES
  HaltHolds
  FillsOnlyGrow
