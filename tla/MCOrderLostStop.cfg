SPECIFICATION Spec
CONSTANTS
  a1 = a1
  a2 = a2
  c1 = c1
  c2 = c2
  Accounts = {a1}
  Paper = Paper
  Codes = {c1, c2}
  Manifests <- OneSwap
  MaxGen = 0
  MaxQty = 1
  StartShares <- Second
  NoId = NoId
  Driven = FALSE
PROPERTY
  StopDuringStart
