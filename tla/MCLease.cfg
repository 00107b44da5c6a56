SPECIFICATION FairSpec
CONSTANTS
  Callers = {h1}
  Jobs = {j1, j2}
\* Under the quarantine nothing is admitted and the slot stays taken.
CHECK_DEADLOCK FALSE
INVARIANTS
  OneHeavyTree
  QuarantineKeepsSlot
  CancelIsProof
PROPERTIES
  QuarantineIsolates
