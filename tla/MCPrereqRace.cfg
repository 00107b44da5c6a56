SPECIFICATION FairSpec
CONSTANTS
  Procs = {p1, p2}
  Files = {f1, f2}
  Nothing = Nothing
  Legacy = Legacy
  MaxTrouble = 3
INVARIANT
  EnsuredIsValid
PROPERTIES
  ValidIsKept
  EventuallyEnsured
