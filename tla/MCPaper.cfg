SPECIFICATION Spec
CONSTANTS
  Codes = {1, 2}
  Prices = {1, 2}
  Quotes <- SomeQuotes
  Plans <- TwoPlans
  Routes = {"whole", "qualified", "automatic"}
  Parts = 2
  StartCash = 12004
  StartQty <- TwoCodes
  MaxDay = 2
INVARIANTS
  TypeOK
  FreshIds
  TowardsTarget
  ExecutedIsReached
  LedgerIsFills
  NavOfItsDay
PROPERTIES
  ExecutedIsFinal
  StopHonoured
