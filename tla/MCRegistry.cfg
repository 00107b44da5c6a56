SPECIFICATION Spec
CONSTANTS
  e1 = e1
  e2 = e2
  a1 = a1
  None = None
  Writers = {w1, w2}
  Readers = {r1}
  Entities = {e1, e2}
  Aliases = {a1}
  Patches <- SomePatches
  MaxFail = 1
  MaxHeads = 3
SYMMETRY Symmetry
INVARIANTS
  HistoryIsSound
  EntitiesAreFinal
PROPERTY
  HistorySpec
