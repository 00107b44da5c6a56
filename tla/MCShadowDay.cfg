SPECIFICATION Spec
CONSTANTS
  p1 = p1
  p2 = p2
  k1 = k1
  k2 = k2
  Absent = Absent
  Procs = {p1, p2}
  Dates = {1}
  Keys = {k1, k2}
  MaxRuns = 3
CHECK_DEADLOCK FALSE
PROPERTY CalendarSpec
SYMMETRY Symmetry
