SPECIFICATION Spec
CONSTANTS
  Threads = {t1, t2}
  NoThread = NoThread
  Calls = {"begin", "status", "prepare", "charts", "ucharts", "end", "start", "bstart", "stop", "bstop"}
SYMMETRY Symmetry
INVARIANTS
  UserStopWins
  NoStrayJob
  OneOperation
  QuietInMaintenance
  FailureStaysPaused
