SPECIFICATION FairSpec
CONSTANTS
  Threads = {t1, t2}
  NoThread = NoThread
  Calls = {"begin", "status", "prepare", "charts", "ucharts", "abort", "halt", "bstop"}
PROPERTIES
  DrainEnds
