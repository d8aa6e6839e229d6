SPECIFICATION Spec
CONSTANTS
  Threads = {t1, t2}
  Main = main
  Lengths = {1}
  Retries = 2
  MaxStale = 1
  SyncMax = 1
  ShutReads = 1
  MaxCalls = 3
  MaxFaults = 2
INVARIANTS
  TypeOK
  NeverStarve
  OwnIfAlone
SYMMETRY ThreadSymmetry
CHECK_DEADLOCK FALSE
