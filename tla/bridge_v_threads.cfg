SPECIFICATION Spec
CONSTANTS
  Threads = {t1, t2}
  Main = main
  Lengths = {1, 2}
  Retries = 3
  MaxStale = 0
  SyncMax = 1
  ShutReads = 1
  MaxCalls = 2
  MaxFaults = 0
INVARIANT
  OwnResponse
CHECK_DEADLOCK FALSE
