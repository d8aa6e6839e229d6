SPECIFICATION LiveSpec
CONSTANTS
  Accept = Accept
  Data = Data
  Noise = Noise
  None = None
  NonceMod = 2
  Library = TRUE
  MaxFaults = 1
  Garbled = TRUE
  Timely = FALSE
INVARIANTS
  TypeOK
  InitClean
  SentAsWritten
PROPERTIES
  StandbyBeforeTx
  CallsEnd
  QuietAtLast
