SPECIFICATION Spec
CONSTANTS
  Accept = Accept
  Data = Data
  Noise = Noise
  None = None
  NonceMod = 2
  Library = FALSE
  MaxFaults = 0
  Garbled = TRUE
  Timely = TRUE
PROPERTY
  AcceptTaken
