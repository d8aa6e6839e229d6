SPECIFICATION Spec
CONSTANTS
  Uplinks = {u1}
  Downlinks = {d1, d2}
  Noise = noise
  Undecodable = {}
  None = None
  MaxRx = 0
  MaxDown = 2
  MaxFaults = 0
  Garbled = FALSE
  Timely = TRUE
  Interrupts = FALSE
PROPERTY
  TxUninterrupted
