SPECIFICATION LiveSpec
CONSTANTS
  Uplinks = {u1}
  Downlinks = {d1, d2}
  Noise = noise
  Undecodable = {d2}
  None = None
  MaxRx = 0
  MaxDown = 2
  MaxFaults = 1
  Garbled = TRUE
  Timely = FALSE
  Interrupts = TRUE
PROPERTIES
  ServedInOrder
  EventuallyListening
  RestoredByDownlink
  EveryDownlinkServed
CHECK_DEADLOCK FALSE
