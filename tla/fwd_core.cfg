SPECIFICATION Spec
CONSTANTS
  Uplinks = {u1, u2}
  Downlinks = {d1, d2}
  Noise = noise
  Undecodable = {}
  None = None
  MaxRx = 3
  MaxDown = 2
  MaxFaults = 0
  Garbled = FALSE
  Timely = TRUE
  Interrupts = FALSE
INVARIANTS
  TypeOK
  NeverStranded
  DoneIsOwn
  NoDuplicatePush
SYMMETRY FrameSymmetry
