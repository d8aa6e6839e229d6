SPECIFICATION Spec
CONSTANTS
  Calls = {c1, c2}
  Users = {"root", "user"}
  Failures = TRUE
  Interrupts = TRUE
  Reboots = TRUE
  Reinstalls = TRUE
INVARIANTS
  TypeOK
  StopBeforeStart
  FileIsTruth
