SPECIFICATION Spec
CONSTANTS
  Calls = {c1}
  Users = {"user"}
  Failures = FALSE
  Interrupts = FALSE
  Reboots = FALSE
  Reinstalls = FALSE
INVARIANT
  OneRadioUser
