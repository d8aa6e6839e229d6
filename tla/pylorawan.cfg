SPECIFICATION LibrarySpec
CONSTANT
  None = None
INVARIANTS
  RoundTrip
  PrefixParsed
  Authentic
  Regenerates
  Delivered
  SendingLegal
  UplinkFound
  Rx1Usable
  Rx1Carries
  Rx1AsTabled
CHECK_DEADLOCK FALSE
