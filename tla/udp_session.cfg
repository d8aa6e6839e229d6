CONSTANTS
  Responses = {d1, d2, garbled, list, empty}
  Unparsable = {garbled}
  NoObject = {list}
  NoTxpk = {empty}
  None = None
  d1 = d1
  d2 = d2
  garbled = garbled
  list = list
  empty = empty
  MaxPush = 2
  MaxArrivals = 2
  MaxFaults = 1
SPECIFICATION LiveSpec
INVARIANTS TypeOK ReportsCount QueuedInOrder
PROPERTIES KeepaliveGoesOn ArrivalsHandled
CHECK_DEADLOCK FALSE
