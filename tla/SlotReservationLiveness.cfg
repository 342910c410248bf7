\* One booking, two devices: a swap meets a return and must not hang.
SPECIFICATION FairSpec
CONSTANTS
  Workers = {w1, w2}
  Bookings = {b1}
  Devices = {1, 2}
  Slots <- MCOneSlot
  Equivalent <- MCEquivalent
  Overdue = {b1}
  FormStatuses = {}
  None = None
PROPERTIES
  RequestsFinish
CHECK_DEADLOCK FALSE
