\* One overdue rental, confirmed lost and then cancelled.
SPECIFICATION Spec
CONSTANTS
  Workers = {w1}
  Bookings = {b1}
  Devices = {1}
  Slots <- MCOneSlot
  Equivalent <- MCEquivalent
  Overdue = {b1}
  FormStatuses = {}
  None = None
PROPERTY
  LostIsFinal
CHECK_DEADLOCK FALSE
