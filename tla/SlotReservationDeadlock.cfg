\* The same instance: the circle of waits itself.
SPECIFICATION Spec
CONSTANTS
  Workers = {w1, w2}
  Bookings = {b1}
  Devices = {1, 2}
  Slots <- MCOneSlot
  Equivalent <- MCEquivalent
  Overdue = {b1}
  FormStatuses = {"available"}
  None = None
INVARIANT
  NoDeadlock
CHECK_DEADLOCK FALSE
