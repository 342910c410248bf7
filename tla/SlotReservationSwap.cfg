\* Two rentals on two devices: swaps, returns and cancellations cross.
SPECIFICATION Spec
CONSTANTS
  Workers = {w1, w2}
  Bookings = {b1, b2}
  Devices = {1, 2}
  Slots <- MCOneSlot
  Equivalent <- MCEquivalent
  Overdue = {}
  FormStatuses = {"available"}
  None = None
SYMMETRY MCSymmetry
INVARIANTS
  SortedOrderSuffices
  HoldsItsRows
  ChecksStillHold
PROPERTIES
  CreatesOnLiveDevice
  SwapsToFreeDevice
  CalendarGrowsUnderLock
CHECK_DEADLOCK FALSE
