\* One device and three periods, two of which touch: the calendar itself.
SPECIFICATION Spec
CONSTANTS
  Workers = {w1, w2}
  Bookings = {b1, b2}
  Devices = {1}
  Slots <- MCSlots
  Equivalent <- MCEquivalent
  Overdue = {}
  FormStatuses = {"broken"}
  None = None
SYMMETRY MCSymmetry
INVARIANTS
  TypeOK
  NoOverlap
PROPERTIES
  ImplementsLedger
CHECK_DEADLOCK FALSE
