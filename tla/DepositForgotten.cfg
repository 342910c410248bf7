\* No failure at all: the order of the calls is enough.
SPECIFICATION Spec
CONSTANTS
  Requests = {r1, r2}
  Payments = {p1}
  MaxFailures = 0
  None = None
SYMMETRY MCSymmetry
INVARIANT
  NoForgottenDeposit
CHECK_DEADLOCK FALSE
