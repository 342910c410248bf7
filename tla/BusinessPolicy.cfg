\* Half an hour to the unit of time, 10 dong to the unit of amount.
SPECIFICATION Spec
CONSTANTS
  HOUR_MS = 2
  REFUND_ROUNDING_VND = 100
  Rentals <- MCRentals
  Clock <- MCClock
INVARIANTS
  LateFeeIsProgressive
  BestTierApplies
  UnusedShareIsRefunded
  DueAfterThreeWorkingDays
  LostClaimIsCapped
PROPERTIES
  LongerCostsNoLess
CHECK_DEADLOCK FALSE
