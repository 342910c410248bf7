\* Two requests, two reports, two devices, four days of which the third is too late.
SPECIFICATION Spec
CONSTANTS
  HOUR_MS = 1
  REFUND_ROUNDING_VND = 10
  Requests = {r1, r2}
  Reports = {i1, i2}
  d1 = d1
  d2 = d2
  Devices <- MCDevices
  originalPrice <- MCOriginalPrice
  pricePerDay <- MCPricePerDay
  FirstDevice = d1
  TotalPrice = 100
  EndTime <- MCEndTime
  LOST_SUSPECT_OVERDUE_DAYS = 1
  Damages = {0, 800}
  RepairCosts = {600}
  Amounts = {200}
  LastDay = 3
  None = None
SYMMETRY MCSymmetry
INVARIANTS
  SuspicionNoticedOnce
  RepairFeeCoversReports
PROPERTIES
  NeverOverCollected
  DamageFeeIsFinal
