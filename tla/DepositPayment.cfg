\* Two payments of one booking, two requests and the job, one failure.
SPECIFICATION FairSpec
CONSTANTS
  Requests = {r1, r2}
  Payments = {p1, p2}
  MaxFailures = 1
  None = None
INVARIANTS
  TypeOK
  NoRefundWithoutDeposit
  PaidNoticeOnce
  PendingIsWatched
  PaidIsNotLeftPending
PROPERTIES
  WebhookNeverRevives
  PendingEnds
  PaymentsSettle
CHECK_DEADLOCK FALSE
