-------------------------- MODULE RentalSettlement --------------------------
(***************************************************************************)
(* What becomes of one rental in progress: issue reports and their three   *)
(* resolutions (booking-issues.service.ts), the return and its settlement, *)
(* the cancellation and the refund (bookings.service.ts), the overdue job  *)
(* and the loss (booking-loss.service.ts), and the debt that is collected  *)
(* afterwards (debts.service.ts).                                          *)
(*                                                                         *)
(* Every handler reads the booking, awaits, and writes.  Only `collect`    *)
(* reads under a row lock; the others write whatever they decided, so that *)
(* a booking may be closed twice.  The figures are those of                *)
(* BusinessPolicy; device rows and their locks are in SlotReservation.     *)
(***************************************************************************)
EXTENDS BusinessPolicy, FiniteSets, FiniteSetsExt

CONSTANTS
  Requests,       \* requests and job runs that can be in progress together
  Reports,        \* issue reports the run may file
  Devices,        \* the device rented and those it may be swapped for
  originalPrice,  \* value of each device
  pricePerDay,    \* price of each device
  FirstDevice,    \* the device handed over at the start
  TotalPrice,     \* the rent
  EndTime,        \* end of the rental, which starts at 0
  LOST_SUSPECT_OVERDUE_DAYS,
  Damages,        \* damage fees a clerk may enter, 0 for an intact device
  RepairCosts,    \* repair costs a clerk may enter
  Amounts,        \* sums a clerk may collect
  LastDay,        \* bound of the clock, in days
  None            \* no device, no report, no request

ASSUME PricesAreAmounts ==
  /\ originalPrice \in [Devices -> Nat]
  /\ pricePerDay \in [Devices -> Nat]
ASSUME DeviceIsHandedOver == FirstDevice \in Devices
ASSUME FiguresAreAmounts ==
  /\ Damages \subseteq Nat
  /\ RepairCosts \subseteq Nat
  /\ Amounts \subseteq Nat \ {0}
ASSUME TimesAreCounted == EndTime \in Nat /\ TotalPrice \in Nat /\ LastDay \in Nat
                          /\ LOST_SUSPECT_OVERDUE_DAYS \in Nat
ASSUME ReportsAreFinite == IsFiniteSet(Reports)
ASSUME NoneIsNothing == None \notin Requests \union Devices \union Reports

VARIABLES
  booking,     \* the row of bookings
  report,      \* the rows of device_issue_reports
  returned,    \* a return inspection exists: unique per booking
  now,         \* the clock, a multiple of a day
  lock,        \* the request that has locked the row of bookings
  req,         \* what each request is doing
  notices      \* history: "suspected lost" notices sent

rows == <<booking, report, returned>>
vars == <<rows, now, lock, req, notices>>

-----------------------------------------------------------------------------
Closed == {"completed", "cancelled", "lost"}
NoFigures == [late |-> 0, damage |-> 0, owed |-> 0, back |-> 0, rental |-> 0]

Idle == [op |-> "idle", pc |-> "idle", report |-> None, device |-> None,
         amount |-> 0, figures |-> NoFigures]

At(w, op, pc) == req[w].op = op /\ req[w].pc = pc
Begin(w, op, pc) == req' = [req EXCEPT ![w] = [Idle EXCEPT !.op = op, !.pc = pc]]
Goto(w, pc) == req' = [req EXCEPT ![w].pc = pc]
Finish(w) == req' = [req EXCEPT ![w] = Idle]

DepositAmount == calculateDeposit(originalPrice[FirstDevice])

Init ==
  /\ booking = [status |-> "ongoing", device |-> FirstDevice, suspected |-> FALSE,
                lateFee |-> 0, damageFee |-> 0, repairFee |-> 0,
                amountOwed |-> 0, debtPaid |-> 0,
                rentalRefund |-> 0, depositRefund |-> 0, refund |-> "none"]
  /\ report = [r \in Reports |-> [status |-> "absent", resolution |-> "none", repairCost |-> 0]]
  /\ returned = FALSE
  /\ now = 0
  /\ lock = None
  /\ req = [w \in Requests |-> Idle]
  /\ notices = 0

(* A statement that writes the booking waits for the holder of its lock. *)
BookingIsFree == lock = None

-----------------------------------------------------------------------------
(* report: one open report at a time, as far as the check can see *)

BeginReport(w) ==
  /\ req[w] = Idle
  /\ booking.status = "ongoing"
  /\ Begin(w, "report", "check")
  /\ UNCHANGED <<rows, now, lock, notices>>

CheckReport(w) ==
  /\ At(w, "report", "check")
  /\ IF \E r \in Reports : report[r].status = "open" THEN Finish(w) ELSE Goto(w, "write")
  /\ UNCHANGED <<rows, now, lock, notices>>

(* Bound: a report that no row of Reports is left for gives up. *)
InsertReport(w) ==
  /\ At(w, "report", "write")
  /\ \/ \E r \in Reports :
          /\ report[r].status = "absent"
          /\ report' = [report EXCEPT ![r].status = "open"]
     \/ /\ \A r \in Reports : report[r].status # "absent"
        /\ UNCHANGED report
  /\ Finish(w)
  /\ UNCHANGED <<booking, returned, now, lock, notices>>

-----------------------------------------------------------------------------
(* resolve: an open report of a rental in progress, one of three ways *)

BeginResolve(w, r, op, pc, device, amount, figures) ==
  /\ req[w] = Idle
  /\ report[r].status = "open"
  /\ booking.status = "ongoing"
  /\ req' = [req EXCEPT ![w] = [op |-> op, pc |-> pc, report |-> r, device |-> device,
                                amount |-> amount, figures |-> figures]]
  /\ UNCHANGED <<rows, now, lock, notices>>

Resolve(r, resolution, repairCost) ==
  report' = [report EXCEPT ![r] = [status |-> "resolved", resolution |-> resolution,
                                   repairCost |-> repairCost]]

BeginSwap(w) ==
  \E r \in Reports, d \in Devices \ {booking.device} :
    BeginResolve(w, r, "swap", "check", d, 0, NoFigures)

(* The transaction reads the booking again: status and value count as of now. *)
CheckSwap(w) ==
  /\ At(w, "swap", "check")
  /\ IF /\ booking.status = "ongoing"
        /\ req[w].device # booking.device
        /\ isEquivalentValue(originalPrice[booking.device], originalPrice[req[w].device])
       THEN Goto(w, "write")
       ELSE Finish(w)
  /\ UNCHANGED <<rows, now, lock, notices>>

SwapDevice(w) ==
  /\ At(w, "swap", "write")
  /\ BookingIsFree
  /\ booking' = [booking EXCEPT !.device = req[w].device]
  /\ Resolve(req[w].report, "swapped", 0)
  /\ Finish(w)
  /\ UNCHANGED <<returned, now, lock, notices>>

(* endEarly: the rent not used and the whole deposit *)
BeginEndEarly(w) ==
  \E r \in Reports :
    BeginResolve(w, r, "endEarly", "write", None, 0,
                 [NoFigures EXCEPT !.back = DepositAmount,
                    !.rental = calculateUnusedRentalRefund(TotalPrice, 0, EndTime, now)])

EndEarly(w) ==
  /\ At(w, "endEarly", "write")
  /\ BookingIsFree
  /\ booking' = [booking EXCEPT !.status = "completed",
                                !.rentalRefund = req[w].figures.rental,
                                !.depositRefund = req[w].figures.back,
                                !.refund = "pending"]
  /\ Resolve(req[w].report, "ended_early", 0)
  /\ Finish(w)
  /\ UNCHANGED <<returned, now, lock, notices>>

(* chargeCustomerFault: the repair, at most the value of the device *)
BeginCharge(w) ==
  \E r \in Reports, cost \in RepairCosts :
    /\ cost > 0
    /\ cost <= originalPrice[booking.device]
    /\ BeginResolve(w, r, "charge", "write", None, cost, NoFigures)

(* Mutant: the fee is written from the row read, not incremented in place. *)
ChargeOverRead(w) ==
  /\ At(w, "charge", "write")
  /\ BookingIsFree
  /\ booking' = [booking EXCEPT !.repairFee = req[w].amount]
  /\ Resolve(req[w].report, "customer_fault", req[w].amount)
  /\ Finish(w)
  /\ UNCHANGED <<returned, now, lock, notices>>

ChargeCustomerFault(w) ==
  /\ At(w, "charge", "write")
  /\ BookingIsFree
  /\ booking' = [booking EXCEPT !.repairFee = @ + req[w].amount]
  /\ Resolve(req[w].report, "customer_fault", req[w].amount)
  /\ Finish(w)
  /\ UNCHANGED <<returned, now, lock, notices>>

-----------------------------------------------------------------------------
(* confirmReturn: the settlement of the row read, and one return record *)

ReturnFigures(damageFee) ==
  LET lateFee == calculateLateFee(now, EndTime, pricePerDay[booking.device],
                                  originalPrice[booking.device])
      settlement == calculateDepositSettlement(DepositAmount, lateFee, damageFee,
                                               booking.repairFee) IN
  [NoFigures EXCEPT !.late = lateFee, !.damage = damageFee,
                    !.owed = settlement.amountOwed, !.back = settlement.refundAmount]

BeginReturn(w) ==
  /\ req[w] = Idle
  /\ booking.status = "ongoing"
  /\ \E damageFee \in Damages :
       /\ damageFee <= originalPrice[booking.device]
       /\ req' = [req EXCEPT ![w] = [Idle EXCEPT !.op = "return", !.pc = "write",
                                                 !.figures = ReturnFigures(damageFee)]]
  /\ UNCHANGED <<rows, now, lock, notices>>

Settled(figures) ==
  [booking EXCEPT !.status = "completed",
                  !.lateFee = figures.late,
                  !.damageFee = figures.damage,
                  !.amountOwed = figures.owed,
                  !.depositRefund = figures.back,
                  !.refund = IF figures.back > 0 THEN "pending" ELSE "not_refunded"]

(* Mutant: the return record is not unique. *)
ReturnAgain(w) ==
  /\ At(w, "return", "write")
  /\ BookingIsFree
  /\ returned' = TRUE
  /\ booking' = Settled(req[w].figures)
  /\ Finish(w)
  /\ UNCHANGED <<report, now, lock, notices>>

ConfirmReturn(w) ==
  /\ At(w, "return", "write")
  /\ BookingIsFree
  /\ ~returned
  /\ returned' = TRUE
  /\ booking' = Settled(req[w].figures)
  /\ Finish(w)
  /\ UNCHANGED <<report, now, lock, notices>>

(* The insertion of a second return record fails, and the batch with it. *)
RefuseReturn(w) ==
  /\ At(w, "return", "write")
  /\ returned
  /\ Finish(w)
  /\ UNCHANGED <<rows, now, lock, notices>>

-----------------------------------------------------------------------------
(* cancel, by staff; a rental that has started gives nothing back, unless   *)
(* the shop is at fault                                                     *)

BeginCancel(w) ==
  /\ req[w] = Idle
  /\ booking.status \notin {"completed", "cancelled"}
  /\ \E storeFault \in BOOLEAN :
       req' = [req EXCEPT ![w] =
                 [Idle EXCEPT !.op = "cancel", !.pc = "write",
                    !.figures.back = Ratio(DepositAmount,
                                           calculateRefundPercentage(-now, storeFault))]]
  /\ UNCHANGED <<rows, now, lock, notices>>

Cancel(w) ==
  /\ At(w, "cancel", "write")
  /\ BookingIsFree
  /\ booking' = [booking EXCEPT !.status = "cancelled",
                                !.depositRefund = req[w].figures.back,
                                !.refund = IF req[w].figures.back > 0 THEN "pending"
                                           ELSE "not_refunded"]
  /\ Finish(w)
  /\ UNCHANGED <<report, returned, now, lock, notices>>

-----------------------------------------------------------------------------
(* markDepositRefunded: the transfer has been made by hand *)

BeginRefund(w) ==
  /\ req[w] = Idle
  /\ booking.refund = "pending"
  /\ Begin(w, "refund", "write")
  /\ UNCHANGED <<rows, now, lock, notices>>

MarkRefunded(w) ==
  /\ At(w, "refund", "write")
  /\ BookingIsFree
  /\ booking' = [booking EXCEPT !.refund = "refunded"]
  /\ Finish(w)
  /\ UNCHANGED <<report, returned, now, lock, notices>>

-----------------------------------------------------------------------------
(* flagSuspectedLost: the hourly job; two runs may overlap *)

BeginFlag(w) ==
  /\ req[w] = Idle
  /\ booking.status = "ongoing"
  /\ ~booking.suspected
  /\ EndTime < now - LOST_SUSPECT_OVERDUE_DAYS * DAY_MS
  /\ Begin(w, "flag", "write")
  /\ UNCHANGED <<rows, now, lock, notices>>

(* Mutant: the update does not ask whether the flag is set. *)
FlagAgain(w) ==
  /\ At(w, "flag", "write")
  /\ BookingIsFree
  /\ booking' = [booking EXCEPT !.suspected = TRUE]
  /\ Goto(w, "notify")
  /\ UNCHANGED <<report, returned, now, lock, notices>>

(* The condition is in the UPDATE; a run that updates no row tells nobody. *)
Flag(w) ==
  /\ At(w, "flag", "write")
  /\ BookingIsFree
  /\ booking' = [booking EXCEPT !.suspected = TRUE]
  /\ IF booking.suspected THEN Finish(w) ELSE Goto(w, "notify")
  /\ UNCHANGED <<report, returned, now, lock, notices>>

NotifySuspicion(w) ==
  /\ At(w, "flag", "notify")
  /\ notices' = notices + 1
  /\ Finish(w)
  /\ UNCHANGED <<rows, now, lock>>

-----------------------------------------------------------------------------
(* confirmLost: by an admin, of a rental flagged before *)

BeginConfirmLost(w) ==
  /\ req[w] = Idle
  /\ booking.status = "ongoing"
  /\ booking.suspected
  /\ req' = [req EXCEPT ![w] = [Idle EXCEPT !.op = "lost", !.pc = "preview", !.amount = now]]
  /\ UNCHANGED <<rows, now, lock, notices>>

(* previewLoss reads the booking again, and its device as it is by then. *)
PreviewLoss(w) ==
  /\ At(w, "lost", "preview")
  /\ LET price == originalPrice[booking.device]
         debt == calculateLostDeviceDebt(price, DepositAmount,
                   calculateLateFee(req[w].amount, EndTime, pricePerDay[booking.device], price))
     IN req' = [req EXCEPT ![w].pc = "write",
                           ![w].figures = [NoFigures EXCEPT !.late = debt.lateFee,
                                                            !.owed = debt.amountOwed]]
  /\ UNCHANGED <<rows, now, lock, notices>>

ConfirmLost(w) ==
  /\ At(w, "lost", "write")
  /\ BookingIsFree
  /\ booking' = [booking EXCEPT !.status = "lost",
                                !.lateFee = req[w].figures.late,
                                !.amountOwed = req[w].figures.owed,
                                !.depositRefund = 0,
                                !.refund = "not_refunded"]
  /\ Finish(w)
  /\ UNCHANGED <<report, returned, now, lock, notices>>

-----------------------------------------------------------------------------
(* collect: SELECT ... FOR UPDATE, then the check and both writes; the row   *)
(* of debt_payments repeats the sum taken                                   *)

(* Mutant: the row is read without a lock. *)
ReadDebt(w) ==
  /\ req[w] = Idle
  /\ BookingIsFree
  /\ \E amount \in Amounts :
       req' = [req EXCEPT ![w] = [Idle EXCEPT !.op = "collect", !.pc = "write", !.amount = amount,
                 !.figures.owed = Greatest(booking.amountOwed - booking.debtPaid, 0)]]
  /\ UNCHANGED <<rows, now, lock, notices>>

LockDebt(w) ==
  /\ req[w] = Idle
  /\ BookingIsFree
  /\ lock' = w
  /\ \E amount \in Amounts :
       req' = [req EXCEPT ![w] = [Idle EXCEPT !.op = "collect", !.pc = "write", !.amount = amount,
                 !.figures.owed = Greatest(booking.amountOwed - booking.debtPaid, 0)]]
  /\ UNCHANGED <<rows, now, notices>>

Release(w) == lock' = IF lock = w THEN None ELSE lock

Collect(w) ==
  /\ At(w, "collect", "write")
  /\ req[w].amount <= req[w].figures.owed
  /\ booking' = [booking EXCEPT !.debtPaid = @ + req[w].amount]
  /\ Release(w)
  /\ Finish(w)
  /\ UNCHANGED <<report, returned, now, notices>>

(* Nothing is owed, or less than is offered. *)
RefuseCollect(w) ==
  /\ At(w, "collect", "write")
  /\ req[w].amount > req[w].figures.owed
  /\ Release(w)
  /\ Finish(w)
  /\ UNCHANGED <<rows, now, notices>>

-----------------------------------------------------------------------------
(* An error, a transaction timeout or a restart, at any step *)
Fail(w) ==
  /\ req[w] # Idle
  /\ Release(w)
  /\ Finish(w)
  /\ UNCHANGED <<rows, now, notices>>

(* Bound: the clock stops at LastDay. *)
Tick ==
  /\ now + DAY_MS <= LastDay * DAY_MS
  /\ now' = now + DAY_MS
  /\ UNCHANGED <<rows, lock, req, notices>>

Issue(w) ==
  \/ BeginReport(w) \/ CheckReport(w) \/ InsertReport(w)
  \/ BeginSwap(w) \/ CheckSwap(w) \/ SwapDevice(w)
  \/ BeginEndEarly(w) \/ EndEarly(w)
  \/ BeginCharge(w) \/ ChargeCustomerFault(w)

Closing(w) ==
  \/ BeginReturn(w) \/ ConfirmReturn(w) \/ RefuseReturn(w)
  \/ BeginCancel(w) \/ Cancel(w)
  \/ BeginRefund(w) \/ MarkRefunded(w)

Loss(w) ==
  \/ BeginFlag(w) \/ Flag(w) \/ NotifySuspicion(w)
  \/ BeginConfirmLost(w) \/ PreviewLoss(w) \/ ConfirmLost(w)

Debt(w) == LockDebt(w) \/ Collect(w) \/ RefuseCollect(w)

Next ==
  \/ Tick
  \/ \E w \in Requests : Issue(w) \/ Closing(w) \/ Loss(w) \/ Debt(w) \/ Fail(w)

Spec == Init /\ [][Next]_vars

-----------------------------------------------------------------------------
Figures == [late : Nat, damage : Nat, owed : Nat, back : Nat, rental : Nat]
Request ==
  [op : {"idle", "report", "swap", "endEarly", "charge", "return", "cancel", "refund",
         "flag", "lost", "collect"},
   pc : {"idle", "check", "preview", "write", "notify"},
   report : Reports \union {None}, device : Devices \union {None},
   amount : Nat, figures : Figures]

BookingRow ==
  [status : Closed \union {"ongoing"}, device : Devices, suspected : BOOLEAN,
   lateFee : Nat, damageFee : Nat, repairFee : Nat, amountOwed : Nat, debtPaid : Nat,
   rentalRefund : Nat, depositRefund : Nat,
   refund : {"none", "pending", "refunded", "not_refunded"}]
ReportRow ==
  [status : {"absent", "open", "resolved"},
   resolution : {"none", "swapped", "ended_early", "customer_fault"}, repairCost : Nat]

(* Every row keeps its type. *)
TypeOK ==
  /\ booking \in BookingRow
  /\ report \in [Reports -> ReportRow]
  /\ returned \in BOOLEAN
  /\ now \in 0 .. LastDay * DAY_MS
  /\ lock \in Requests \union {None}
  /\ req \in [Requests -> Request]
  /\ notices \in Nat

(* Two clerks who collect at the same moment, or one who collects while     *)
(* another writes the settlement, never take more than is owed at that      *)
(* moment: the row lock covers the reading, the check and the writing.      *)
NeverOverCollected ==
  [][booking'.debtPaid > booking.debtPaid => booking'.debtPaid <= booking'.amountOwed]_vars

(* However many runs of the overdue job overlap, staff and customer are     *)
(* told of the suspicion once.                                              *)
SuspicionNoticedOnce == notices <= 1

(* Two clerks take the same device back: the damage recorded by the first   *)
(* is not overwritten by the second, nor by a loss or an early end that     *)
(* was decided on the rental before.                                        *)
DamageFeeIsFinal == [][returned => booking'.damageFee = booking.damageFee]_vars

(* No repair that a report was resolved with is missing from the booking's  *)
(* repair fee, though charges decide on rows read earlier: the fee is       *)
(* incremented in place.                                                    *)
RepairFeeCoversReports ==
  booking.repairFee >= FoldSet(LAMBDA r, sum : report[r].repairCost + sum, 0, Reports)
=============================================================================
