----------------------- MODULE RentalSettlementProofs -----------------------
(***************************************************************************)
(* Theorems about RentalSettlement, for any number of requests, reports    *)
(* and devices, any prices and any fees a clerk may enter.                 *)
(***************************************************************************)
EXTENDS RentalSettlement, BusinessPolicyProofs

-----------------------------------------------------------------------------
(* What requests hold, beyond their type: the report and the device a       *)
(* resolution works on, and the time a loss was confirmed at.               *)
RequestsOK ==
  \A w \in Requests :
    /\ req[w].op \in {"swap", "endEarly", "charge"} => req[w].report \in Reports
    /\ req[w].op = "swap" => req[w].device \in Devices
    /\ req[w].op = "lost" => req[w].amount \in 0 .. LastDay * DAY_MS

Typed == TypeOK /\ RequestsOK

LEMMA DepositTyped == DepositAmount \in Nat
  <1>1. originalPrice[FirstDevice] \in Nat
    BY PricesAreAmounts, DeviceIsHandedOver
  <1>2. QED
    BY <1>1 DEF DepositAmount, calculateDeposit, Ratio, DEPOSIT_RATIO

LEMMA IdleTyped == NoFigures \in Figures /\ Idle \in Request
  BY DEF NoFigures, Figures, Idle, Request

LEMMA UnusedRentTyped ==
  ASSUME NEW t \in Nat
  PROVE  calculateUnusedRentalRefund(TotalPrice, 0, EndTime, t) \in Nat
  BY TimesAreCounted, UnusedRefundIsWithinPrice

LEMMA LateFeeTyped ==
  ASSUME NEW t \in 0 .. LastDay * DAY_MS, NEW d \in Devices
  PROVE  calculateLateFee(t, EndTime, pricePerDay[d], originalPrice[d]) \in Nat
  <1>1. t \in Int /\ EndTime \in Int
    BY TimesAreCounted
  <1>2. pricePerDay[d] \in Nat /\ originalPrice[d] \in Nat
    BY PricesAreAmounts
  <1>3. calculateLateFee(t, EndTime, pricePerDay[d], originalPrice[d]) \in 0 .. originalPrice[d]
    BY <1>1, <1>2, LateFeeIsWithinValue
  <1> QED BY <1>2, <1>3

LEMMA ReturnFiguresTyped ==
  ASSUME TypeOK, NEW damageFee \in Damages
  PROVE  ReturnFigures(damageFee) \in Figures
  <1> DEFINE lateFee == calculateLateFee(now, EndTime, pricePerDay[booking.device],
                                         originalPrice[booking.device])
             s == calculateDepositSettlement(DepositAmount, lateFee, damageFee, booking.repairFee)
  <1>1. lateFee \in Nat /\ damageFee \in Nat /\ booking.repairFee \in Nat
    BY LateFeeTyped, FiguresAreAmounts DEF TypeOK, BookingRow
  <1> HIDE DEF lateFee
  <1>2. s.amountOwed \in Nat /\ s.refundAmount \in Nat
    BY <1>1, DepositTyped, SettlementBalances
  <1> DEFINE figures == [NoFigures EXCEPT !.late = lateFee, !.damage = damageFee,
                                          !.owed = s.amountOwed, !.back = s.refundAmount]
  <1>3. ReturnFigures(damageFee) = figures
    BY Zenon DEF ReturnFigures, lateFee
  <1> HIDE DEF s
  <1>4. figures \in Figures
    BY <1>1, <1>2 DEF Figures, NoFigures
  <1>5. QED
    BY <1>3, <1>4

LEMMA LossFiguresTyped ==
  ASSUME NEW d \in Devices, NEW lateFee \in Nat
  PROVE  LET debt == calculateLostDeviceDebt(originalPrice[d], DepositAmount, lateFee) IN
         debt.lateFee \in Nat /\ debt.amountOwed \in Nat
  <1> DEFINE price == originalPrice[d]
             maxClaim == Ratio(price, LOST_DEVICE_MAX_CLAIM_RATIO)
  <1>1. price \in Nat
    BY PricesAreAmounts
  <1> HIDE DEF price
  <1>2. maxClaim \in Nat
    BY <1>1 DEF Ratio, LOST_DEVICE_MAX_CLAIM_RATIO
  <1> HIDE DEF maxClaim
  <1> DEFINE fee == Greatest(Least(lateFee, maxClaim - price), 0)
  <1>3. fee \in Nat
    BY <1>1, <1>2 DEF Greatest, Least
  <1>4. calculateLostDeviceDebt(price, DepositAmount, lateFee)
          = [lateFee |-> fee, amountOwed |-> Greatest(price + fee - DepositAmount, 0)]
    BY DEF calculateLostDeviceDebt, maxClaim
  <1> HIDE DEF fee
  <1>5. Greatest(price + fee - DepositAmount, 0) \in Nat
    BY <1>1, <1>3, DepositTyped DEF Greatest
  <1>6. QED
    BY <1>3, <1>4, <1>5 DEF price

LEMMA CancelFigureTyped ==
  ASSUME NEW t \in Nat, NEW storeFault \in BOOLEAN
  PROVE  Ratio(DepositAmount, calculateRefundPercentage(-t, storeFault)) \in Nat
  <1> DEFINE p == calculateRefundPercentage(-t, storeFault)
  <1>1. p \in {0, 50, 100}
    BY DEF calculateRefundPercentage, REFUND_TIERS
  <1> HIDE DEF p
  <1>2. DepositAmount * p \in Nat
    BY <1>1, DepositTyped
  <1>3. QED
    BY <1>2 DEF Ratio, p

-----------------------------------------------------------------------------
(* Typing *)

LEMMA InitTyped == Init => Typed
  <1> SUFFICES ASSUME Init PROVE Typed
    OBVIOUS
  <1>1. req \in [Requests -> Request] /\ RequestsOK
    BY IdleTyped DEF Init, RequestsOK, Idle
  <1>2. now \in 0 .. LastDay * DAY_MS
    BY TimesAreCounted, HoursHaveUnits DEF Init, DAY_MS
  <1>3. booking \in BookingRow /\ report \in [Reports -> ReportRow]
    BY DeviceIsHandedOver DEF Init, BookingRow, ReportRow
  <1>4. QED
    BY <1>1, <1>2, <1>3 DEF Init, Typed, TypeOK

(* A step of one request that keeps its record and the rows well typed.     *)
LEMMA RequestWritten ==
  ASSUME Typed, NEW w \in Requests, NEW r \in Request,
         r.op \in {"swap", "endEarly", "charge"} => r.report \in Reports,
         r.op = "swap" => r.device \in Devices,
         r.op = "lost" => r.amount \in 0 .. LastDay * DAY_MS,
         req' = [req EXCEPT ![w] = r]
  PROVE  req' \in [Requests -> Request] /\ RequestsOK'
  BY DEF Typed, TypeOK, RequestsOK

LEMMA FinishTyped ==
  ASSUME Typed, NEW w \in Requests, Finish(w)
  PROVE  req' \in [Requests -> Request] /\ RequestsOK'
  <1>1. Idle.op = "idle"
    BY DEF Idle
  <1>2. QED
    BY <1>1, IdleTyped, RequestWritten DEF Finish

LEMMA GotoTyped ==
  ASSUME Typed, NEW w \in Requests, NEW pc \in {"idle", "check", "preview", "write", "notify"},
         Goto(w, pc)
  PROVE  req' \in [Requests -> Request] /\ RequestsOK'
  <1> DEFINE r == [req[w] EXCEPT !.pc = pc]
  <1>1. r \in Request /\ r.op = req[w].op /\ r.report = req[w].report
        /\ r.device = req[w].device /\ r.amount = req[w].amount
    BY DEF Typed, TypeOK, Request
  <1>2. req' = [req EXCEPT ![w] = r]
    BY DEF Goto
  <1> HIDE DEF r
  <1>3. QED
    BY <1>1, <1>2, RequestWritten DEF Typed, RequestsOK

LEMMA BeginTyped ==
  ASSUME Typed, NEW w \in Requests, NEW op \in {"report", "refund", "flag"},
         NEW pc \in {"check", "write"}, Begin(w, op, pc)
  PROVE  req' \in [Requests -> Request] /\ RequestsOK'
  <1> DEFINE r == [Idle EXCEPT !.op = op, !.pc = pc]
  <1>1. r \in Request /\ r.op = op
    BY DEF Idle, NoFigures, Request, Figures
  <1>2. req' = [req EXCEPT ![w] = r]
    BY DEF Begin
  <1> HIDE DEF r
  <1>3. QED
    BY <1>1, <1>2, RequestWritten

LEMMA ResolveTyped ==
  ASSUME Typed, NEW r \in Reports, NEW cost \in Nat,
         NEW resolution \in {"swapped", "ended_early", "customer_fault"},
         Resolve(r, resolution, cost)
  PROVE  report' \in [Reports -> ReportRow]
  BY DEF Resolve, Typed, TypeOK, ReportRow

LEMMA BeginResolveTyped ==
  ASSUME Typed, NEW w \in Requests, NEW r \in Reports, NEW op \in {"swap", "endEarly", "charge"},
         NEW pc \in {"check", "write"}, NEW d \in Devices \union {None},
         op = "swap" => d \in Devices,
         NEW amount \in Nat, NEW figures \in Figures,
         BeginResolve(w, r, op, pc, d, amount, figures)
  PROVE  Typed'
  <1> DEFINE q == [op |-> op, pc |-> pc, report |-> r, device |-> d,
                   amount |-> amount, figures |-> figures]
  <1>1. q \in Request /\ q.op = op /\ q.report = r /\ q.device = d
    BY DEF Request
  <1>2. req' = [req EXCEPT ![w] = q] /\ UNCHANGED <<rows, now, lock, notices>>
    BY DEF BeginResolve
  <1> HIDE DEF q
  <1>3. req' \in [Requests -> Request] /\ RequestsOK'
    BY <1>1, <1>2, RequestWritten
  <1>4. QED
    BY <1>2, <1>3 DEF Typed, TypeOK, rows

LEMMA IssueTyped ==
  ASSUME Typed, NEW w \in Requests, Issue(w)
  PROVE  Typed'
  <1>1. CASE BeginReport(w)
    <2>1. req' \in [Requests -> Request] /\ RequestsOK'
      BY <1>1, BeginTyped DEF BeginReport
    <2>2. QED
      BY <1>1, <2>1 DEF BeginReport, Typed, TypeOK, rows
  <1>2. CASE CheckReport(w)
    <2>1. req' \in [Requests -> Request] /\ RequestsOK'
      BY <1>2, FinishTyped, GotoTyped DEF CheckReport
    <2>2. QED
      BY <1>2, <2>1 DEF CheckReport, Typed, TypeOK, rows
  <1>3. CASE InsertReport(w)
    <2>1. req' \in [Requests -> Request] /\ RequestsOK'
      BY <1>3, FinishTyped DEF InsertReport
    <2>2. report' \in [Reports -> ReportRow]
      BY <1>3 DEF InsertReport, Typed, TypeOK, ReportRow
    <2>3. QED
      BY <1>3, <2>1, <2>2 DEF InsertReport, Typed, TypeOK
  <1>4. CASE BeginSwap(w)
    BY <1>4, BeginResolveTyped, IdleTyped DEF BeginSwap
  <1>5. CASE CheckSwap(w)
    <2>1. req' \in [Requests -> Request] /\ RequestsOK'
      BY <1>5, FinishTyped, GotoTyped DEF CheckSwap
    <2>2. QED
      BY <1>5, <2>1 DEF CheckSwap, Typed, TypeOK, rows
  <1>6. CASE SwapDevice(w)
    <2>1. req' \in [Requests -> Request] /\ RequestsOK'
      BY <1>6, FinishTyped DEF SwapDevice
    <2>2. req[w].report \in Reports /\ req[w].device \in Devices
      BY <1>6 DEF SwapDevice, At, Typed, RequestsOK
    <2>3. report' \in [Reports -> ReportRow]
      BY <1>6, <2>2, ResolveTyped DEF SwapDevice
    <2>4. booking' \in BookingRow
      BY <1>6, <2>2 DEF SwapDevice, Typed, TypeOK, BookingRow
    <2>5. QED
      BY <1>6, <2>1, <2>3, <2>4 DEF SwapDevice, Typed, TypeOK
  <1>7. CASE BeginEndEarly(w)
    <2>1. now \in Nat
      BY DEF Typed, TypeOK
    <2>2. calculateUnusedRentalRefund(TotalPrice, 0, EndTime, now) \in Nat
      BY <2>1, UnusedRentTyped
    <2>3. [NoFigures EXCEPT !.back = DepositAmount,
             !.rental = calculateUnusedRentalRefund(TotalPrice, 0, EndTime, now)] \in Figures
      BY <2>2, DepositTyped DEF NoFigures, Figures
    <2>4. QED
      BY <1>7, <2>3, BeginResolveTyped DEF BeginEndEarly
  <1>8. CASE EndEarly(w)
    <2>1. req' \in [Requests -> Request] /\ RequestsOK'
      BY <1>8, FinishTyped DEF EndEarly
    <2>2. req[w].report \in Reports /\ req[w].figures \in Figures
      BY <1>8 DEF EndEarly, At, Typed, TypeOK, RequestsOK, Request
    <2>3. report' \in [Reports -> ReportRow]
      BY <1>8, <2>2, ResolveTyped DEF EndEarly
    <2>4. booking' \in BookingRow
      BY <1>8, <2>2 DEF EndEarly, Typed, TypeOK, BookingRow, Closed, Figures
    <2>5. QED
      BY <1>8, <2>1, <2>3, <2>4 DEF EndEarly, Typed, TypeOK
  <1>9. CASE BeginCharge(w)
    BY <1>9, BeginResolveTyped, IdleTyped, FiguresAreAmounts DEF BeginCharge
  <1>10. CASE ChargeCustomerFault(w)
    <2>1. req' \in [Requests -> Request] /\ RequestsOK'
      BY <1>10, FinishTyped DEF ChargeCustomerFault
    <2>2. req[w].report \in Reports /\ req[w].amount \in Nat
      BY <1>10 DEF ChargeCustomerFault, At, Typed, TypeOK, RequestsOK, Request
    <2>3. report' \in [Reports -> ReportRow]
      BY <1>10, <2>2, ResolveTyped DEF ChargeCustomerFault
    <2>4. booking' \in BookingRow
      BY <1>10, <2>2 DEF ChargeCustomerFault, Typed, TypeOK, BookingRow
    <2>5. QED
      BY <1>10, <2>1, <2>3, <2>4 DEF ChargeCustomerFault, Typed, TypeOK
  <1>11. QED
    BY <1>1, <1>2, <1>3, <1>4, <1>5, <1>6, <1>7, <1>8, <1>9, <1>10 DEF Issue

LEMMA ClosingTyped ==
  ASSUME Typed, NEW w \in Requests, Closing(w)
  PROVE  Typed'
  <1>1. CASE BeginReturn(w)
    <2>1. PICK damageFee \in Damages :
            req' = [req EXCEPT ![w] = [Idle EXCEPT !.op = "return", !.pc = "write",
                                                   !.figures = ReturnFigures(damageFee)]]
      BY <1>1 DEF BeginReturn
    <2> DEFINE q == [Idle EXCEPT !.op = "return", !.pc = "write",
                                 !.figures = ReturnFigures(damageFee)]
    <2>2. q \in Request /\ q.op = "return"
      BY ReturnFiguresTyped DEF Typed, Idle, Request
    <2>3. req' = [req EXCEPT ![w] = q]
      BY <2>1
    <2> HIDE DEF q
    <2>4. req' \in [Requests -> Request] /\ RequestsOK'
      BY <2>2, <2>3, RequestWritten
    <2>5. QED
      BY <1>1, <2>4 DEF BeginReturn, Typed, TypeOK, rows
  <1>2. CASE ConfirmReturn(w)
    <2>1. req' \in [Requests -> Request] /\ RequestsOK'
      BY <1>2, FinishTyped DEF ConfirmReturn
    <2>2. req[w].figures \in Figures
      BY DEF Typed, TypeOK, Request
    <2>3. booking' \in BookingRow
      BY <1>2, <2>2 DEF ConfirmReturn, Settled, Typed, TypeOK, BookingRow, Closed, Figures
    <2>4. QED
      BY <1>2, <2>1, <2>3 DEF ConfirmReturn, Typed, TypeOK
  <1>3. CASE RefuseReturn(w)
    <2>1. req' \in [Requests -> Request] /\ RequestsOK'
      BY <1>3, FinishTyped DEF RefuseReturn
    <2>2. QED
      BY <1>3, <2>1 DEF RefuseReturn, Typed, TypeOK, rows
  <1>4. CASE BeginCancel(w)
    <2>1. now \in Nat
      BY DEF Typed, TypeOK
    <2>2. PICK storeFault \in BOOLEAN :
            req' = [req EXCEPT ![w] =
                 [Idle EXCEPT !.op = "cancel", !.pc = "write",
                    !.figures.back = Ratio(DepositAmount,
                                           calculateRefundPercentage(-now, storeFault))]]
      BY <1>4 DEF BeginCancel
    <2> DEFINE back == Ratio(DepositAmount, calculateRefundPercentage(-now, storeFault))
               q == [Idle EXCEPT !.op = "cancel", !.pc = "write", !.figures.back = back]
    <2>3. back \in Nat
      BY <2>1, CancelFigureTyped
    <2>4. req' = [req EXCEPT ![w] = q]
      BY <2>2
    <2> HIDE DEF back
    <2>5. q \in Request /\ q.op = "cancel"
      BY <2>3 DEF Idle, NoFigures, Figures, Request
    <2> HIDE DEF q
    <2>6. req' \in [Requests -> Request] /\ RequestsOK'
      BY <2>4, <2>5, RequestWritten
    <2>7. QED
      BY <1>4, <2>6 DEF BeginCancel, Typed, TypeOK, rows
  <1>5. CASE Cancel(w)
    <2>1. req' \in [Requests -> Request] /\ RequestsOK'
      BY <1>5, FinishTyped DEF Cancel
    <2>2. req[w].figures \in Figures
      BY DEF Typed, TypeOK, Request
    <2>3. booking' \in BookingRow
      BY <1>5, <2>2 DEF Cancel, Typed, TypeOK, BookingRow, Closed, Figures
    <2>4. QED
      BY <1>5, <2>1, <2>3 DEF Cancel, Typed, TypeOK
  <1>6. CASE BeginRefund(w)
    <2>1. req' \in [Requests -> Request] /\ RequestsOK'
      BY <1>6, BeginTyped DEF BeginRefund
    <2>2. QED
      BY <1>6, <2>1 DEF BeginRefund, Typed, TypeOK, rows
  <1>7. CASE MarkRefunded(w)
    <2>1. req' \in [Requests -> Request] /\ RequestsOK'
      BY <1>7, FinishTyped DEF MarkRefunded
    <2>2. booking' \in BookingRow
      BY <1>7 DEF MarkRefunded, Typed, TypeOK, BookingRow
    <2>3. QED
      BY <1>7, <2>1, <2>2 DEF MarkRefunded, Typed, TypeOK
  <1>8. QED
    BY <1>1, <1>2, <1>3, <1>4, <1>5, <1>6, <1>7 DEF Closing

LEMMA LossTyped ==
  ASSUME Typed, NEW w \in Requests, Loss(w)
  PROVE  Typed'
  <1>1. CASE BeginFlag(w)
    <2>1. req' \in [Requests -> Request] /\ RequestsOK'
      BY <1>1, BeginTyped DEF BeginFlag
    <2>2. QED
      BY <1>1, <2>1 DEF BeginFlag, Typed, TypeOK, rows
  <1>2. CASE Flag(w)
    <2>1. req' \in [Requests -> Request] /\ RequestsOK'
      BY <1>2, FinishTyped, GotoTyped DEF Flag
    <2>2. booking' \in BookingRow
      BY <1>2 DEF Flag, Typed, TypeOK, BookingRow
    <2>3. QED
      BY <1>2, <2>1, <2>2 DEF Flag, Typed, TypeOK
  <1>3. CASE NotifySuspicion(w)
    <2>1. req' \in [Requests -> Request] /\ RequestsOK'
      BY <1>3, FinishTyped DEF NotifySuspicion
    <2>2. QED
      BY <1>3, <2>1 DEF NotifySuspicion, Typed, TypeOK, rows
  <1>4. CASE BeginConfirmLost(w)
    <2> DEFINE q == [Idle EXCEPT !.op = "lost", !.pc = "preview", !.amount = now]
    <2>0. now \in 0 .. LastDay * DAY_MS /\ now \in Nat
      BY DEF Typed, TypeOK
    <2>1. q \in Request /\ q.amount \in 0 .. LastDay * DAY_MS /\ q.op = "lost"
      BY <2>0 DEF Idle, NoFigures, Figures, Request
    <2>2. req' = [req EXCEPT ![w] = q]
      BY <1>4 DEF BeginConfirmLost
    <2> HIDE DEF q
    <2>3. req' \in [Requests -> Request] /\ RequestsOK'
      BY <2>1, <2>2, RequestWritten
    <2>4. QED
      BY <1>4, <2>3 DEF BeginConfirmLost, Typed, TypeOK, rows
  <1>5. CASE PreviewLoss(w)
    <2> DEFINE price == originalPrice[booking.device]
               fee == calculateLateFee(req[w].amount, EndTime, pricePerDay[booking.device], price)
               debt == calculateLostDeviceDebt(price, DepositAmount, fee)
               figures == [NoFigures EXCEPT !.late = debt.lateFee, !.owed = debt.amountOwed]
               q == [req[w] EXCEPT !.pc = "write", !.figures = figures]
    <2>1. req[w].amount \in 0 .. LastDay * DAY_MS /\ booking.device \in Devices
      BY <1>5 DEF PreviewLoss, At, Typed, TypeOK, RequestsOK, BookingRow
    <2>2. fee \in Nat
      BY <2>1, LateFeeTyped
    <2>3. req' = [req EXCEPT ![w].pc = "write", ![w].figures = figures]
      BY <1>5 DEF PreviewLoss
    <2> HIDE DEF fee
    <2>4. debt.lateFee \in Nat /\ debt.amountOwed \in Nat
      BY <2>1, <2>2, LossFiguresTyped
    <2> HIDE DEF debt
    <2>5. figures \in Figures
      BY <2>4 DEF NoFigures, Figures
    <2> HIDE DEF figures
    <2>6. req' = [req EXCEPT ![w] = q]
      BY <2>3 DEF Typed, TypeOK, Request
    <2>7. q \in Request /\ q.op = "lost" /\ q.amount = req[w].amount
      BY <1>5, <2>5 DEF PreviewLoss, At, Typed, TypeOK, Request
    <2> HIDE DEF q
    <2>8. req' \in [Requests -> Request] /\ RequestsOK'
      BY <2>1, <2>6, <2>7, RequestWritten
    <2>9. QED
      BY <1>5, <2>8 DEF PreviewLoss, Typed, TypeOK, rows
  <1>6. CASE ConfirmLost(w)
    <2>1. req' \in [Requests -> Request] /\ RequestsOK'
      BY <1>6, FinishTyped DEF ConfirmLost
    <2>2. req[w].figures \in Figures
      BY DEF Typed, TypeOK, Request
    <2>3. booking' \in BookingRow
      BY <1>6, <2>2 DEF ConfirmLost, Typed, TypeOK, BookingRow, Closed, Figures
    <2>4. QED
      BY <1>6, <2>1, <2>3 DEF ConfirmLost, Typed, TypeOK
  <1>7. QED
    BY <1>1, <1>2, <1>3, <1>4, <1>5, <1>6 DEF Loss

LEMMA DebtTyped ==
  ASSUME Typed, NEW w \in Requests, Debt(w)
  PROVE  Typed'
  <1>1. CASE LockDebt(w)
    <2> DEFINE owed == Greatest(booking.amountOwed - booking.debtPaid, 0)
    <2>1. PICK amount \in Amounts :
            req' = [req EXCEPT ![w] = [Idle EXCEPT !.op = "collect", !.pc = "write",
                                         !.amount = amount, !.figures.owed = owed]]
      BY <1>1 DEF LockDebt
    <2>2. owed \in Nat
      BY DEF Greatest, Typed, TypeOK, BookingRow
    <2> HIDE DEF owed
    <2> DEFINE q == [Idle EXCEPT !.op = "collect", !.pc = "write",
                                 !.amount = amount, !.figures.owed = owed]
    <2>3. q \in Request /\ q.op = "collect"
      BY <2>2, FiguresAreAmounts DEF Idle, NoFigures, Figures, Request
    <2>4. req' = [req EXCEPT ![w] = q]
      BY <2>1
    <2> HIDE DEF q
    <2>5. req' \in [Requests -> Request] /\ RequestsOK'
      BY <2>3, <2>4, RequestWritten
    <2>6. QED
      BY <1>1, <2>5 DEF LockDebt, Typed, TypeOK, rows
  <1>2. CASE Collect(w)
    <2>1. req' \in [Requests -> Request] /\ RequestsOK'
      BY <1>2, FinishTyped DEF Collect
    <2>2. req[w].amount \in Nat
      BY DEF Typed, TypeOK, Request
    <2>3. booking' \in BookingRow
      BY <1>2, <2>2 DEF Collect, Typed, TypeOK, BookingRow
    <2>4. QED
      BY <1>2, <2>1, <2>3 DEF Collect, Release, Typed, TypeOK
  <1>3. CASE RefuseCollect(w)
    <2>1. req' \in [Requests -> Request] /\ RequestsOK'
      BY <1>3, FinishTyped DEF RefuseCollect
    <2>2. QED
      BY <1>3, <2>1 DEF RefuseCollect, Release, Typed, TypeOK, rows
  <1>4. QED
    BY <1>1, <1>2, <1>3 DEF Debt

LEMMA NextTyped == Typed /\ [Next]_vars => Typed'
  <1> SUFFICES ASSUME Typed, [Next]_vars PROVE Typed'
    OBVIOUS
  <1>1. CASE Tick
    <2>1. LastDay * DAY_MS \in Nat /\ DAY_MS \in Nat
      BY TimesAreCounted, HoursHaveUnits DEF DAY_MS
    <2>2. now' \in 0 .. LastDay * DAY_MS
      BY <1>1, <2>1 DEF Tick, Typed, TypeOK
    <2>3. QED
      BY <1>1, <2>2 DEF Tick, Typed, TypeOK, RequestsOK, rows
  <1>2. ASSUME NEW w \in Requests, Fail(w) PROVE Typed'
    <2>1. req' \in [Requests -> Request] /\ RequestsOK'
      BY <1>2, FinishTyped DEF Fail
    <2>2. QED
      BY <1>2, <2>1 DEF Fail, Release, Typed, TypeOK, rows
  <1>3. CASE UNCHANGED vars
    BY <1>3 DEF vars, rows, Typed, TypeOK, RequestsOK
  <1>4. QED
    BY <1>1, <1>2, <1>3, IssueTyped, ClosingTyped, LossTyped, DebtTyped DEF Next

-----------------------------------------------------------------------------
(* Every row of the settlement keeps its type, for any number of requests.  *)
THEOREM SettlementTyped == Spec => []TypeOK
  <1>1. Typed => TypeOK
    BY DEF Typed
  <1>2. QED
    BY <1>1, InitTyped, NextTyped, PTL DEF Spec

-----------------------------------------------------------------------------
(* The request about to collect holds the lock, and what it read is still   *)
(* what is owed: every other writer waits for the lock.                     *)
CollectInv ==
  \A w \in Requests : At(w, "collect", "write") =>
    /\ lock = w
    /\ req[w].figures.owed = Greatest(booking.amountOwed - booking.debtPaid, 0)

DebtInv == Typed /\ CollectInv

LEMMA InitDebt == Init => DebtInv
  <1> SUFFICES ASSUME Init PROVE DebtInv
    OBVIOUS
  <1>1. CollectInv
    BY DEF CollectInv, At, Init, Idle
  <1>2. QED
    BY <1>1, InitTyped DEF DebtInv, Init

(* The step of a request that is not collecting, and that leaves the others *)
(* as they are.                                                             *)
Moves(w) ==
  /\ \A v \in Requests \ {w} : req'[v] = req[v]
  /\ req'[w].op # "collect"

LEMMA FinishMoves ==
  ASSUME Typed, NEW w \in Requests, Finish(w)
  PROVE  Moves(w)
  BY DEF Finish, Moves, Idle, Typed, TypeOK

LEMMA GotoMoves ==
  ASSUME Typed, NEW w \in Requests, NEW pc, Goto(w, pc), req[w].op # "collect"
  PROVE  Moves(w)
  BY DEF Goto, Moves, Typed, TypeOK, Request

LEMMA BeginMoves ==
  ASSUME Typed, NEW w \in Requests, NEW op, NEW pc, op # "collect", Begin(w, op, pc)
  PROVE  Moves(w)
  BY DEF Begin, Moves, Idle, Typed, TypeOK

LEMMA BeginResolveMoves ==
  ASSUME Typed, NEW w \in Requests, NEW r, NEW op, NEW pc, NEW d, NEW amount, NEW figures,
         op # "collect", BeginResolve(w, r, op, pc, d, amount, figures)
  PROVE  Moves(w) /\ UNCHANGED <<rows, lock>>
  BY DEF BeginResolve, Moves, Typed, TypeOK

(* A request that writes the booking finds the lock free, so that nobody is *)
(* collecting.                                                              *)
LEMMA WriterKeepsDebt ==
  ASSUME DebtInv, NEW w \in Requests, BookingIsFree, UNCHANGED lock, Moves(w)
  PROVE  CollectInv'
  <1>1. \A v \in Requests : ~At(v, "collect", "write")
    BY NoneIsNothing DEF DebtInv, CollectInv, BookingIsFree
  <1>2. \A v \in Requests : ~At(v, "collect", "write")'
    BY <1>1 DEF At, Moves
  <1>3. QED
    BY <1>2 DEF CollectInv, DebtInv

(* A request that leaves the booking alone, and may give up its own lock.   *)
LEMMA ReaderKeepsDebt ==
  ASSUME DebtInv, NEW w \in Requests, UNCHANGED booking,
         lock' = lock \/ lock = w, Moves(w)
  PROVE  CollectInv'
  <1>1. \A v \in Requests : At(v, "collect", "write")' => v # w /\ At(v, "collect", "write")
    BY DEF At, Moves
  <1>2. \A v \in Requests : At(v, "collect", "write")' =>
          req'[v] = req[v] /\ lock = v /\ lock' = v
    BY <1>1 DEF CollectInv, DebtInv, Moves
  <1>3. QED
    BY <1>1, <1>2 DEF CollectInv, DebtInv

LEMMA IssueKeepsDebt ==
  ASSUME DebtInv, NEW w \in Requests, Issue(w)
  PROVE  CollectInv'
  <1>0. Typed
    BY DEF DebtInv
  <1>1. CASE BeginReport(w)
    <2>1. Moves(w)
      BY <1>0, <1>1, BeginMoves DEF BeginReport
    <2>2. QED
      BY <1>1, <2>1, ReaderKeepsDebt DEF BeginReport, rows
  <1>2. CASE CheckReport(w)
    <2>1. Moves(w)
      BY <1>0, <1>2, FinishMoves, GotoMoves DEF CheckReport, At
    <2>2. QED
      BY <1>2, <2>1, ReaderKeepsDebt DEF CheckReport, rows
  <1>3. CASE InsertReport(w)
    <2>1. Moves(w)
      BY <1>0, <1>3, FinishMoves DEF InsertReport
    <2>2. QED
      BY <1>3, <2>1, ReaderKeepsDebt DEF InsertReport
  <1>4. CASE BeginSwap(w)
    <2>1. Moves(w) /\ UNCHANGED <<rows, lock>>
      BY <1>0, <1>4, BeginResolveMoves DEF BeginSwap
    <2>2. QED
      BY <2>1, ReaderKeepsDebt DEF rows
  <1>5. CASE CheckSwap(w)
    <2>1. Moves(w)
      BY <1>0, <1>5, FinishMoves, GotoMoves DEF CheckSwap, At
    <2>2. QED
      BY <1>5, <2>1, ReaderKeepsDebt DEF CheckSwap, rows
  <1>6. CASE SwapDevice(w)
    <2>1. Moves(w)
      BY <1>0, <1>6, FinishMoves DEF SwapDevice
    <2>2. QED
      BY <1>6, <2>1, WriterKeepsDebt DEF SwapDevice
  <1>7. CASE BeginEndEarly(w)
    <2>1. Moves(w) /\ UNCHANGED <<rows, lock>>
      BY <1>0, <1>7, BeginResolveMoves DEF BeginEndEarly
    <2>2. QED
      BY <2>1, ReaderKeepsDebt DEF rows
  <1>8. CASE EndEarly(w)
    <2>1. Moves(w)
      BY <1>0, <1>8, FinishMoves DEF EndEarly
    <2>2. QED
      BY <1>8, <2>1, WriterKeepsDebt DEF EndEarly
  <1>9. CASE BeginCharge(w)
    <2>1. Moves(w) /\ UNCHANGED <<rows, lock>>
      BY <1>0, <1>9, BeginResolveMoves DEF BeginCharge
    <2>2. QED
      BY <2>1, ReaderKeepsDebt DEF rows
  <1>10. CASE ChargeCustomerFault(w)
    <2>1. Moves(w)
      BY <1>0, <1>10, FinishMoves DEF ChargeCustomerFault
    <2>2. QED
      BY <1>10, <2>1, WriterKeepsDebt DEF ChargeCustomerFault
  <1>11. QED
    BY <1>1, <1>2, <1>3, <1>4, <1>5, <1>6, <1>7, <1>8, <1>9, <1>10 DEF Issue

LEMMA ClosingKeepsDebt ==
  ASSUME DebtInv, NEW w \in Requests, Closing(w)
  PROVE  CollectInv'
  <1>0. Typed
    BY DEF DebtInv
  <1>1. CASE BeginReturn(w)
    <2>1. Moves(w)
      BY <1>0, <1>1 DEF BeginReturn, Moves, Idle, Typed, TypeOK
    <2>2. QED
      BY <1>1, <2>1, ReaderKeepsDebt DEF BeginReturn, rows
  <1>2. CASE ConfirmReturn(w)
    <2>1. Moves(w)
      BY <1>0, <1>2, FinishMoves DEF ConfirmReturn
    <2>2. QED
      BY <1>2, <2>1, WriterKeepsDebt DEF ConfirmReturn
  <1>3. CASE RefuseReturn(w)
    <2>1. Moves(w)
      BY <1>0, <1>3, FinishMoves DEF RefuseReturn
    <2>2. QED
      BY <1>3, <2>1, ReaderKeepsDebt DEF RefuseReturn, rows
  <1>4. CASE BeginCancel(w)
    <2>1. Moves(w)
      BY <1>0, <1>4 DEF BeginCancel, Moves, Idle, Typed, TypeOK
    <2>2. QED
      BY <1>4, <2>1, ReaderKeepsDebt DEF BeginCancel, rows
  <1>5. CASE Cancel(w)
    <2>1. Moves(w)
      BY <1>0, <1>5, FinishMoves DEF Cancel
    <2>2. QED
      BY <1>5, <2>1, WriterKeepsDebt DEF Cancel
  <1>6. CASE BeginRefund(w)
    <2>1. Moves(w)
      BY <1>0, <1>6, BeginMoves DEF BeginRefund
    <2>2. QED
      BY <1>6, <2>1, ReaderKeepsDebt DEF BeginRefund, rows
  <1>7. CASE MarkRefunded(w)
    <2>1. Moves(w)
      BY <1>0, <1>7, FinishMoves DEF MarkRefunded
    <2>2. QED
      BY <1>7, <2>1, WriterKeepsDebt DEF MarkRefunded
  <1>8. QED
    BY <1>1, <1>2, <1>3, <1>4, <1>5, <1>6, <1>7 DEF Closing

LEMMA LossKeepsDebt ==
  ASSUME DebtInv, NEW w \in Requests, Loss(w)
  PROVE  CollectInv'
  <1>0. Typed
    BY DEF DebtInv
  <1>1. CASE BeginFlag(w)
    <2>1. Moves(w)
      BY <1>0, <1>1, BeginMoves DEF BeginFlag
    <2>2. QED
      BY <1>1, <2>1, ReaderKeepsDebt DEF BeginFlag, rows
  <1>2. CASE Flag(w)
    <2>1. Moves(w)
      BY <1>0, <1>2, FinishMoves, GotoMoves DEF Flag, At
    <2>2. QED
      BY <1>2, <2>1, WriterKeepsDebt DEF Flag
  <1>3. CASE NotifySuspicion(w)
    <2>1. Moves(w)
      BY <1>0, <1>3, FinishMoves DEF NotifySuspicion
    <2>2. QED
      BY <1>3, <2>1, ReaderKeepsDebt DEF NotifySuspicion, rows
  <1>4. CASE BeginConfirmLost(w)
    <2>1. Moves(w)
      BY <1>0, <1>4 DEF BeginConfirmLost, Moves, Idle, Typed, TypeOK
    <2>2. QED
      BY <1>4, <2>1, ReaderKeepsDebt DEF BeginConfirmLost, rows
  <1>5. CASE PreviewLoss(w)
    <2>1. Moves(w)
      BY <1>0, <1>5 DEF PreviewLoss, At, Moves, Typed, TypeOK, Request
    <2>2. QED
      BY <1>5, <2>1, ReaderKeepsDebt DEF PreviewLoss, rows
  <1>6. CASE ConfirmLost(w)
    <2>1. Moves(w)
      BY <1>0, <1>6, FinishMoves DEF ConfirmLost
    <2>2. QED
      BY <1>6, <2>1, WriterKeepsDebt DEF ConfirmLost
  <1>7. QED
    BY <1>1, <1>2, <1>3, <1>4, <1>5, <1>6 DEF Loss

LEMMA CollectKeepsDebt ==
  ASSUME DebtInv, NEW w \in Requests, Debt(w)
  PROVE  CollectInv'
  <1>0. Typed
    BY DEF DebtInv
  <1>1. CASE LockDebt(w)
    <2> DEFINE owed == Greatest(booking.amountOwed - booking.debtPaid, 0)
    <2>1. \A v \in Requests : ~At(v, "collect", "write")
      BY <1>1, NoneIsNothing DEF LockDebt, BookingIsFree, DebtInv, CollectInv
    <2>2. PICK amount \in Amounts :
            req' = [req EXCEPT ![w] = [Idle EXCEPT !.op = "collect", !.pc = "write",
                                         !.amount = amount, !.figures.owed = owed]]
      BY <1>1 DEF LockDebt
    <2> HIDE DEF owed
    <2>3. req'[w].figures.owed = owed /\ \A v \in Requests \ {w} : req'[v] = req[v]
      BY <1>0, <2>2 DEF Typed, TypeOK, Idle, NoFigures
    <2>4. \A v \in Requests : At(v, "collect", "write")' => v = w
      BY <2>1, <2>3 DEF At
    <2>5. lock' = w /\ UNCHANGED booking
      BY <1>1 DEF LockDebt, rows
    <2>6. owed = Greatest(booking.amountOwed - booking.debtPaid, 0)'
      BY <2>5 DEF owed
    <2>7. QED
      BY <2>3, <2>4, <2>5, <2>6 DEF CollectInv
  <1>2. CASE Collect(w)
    <2>1. lock = w /\ \A v \in Requests \ {w} : ~At(v, "collect", "write")
      BY <1>2 DEF Collect, DebtInv, CollectInv
    <2>2. Moves(w)
      BY <1>0, <1>2, FinishMoves DEF Collect
    <2>3. \A v \in Requests : ~At(v, "collect", "write")'
      BY <2>1, <2>2 DEF Moves, At
    <2>4. QED
      BY <2>3 DEF CollectInv
  <1>3. CASE RefuseCollect(w)
    <2>1. Moves(w)
      BY <1>0, <1>3, FinishMoves DEF RefuseCollect
    <2>2. QED
      BY <1>3, <2>1, ReaderKeepsDebt DEF RefuseCollect, Release, rows
  <1>4. QED
    BY <1>1, <1>2, <1>3 DEF Debt

LEMMA NextDebt == DebtInv /\ [Next]_vars => DebtInv'
  <1> SUFFICES ASSUME DebtInv, [Next]_vars PROVE DebtInv'
    OBVIOUS
  <1>1. Typed'
    BY NextTyped DEF DebtInv
  <1>2. CollectInv'
    <2>1. CASE Tick
      BY <2>1 DEF Tick, rows, DebtInv, CollectInv, At
    <2>2. ASSUME NEW w \in Requests, Fail(w) PROVE CollectInv'
      <3>1. Moves(w)
        BY <2>2, FinishMoves DEF Fail, DebtInv
      <3>2. QED
        BY <2>2, <3>1, ReaderKeepsDebt DEF Fail, Release, rows
    <2>3. CASE UNCHANGED vars
      BY <2>3 DEF vars, rows, DebtInv, CollectInv, At
    <2>4. QED
      BY <2>1, <2>2, <2>3, IssueKeepsDebt, ClosingKeepsDebt, LossKeepsDebt, CollectKeepsDebt
         DEF Next
  <1>3. QED
    BY <1>1, <1>2 DEF DebtInv

(* Any step that adds to the sum paid is a `collect` that holds the lock.   *)
LEMMA StepNeverOverCollects ==
  ASSUME DebtInv, [Next]_vars, booking'.debtPaid > booking.debtPaid
  PROVE  booking'.debtPaid <= booking'.amountOwed
  <1>0. Typed /\ booking.debtPaid \in Nat /\ booking.amountOwed \in Nat
    BY DEF DebtInv, Typed, TypeOK, BookingRow
  <1>1. PICK w \in Requests : Collect(w)
    <2>1. ~UNCHANGED booking /\ booking'.debtPaid # booking.debtPaid
      BY <1>0
    <2>2. PICK w \in Requests : Issue(w) \/ Closing(w) \/ Loss(w) \/ Debt(w) \/ Fail(w)
      BY <2>1 DEF Next, Tick, vars, rows
    <2>3. ~Issue(w)
      BY <1>0, <2>1 DEF Issue, BeginReport, CheckReport, InsertReport, BeginSwap, CheckSwap,
         SwapDevice, BeginEndEarly, EndEarly, BeginCharge, ChargeCustomerFault, BeginResolve,
         rows, Typed, TypeOK, BookingRow
    <2>4. ~Closing(w)
      BY <1>0, <2>1 DEF Closing, BeginReturn, ConfirmReturn, RefuseReturn, BeginCancel, Cancel,
         BeginRefund, MarkRefunded, Settled, rows, Typed, TypeOK, BookingRow
    <2>5. ~Loss(w)
      BY <1>0, <2>1 DEF Loss, BeginFlag, Flag, NotifySuspicion, BeginConfirmLost, PreviewLoss,
         ConfirmLost, rows, Typed, TypeOK, BookingRow
    <2>6. ~Fail(w) /\ ~LockDebt(w) /\ ~RefuseCollect(w)
      BY <2>1 DEF Fail, LockDebt, RefuseCollect, rows
    <2>7. QED
      BY <2>2, <2>3, <2>4, <2>5, <2>6 DEF Debt
  <1>2. /\ booking'.debtPaid = booking.debtPaid + req[w].amount
        /\ booking'.amountOwed = booking.amountOwed
        /\ req[w].amount <= req[w].figures.owed
        /\ req[w].amount \in Nat
    BY <1>0, <1>1 DEF Collect, Typed, TypeOK, BookingRow, Request
  <1>3. req[w].figures.owed = Greatest(booking.amountOwed - booking.debtPaid, 0)
    BY <1>1 DEF Collect, DebtInv, CollectInv
  <1>4. req[w].amount > 0
    BY <1>0, <1>2
  <1>5. QED
    BY <1>0, <1>2, <1>3, <1>4 DEF Greatest

(* No collection takes more than is owed when it is made, whichever requests*)
(* run beside it.                                                           *)
THEOREM NobodyOverCollects == Spec => NeverOverCollected
  <1>1. DebtInv /\ [Next]_vars =>
          [booking'.debtPaid > booking.debtPaid => booking'.debtPaid <= booking'.amountOwed]_vars
    BY StepNeverOverCollects
  <1>2. QED
    BY <1>1, InitDebt, NextDebt, PTL DEF Spec, NeverOverCollected

-----------------------------------------------------------------------------
(* The suspicion is notified once *)

(* The run of the job that set the flag, and no other, is about to notify.  *)
NoticeInv ==
  /\ notices \in {0, 1}
  /\ ~booking.suspected => notices = 0 /\ \A w \in Requests : ~At(w, "flag", "notify")
  /\ \A w \in Requests : At(w, "flag", "notify") =>
       notices = 0 /\ \A v \in Requests : At(v, "flag", "notify") => v = w

(* A step of w that has nothing to do with the suspicion.                   *)
Unsuspecting(w) ==
  /\ \A v \in Requests \ {w} : req'[v] = req[v]
  /\ ~At(w, "flag", "notify")'
  /\ UNCHANGED notices
  /\ booking'.suspected = booking.suspected

LEMMA UnsuspectingKeepsNotice ==
  ASSUME NoticeInv, NEW w \in Requests, Unsuspecting(w)
  PROVE  NoticeInv'
  BY DEF NoticeInv, Unsuspecting, At

(* What a request becomes when it moves to another statement or ends.       *)
LEMMA FinishUnsuspecting ==
  ASSUME Typed, NEW w \in Requests, Finish(w), UNCHANGED notices,
         booking'.suspected = booking.suspected
  PROVE  Unsuspecting(w)
  BY DEF Finish, Unsuspecting, Idle, At, Typed, TypeOK

LEMMA GotoUnsuspecting ==
  ASSUME Typed, NEW w \in Requests, NEW pc, Goto(w, pc), req[w].op # "flag" \/ pc # "notify",
         UNCHANGED <<booking, notices>>
  PROVE  Unsuspecting(w)
  BY DEF Goto, Unsuspecting, At, Typed, TypeOK, Request

LEMMA BeginUnsuspecting ==
  ASSUME Typed, NEW w \in Requests, NEW op, NEW pc, Begin(w, op, pc), pc # "notify",
         UNCHANGED <<booking, notices>>
  PROVE  Unsuspecting(w)
  BY DEF Begin, Unsuspecting, Idle, At, Typed, TypeOK

LEMMA ResolvingUnsuspecting ==
  ASSUME Typed, NEW w \in Requests, NEW r, NEW op, NEW pc, NEW d, NEW amount, NEW figures,
         pc # "notify", BeginResolve(w, r, op, pc, d, amount, figures)
  PROVE  Unsuspecting(w)
  BY DEF BeginResolve, Unsuspecting, At, rows, Typed, TypeOK

LEMMA IssueUnsuspecting ==
  ASSUME Typed, NEW w \in Requests, Issue(w)
  PROVE  Unsuspecting(w)
  <1>1. CASE BeginReport(w)
    BY <1>1, BeginUnsuspecting DEF BeginReport, rows
  <1>2. CASE CheckReport(w) \/ CheckSwap(w)
    BY <1>2, FinishUnsuspecting, GotoUnsuspecting DEF CheckReport, CheckSwap, rows
  <1>3. CASE InsertReport(w)
    BY <1>3, FinishUnsuspecting DEF InsertReport
  <1>4. CASE BeginSwap(w)
    BY <1>4, ResolvingUnsuspecting DEF BeginSwap
  <1>5. CASE BeginEndEarly(w)
    BY <1>5, ResolvingUnsuspecting DEF BeginEndEarly
  <1>6. CASE BeginCharge(w)
    BY <1>6, ResolvingUnsuspecting DEF BeginCharge
  <1>7. CASE SwapDevice(w) \/ EndEarly(w) \/ ChargeCustomerFault(w)
    <2>1. booking'.suspected = booking.suspected
      BY <1>7 DEF SwapDevice, EndEarly, ChargeCustomerFault, Typed, TypeOK, BookingRow
    <2>2. QED BY <1>7, <2>1, FinishUnsuspecting DEF SwapDevice, EndEarly, ChargeCustomerFault
  <1>8. QED BY <1>1, <1>2, <1>3, <1>4, <1>5, <1>6, <1>7 DEF Issue

LEMMA ClosingUnsuspecting ==
  ASSUME Typed, NEW w \in Requests, Closing(w)
  PROVE  Unsuspecting(w)
  <1>1. CASE BeginReturn(w)
    BY <1>1 DEF BeginReturn, Unsuspecting, Idle, At, rows, Typed, TypeOK
  <1>2. CASE BeginCancel(w)
    BY <1>2 DEF BeginCancel, Unsuspecting, Idle, At, rows, Typed, TypeOK
  <1>3. CASE BeginRefund(w)
    BY <1>3, BeginUnsuspecting DEF BeginRefund, rows
  <1>4. CASE RefuseReturn(w)
    BY <1>4, FinishUnsuspecting DEF RefuseReturn, rows
  <1>5. CASE ConfirmReturn(w) \/ Cancel(w) \/ MarkRefunded(w)
    <2>1. booking'.suspected = booking.suspected
      BY <1>5 DEF ConfirmReturn, Settled, Cancel, MarkRefunded, Typed, TypeOK, BookingRow
    <2>2. QED BY <1>5, <2>1, FinishUnsuspecting DEF ConfirmReturn, Cancel, MarkRefunded
  <1>6. QED BY <1>1, <1>2, <1>3, <1>4, <1>5 DEF Closing

LEMMA DebtUnsuspecting ==
  ASSUME Typed, NEW w \in Requests, Debt(w)
  PROVE  Unsuspecting(w)
  <1>1. CASE LockDebt(w)
    BY <1>1 DEF LockDebt, Unsuspecting, Idle, At, rows, Typed, TypeOK
  <1>2. CASE Collect(w)
    <2>1. booking'.suspected = booking.suspected
      BY <1>2 DEF Collect, Typed, TypeOK, BookingRow
    <2>2. QED BY <1>2, <2>1, FinishUnsuspecting DEF Collect
  <1>3. CASE RefuseCollect(w)
    BY <1>3, FinishUnsuspecting DEF RefuseCollect, rows
  <1>4. QED BY <1>1, <1>2, <1>3 DEF Debt

LEMMA LossKeepsNotice ==
  ASSUME Typed, NoticeInv, NEW w \in Requests, Loss(w)
  PROVE  NoticeInv'
  <1>1. CASE BeginFlag(w)
    BY <1>1, BeginUnsuspecting, UnsuspectingKeepsNotice DEF BeginFlag, rows
  <1>2. CASE Flag(w)
    <2>1. booking'.suspected = TRUE
      BY <1>2 DEF Flag, Typed, TypeOK, BookingRow
    <2>2. CASE booking.suspected
      BY <1>2, <2>1, <2>2, FinishUnsuspecting, UnsuspectingKeepsNotice DEF Flag
    <2>3. CASE ~booking.suspected
      <3>1. notices = 0 /\ \A v \in Requests : ~At(v, "flag", "notify")
        BY <2>3 DEF NoticeInv
      <3>2. \A v \in Requests \ {w} : req'[v] = req[v]
        BY <1>2, <2>3 DEF Flag, Goto, Typed, TypeOK
      <3>3. \A v \in Requests : At(v, "flag", "notify")' => v = w
        BY <3>1, <3>2 DEF At
      <3>4. notices' = 0
        BY <1>2, <3>1 DEF Flag
      <3>5. QED BY <2>1, <3>3, <3>4 DEF NoticeInv
    <2>4. QED BY <2>2, <2>3
  <1>3. CASE NotifySuspicion(w)
    <2>1. notices' = 1 /\ booking.suspected
      BY <1>3 DEF NotifySuspicion, NoticeInv
    <2>2. \A v \in Requests : ~At(v, "flag", "notify")'
      BY <1>3 DEF NotifySuspicion, NoticeInv, Finish, Idle, At, Typed, TypeOK
    <2>3. booking' = booking
      BY <1>3 DEF NotifySuspicion, rows
    <2>4. QED BY <2>1, <2>2, <2>3 DEF NoticeInv
  <1>4. CASE BeginConfirmLost(w) \/ PreviewLoss(w)
    <2>1. Unsuspecting(w)
      BY <1>4 DEF BeginConfirmLost, PreviewLoss, Unsuspecting, Idle, At, rows, Typed, TypeOK, Request
    <2>2. QED BY <2>1, UnsuspectingKeepsNotice
  <1>5. CASE ConfirmLost(w)
    <2>1. booking'.suspected = booking.suspected
      BY <1>5 DEF ConfirmLost, Typed, TypeOK, BookingRow
    <2>2. QED BY <1>5, <2>1, FinishUnsuspecting, UnsuspectingKeepsNotice DEF ConfirmLost
  <1>6. QED BY <1>1, <1>2, <1>3, <1>4, <1>5 DEF Loss

LEMMA NextNotice == Typed /\ NoticeInv /\ [Next]_vars => NoticeInv'
  <1> SUFFICES ASSUME Typed, NoticeInv, [Next]_vars PROVE NoticeInv'
    OBVIOUS
  <1>1. CASE Tick \/ UNCHANGED vars
    BY <1>1 DEF Tick, vars, rows, NoticeInv, At
  <1>2. ASSUME NEW w \in Requests, Fail(w) PROVE NoticeInv'
    BY <1>2, FinishUnsuspecting, UnsuspectingKeepsNotice DEF Fail, rows
  <1>3. QED
    BY <1>1, <1>2, IssueUnsuspecting, ClosingUnsuspecting, DebtUnsuspecting, LossKeepsNotice,
       UnsuspectingKeepsNotice DEF Next

(* Staff and customer are told of a suspected loss at most once, however    *)
(* many runs of the hourly job read the booking before one of them flags it.*)
THEOREM SuspicionNeverRepeated == Spec => []SuspicionNoticedOnce
  <1>1. Init => NoticeInv
    BY DEF Init, NoticeInv, Idle, At
  <1>2. Spec => [](Typed /\ NoticeInv)
    BY <1>1, InitTyped, NextTyped, NextNotice, PTL DEF Spec
  <1>3. NoticeInv => SuspicionNoticedOnce
    BY DEF NoticeInv, SuspicionNoticedOnce
  <1>4. QED BY <1>2, <1>3, PTL

-----------------------------------------------------------------------------
(* The return record settles the damage *)

LEMMA DamageKept ==
  ASSUME Typed, [Next]_vars, returned
  PROVE  booking'.damageFee = booking.damageFee
  <1> USE DEF Typed, TypeOK, BookingRow
  <1>1. CASE Tick \/ UNCHANGED vars \/ \E w \in Requests : Fail(w)
    BY <1>1 DEF Tick, Fail, vars, rows
  <1>2. ASSUME NEW w \in Requests, Issue(w) PROVE booking'.damageFee = booking.damageFee
    BY <1>2 DEF Issue, BeginReport, CheckReport, InsertReport, BeginSwap, CheckSwap,
       SwapDevice, BeginEndEarly, EndEarly, BeginCharge, ChargeCustomerFault, BeginResolve, rows
  <1>3. ASSUME NEW w \in Requests, Closing(w) PROVE booking'.damageFee = booking.damageFee
    <2>1. ~ConfirmReturn(w)
      BY DEF ConfirmReturn
    <2>2. QED
      BY <1>3, <2>1 DEF Closing, BeginReturn, RefuseReturn, BeginCancel, Cancel, BeginRefund,
         MarkRefunded, rows
  <1>4. ASSUME NEW w \in Requests, Loss(w) PROVE booking'.damageFee = booking.damageFee
    BY <1>4 DEF Loss, BeginFlag, Flag, NotifySuspicion, BeginConfirmLost, PreviewLoss,
       ConfirmLost, rows
  <1>5. ASSUME NEW w \in Requests, Debt(w) PROVE booking'.damageFee = booking.damageFee
    BY <1>5 DEF Debt, LockDebt, Collect, RefuseCollect, rows
  <1>6. QED BY <1>1, <1>2, <1>3, <1>4, <1>5 DEF Next

(* Once a return is recorded, nothing overwrites its damage fee: neither a  *)
(* second return, nor a loss, an early end or a cancellation decided before.*)
THEOREM NobodyOverwritesDamage == Spec => DamageFeeIsFinal
  <1>1. Typed /\ [Next]_vars => [returned => booking'.damageFee = booking.damageFee]_vars
    BY DamageKept
  <1>2. QED
    BY <1>1, InitTyped, NextTyped, PTL DEF Spec, DamageFeeIsFinal

-----------------------------------------------------------------------------
(* The repairs that the reports were resolved with, and their sum as a     *)
(* loop over the reports.                                                  *)
RepairSum(rep) == FoldSet(LAMBDA r, sum : rep[r].repairCost + sum, 0, Reports)

Costs(rep) == [r \in Reports |-> rep[r].repairCost]

LEMMA RepairsAddUp ==
  ASSUME NEW rep \in [Reports -> ReportRow]
  PROVE  \E total : AddsUp(total, Costs(rep), Reports) /\ RepairSum(rep) = total[Reports]
  <1> DEFINE Rule(total) == total = [T \in SUBSET Reports |->
                                       IF T = {} THEN 0
                                       ELSE rep[CHOOSE x \in T : TRUE].repairCost
                                              + total[T \ {CHOOSE x \in T : TRUE}]]
             sum == CHOOSE total : Rule(total)
  <1>1. Costs(rep) \in [Reports -> Nat]
    BY DEF Costs, ReportRow
  <1>2. PICK total : AddsUp(total, Costs(rep), Reports)
    BY <1>1, ReportsAreFinite, SomeSum
  <1>3. ASSUME NEW s
        PROVE  AddsUp(s, Costs(rep), Reports) <=> Rule(s)
    <2>1. \A T \in SUBSET Reports : T # {} =>
            Costs(rep)[Chosen(T)] = rep[CHOOSE x \in T : TRUE].repairCost
      BY DEF Chosen, Costs
    <2> DEFINE c == Costs(rep)
    <2> HIDE DEF c
    <2>2. [T \in SUBSET Reports |-> IF T = {} THEN 0 ELSE c[Chosen(T)] + s[T \ {Chosen(T)}]]
            = [T \in SUBSET Reports |-> IF T = {} THEN 0
                                       ELSE rep[Chosen(T)].repairCost + s[T \ {Chosen(T)}]]
      BY <2>1 DEF c, Chosen
    <2> QED BY <2>2 DEF AddsUp, Chosen, c
  <1>4. Rule(sum)
    <2>1. Rule(total)
      BY <1>2, <1>3
    <2> HIDE DEF Rule
    <2> QED BY <2>1
  <1>5. RepairSum(rep) = sum[Reports]
    BY DEF RepairSum, FoldSet, MapThenFoldSet
  <1> QED BY <1>3, <1>4, <1>5

(* A report written without a cost greater than the one charged.           *)
LEMMA RepairsGrowWithOne ==
  ASSUME NEW before \in [Reports -> ReportRow], NEW after \in [Reports -> ReportRow],
         NEW q, NEW a \in Nat,
         \A r \in Reports :
           after[r].repairCost <= before[r].repairCost + (IF r = q THEN a ELSE 0)
  PROVE  /\ RepairSum(before) \in Nat /\ RepairSum(after) \in Nat
         /\ RepairSum(after) <= RepairSum(before) + a
  <1> DEFINE c == Costs(before)
             d == Costs(after)
  <1>1. c \in [Reports -> Nat] /\ d \in [Reports -> Nat]
    BY DEF Costs, ReportRow
  <1>2. \A r \in Reports : d[r] <= c[r] + (IF r = q THEN a ELSE 0)
    BY DEF Costs
  <1>3. PICK s : AddsUp(s, c, Reports) /\ RepairSum(before) = s[Reports]
    BY RepairsAddUp
  <1>4. PICK t : AddsUp(t, d, Reports) /\ RepairSum(after) = t[Reports]
    BY RepairsAddUp
  <1> HIDE DEF c, d
  <1>5. s[Reports] \in Nat /\ t[Reports] \in Nat
    BY <1>1, <1>3, <1>4, ReportsAreFinite, SumsAreNumbers
  <1>6. t[Reports] <= s[Reports] + a
    BY <1>1, <1>2, <1>3, <1>4, ReportsAreFinite, SumGrowsWithOne
  <1> QED BY <1>3, <1>4, <1>5, <1>6

(* Reports that cost nothing add up to nothing. *)
LEMMA FreeReportsCostNothing ==
  ASSUME NEW rep \in [Reports -> ReportRow], \A r \in Reports : rep[r].repairCost = 0
  PROVE  RepairSum(rep) = 0
  <1>1. PICK s : AddsUp(s, Costs(rep), Reports) /\ RepairSum(rep) = s[Reports]
    BY RepairsAddUp
  <1>2. \A r \in Reports : Costs(rep)[r] = 0
    BY DEF Costs
  <1> QED BY <1>1, <1>2, ReportsAreFinite, SumOfZeros

(* RepairFeeCoversReports, in the words of these lemmas. *)
CoversReports == booking.repairFee >= RepairSum(report)

(* The step of a request that takes nothing off the fee, and adds to the   *)
(* cost of the reports what it adds to the fee at most.                    *)
LEMMA ChargeCovers ==
  ASSUME Typed, Typed', CoversReports, NEW q, NEW a \in Nat,
         booking'.repairFee = booking.repairFee + a,
         \A r \in Reports :
           report'[r].repairCost <= report[r].repairCost + (IF r = q THEN a ELSE 0)
  PROVE  CoversReports'
  <1>1. /\ report \in [Reports -> ReportRow] /\ report' \in [Reports -> ReportRow]
        /\ booking.repairFee \in Nat
    BY DEF Typed, TypeOK, BookingRow
  <1> DEFINE before == report
             after == report'
             new == RepairSum(after)
  <1>2. /\ RepairSum(before) \in Nat /\ RepairSum(after) \in Nat
        /\ RepairSum(after) <= RepairSum(before) + a
    BY <1>1, RepairsGrowWithOne
  <1>3. booking'.repairFee >= RepairSum(after)
    BY <1>1, <1>2 DEF CoversReports
  <1> QED BY <1>3 DEF CoversReports

(* Neither the fee nor the cost of a report grows. *)
NothingCharged ==
  /\ booking'.repairFee = booking.repairFee
  /\ \A r \in Reports : report'[r].repairCost <= report[r].repairCost

LEMMA SameRepairs ==
  ASSUME Typed, UNCHANGED report, booking'.repairFee = booking.repairFee
  PROVE  NothingCharged
  <1>1. \A r \in Reports : report[r].repairCost \in Nat
    BY DEF Typed, TypeOK, ReportRow
  <1> QED BY <1>1 DEF NothingCharged

(* A resolution that charges nothing. *)
LEMMA FreeResolution ==
  ASSUME Typed, NEW r, NEW resolution, Resolve(r, resolution, 0),
         booking'.repairFee = booking.repairFee
  PROVE  NothingCharged
  <1>1. \A x \in Reports : report[x].repairCost \in Nat
    BY DEF Typed, TypeOK, ReportRow
  <1>2. \A x \in Reports : report'[x].repairCost \in {0, report[x].repairCost}
    BY DEF Resolve, Typed, TypeOK
  <1> QED BY <1>1, <1>2 DEF NothingCharged

LEMMA IssueChargesNothing ==
  ASSUME Typed, NEW w \in Requests, Issue(w), ~ChargeCustomerFault(w)
  PROVE  NothingCharged
  <1>1. CASE SwapDevice(w) \/ EndEarly(w)
    <2>1. booking'.repairFee = booking.repairFee
      BY <1>1 DEF SwapDevice, EndEarly, Typed, TypeOK, BookingRow
    <2>2. \E resolution : Resolve(req[w].report, resolution, 0)
      BY <1>1 DEF SwapDevice, EndEarly
    <2> QED BY <2>1, <2>2, FreeResolution
  <1>2. CASE InsertReport(w)
    <2>1. \A r \in Reports : report'[r].repairCost = report[r].repairCost
      BY <1>2 DEF InsertReport, Typed, TypeOK, ReportRow
    <2>2. \A r \in Reports : report[r].repairCost \in Nat
      BY DEF Typed, TypeOK, ReportRow
    <2> QED BY <1>2, <2>1, <2>2 DEF InsertReport, NothingCharged
  <1>3. CASE \/ BeginReport(w) \/ CheckReport(w) \/ BeginSwap(w) \/ CheckSwap(w)
             \/ BeginEndEarly(w) \/ BeginCharge(w)
    <2>1. UNCHANGED <<booking, report>>
      BY <1>3 DEF BeginReport, CheckReport, BeginSwap, CheckSwap, BeginEndEarly, BeginCharge,
                  BeginResolve, rows
    <2> QED BY <2>1, SameRepairs
  <1> QED BY <1>1, <1>2, <1>3 DEF Issue

LEMMA OthersChargeNothing ==
  ASSUME Typed, NEW w \in Requests, Closing(w) \/ Loss(w) \/ Debt(w) \/ Fail(w)
  PROVE  NothingCharged
  <1>1. UNCHANGED report
    BY DEF Closing, BeginReturn, ConfirmReturn, RefuseReturn, BeginCancel, Cancel, BeginRefund,
           MarkRefunded, Loss, BeginFlag, Flag, NotifySuspicion, BeginConfirmLost, PreviewLoss,
           ConfirmLost, Debt, LockDebt, Collect, RefuseCollect, Fail, rows
  <1>2. booking'.repairFee = booking.repairFee
    <2>1. CASE UNCHANGED booking
      BY <2>1
    <2>2. CASE ConfirmReturn(w) \/ Cancel(w) \/ MarkRefunded(w)
      BY <2>2 DEF ConfirmReturn, Settled, Cancel, MarkRefunded, Typed, TypeOK, BookingRow
    <2>3. CASE Flag(w) \/ ConfirmLost(w) \/ Collect(w)
      BY <2>3 DEF Flag, ConfirmLost, Collect, Typed, TypeOK, BookingRow
    <2>4. \/ UNCHANGED booking
          \/ ConfirmReturn(w) \/ Cancel(w) \/ MarkRefunded(w)
          \/ Flag(w) \/ ConfirmLost(w) \/ Collect(w)
      BY DEF Closing, BeginReturn, RefuseReturn, BeginCancel, BeginRefund,
             Loss, BeginFlag, NotifySuspicion, BeginConfirmLost, PreviewLoss,
             Debt, LockDebt, RefuseCollect, Fail, rows
    <2> QED BY <2>1, <2>2, <2>3, <2>4
  <1> QED BY <1>1, <1>2, SameRepairs

LEMMA StepCovers == Typed /\ CoversReports /\ [Next]_vars => CoversReports'
  <1> SUFFICES ASSUME Typed, CoversReports, [Next]_vars PROVE CoversReports'
    OBVIOUS
  <1>1. Typed'
    BY NextTyped
  <1>2. ASSUME NEW w \in Requests, ChargeCustomerFault(w)
        PROVE  CoversReports'
    <2> DEFINE q == req[w].report
               a == req[w].amount
    <2>1. q \in Reports /\ a \in Nat
      BY <1>2 DEF ChargeCustomerFault, At, Typed, RequestsOK, TypeOK, Request
    <2>2. booking'.repairFee = booking.repairFee + a
      BY <1>2 DEF ChargeCustomerFault, Typed, TypeOK, BookingRow
    <2>3. \A r \in Reports : report'[r].repairCost = IF r = q THEN a ELSE report[r].repairCost
      BY <1>2 DEF ChargeCustomerFault, Resolve, Typed, TypeOK
    <2>4. \A r \in Reports : report[r].repairCost \in Nat
      BY DEF Typed, TypeOK, ReportRow
    <2> HIDE DEF q, a
    <2>5. \A r \in Reports :
            report'[r].repairCost <= report[r].repairCost + (IF r = q THEN a ELSE 0)
      BY <2>1, <2>3, <2>4
    <2> QED BY <1>1, <2>1, <2>2, <2>5, ChargeCovers
  <1>3. ASSUME NothingCharged
        PROVE  CoversReports'
    <2>1. /\ booking'.repairFee = booking.repairFee + 0
          /\ \A r \in Reports : report'[r].repairCost <= report[r].repairCost + (IF r = None THEN 0 ELSE 0)
      BY <1>3, <1>1 DEF NothingCharged, Typed, TypeOK, BookingRow, ReportRow
    <2> QED BY <1>1, <2>1, ChargeCovers
  <1>4. Tick \/ UNCHANGED vars => NothingCharged
    BY SameRepairs DEF Tick, vars, rows
  <1> QED
    BY <1>2, <1>3, <1>4, IssueChargesNothing, OthersChargeNothing DEF Next

(* No repair that a report was resolved with is missing from the booking's *)
(* repair fee, for any number of reports that clerks resolve together: the *)
(* increment in chargeCustomerFault.                                       *)
THEOREM RepairsAreAllCharged == Spec => []RepairFeeCoversReports
  <1>1. Init => Typed /\ CoversReports
    <2> SUFFICES ASSUME Init PROVE Typed /\ CoversReports
      OBVIOUS
    <2>1. Typed
      BY InitTyped
    <2>2. report \in [Reports -> ReportRow] /\ \A r \in Reports : report[r].repairCost = 0
      BY <2>1 DEF Init, Typed, TypeOK
    <2>3. RepairSum(report) = 0
      BY <2>2, FreeReportsCostNothing
    <2>4. booking.repairFee = 0
      BY DEF Init
    <2> QED BY <2>1, <2>3, <2>4 DEF CoversReports
  <1>2. Typed /\ CoversReports /\ [Next]_vars => (Typed /\ CoversReports)'
    BY NextTyped, StepCovers
  <1>3. CoversReports => RepairFeeCoversReports
    BY DEF CoversReports, RepairSum, RepairFeeCoversReports, FoldSet, MapThenFoldSet
  <1> QED
    BY <1>1, <1>2, <1>3, PTL DEF Spec
=============================================================================
