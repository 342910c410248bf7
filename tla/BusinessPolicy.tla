--------------------------- MODULE BusinessPolicy ---------------------------
(***************************************************************************)
(* The shop's figures (common/business-policy.ts): prices, deposits, fees, *)
(* refunds and their due dates, as pure operators.                         *)
(*                                                                         *)
(* Time is an integer count of units, HOUR_MS of them to the hour, and 0   *)
(* is a midnight UTC.  Amounts are integers too: prices are multiples of   *)
(* 100 units, so that every percentage below is exact, and the code's      *)
(* rounding of floating-point numbers has nothing to round.                *)
(***************************************************************************)
EXTENDS Integers

CONSTANTS HOUR_MS,            \* units of time in an hour
          REFUND_ROUNDING_VND \* 1000 dong, in units of amount

ASSUME HoursHaveUnits == HOUR_MS \in Nat \ {0}
ASSUME RoundingIsAnAmount == REFUND_ROUNDING_VND \in Nat \ {0}

DAY_MS == 24 * HOUR_MS

(* Ratios in hundredths. *)
DEPOSIT_RATIO == 50
LATE_FEE_DAILY_RATIO == 20
LOST_DEVICE_MAX_CLAIM_RATIO == 150
REPLACEMENT_VALUE_TOLERANCE == 20

HOURLY_PRICING_MAX_HOURS == 24
DEPOSIT_REFUND_BUSINESS_DAYS == 3
STORE_UTC_OFFSET_MS == 7 * HOUR_MS

Least(a, b) == IF a <= b THEN a ELSE b
Greatest(a, b) == IF a >= b THEN a ELSE b
Ratio(amount, ratio) == (amount * ratio) \div 100
CeilDiv(n, d) == -((-n) \div d)

-----------------------------------------------------------------------------
calculateDeposit(originalPrice) == Ratio(originalPrice, DEPOSIT_RATIO)

(* In the order in which the code tries them. *)
REFUND_TIERS == << [minHoursBeforeStart |-> 24, percentage |-> 100],
                   [minHoursBeforeStart |-> 6, percentage |-> 50] >>

(* Mutant: the tiers tried from the end of the list. *)
refundPercentageFromLast(untilStart, storeFault) ==
  LET Reached(i) == untilStart >= REFUND_TIERS[i].minHoursBeforeStart * HOUR_MS IN
  CASE storeFault -> 100
    [] ~storeFault /\ Reached(2) -> REFUND_TIERS[2].percentage
    [] ~storeFault /\ ~Reached(2) /\ Reached(1) -> REFUND_TIERS[1].percentage
    [] OTHER -> 0

(* The first tier reached decides. *)
calculateRefundPercentage(untilStart, storeFault) ==
  LET Reached(i) == untilStart >= REFUND_TIERS[i].minHoursBeforeStart * HOUR_MS IN
  CASE storeFault -> 100
    [] ~storeFault /\ Reached(1) -> REFUND_TIERS[1].percentage
    [] ~storeFault /\ ~Reached(1) /\ Reached(2) -> REFUND_TIERS[2].percentage
    [] OTHER -> 0

-----------------------------------------------------------------------------
(* Mutant: the loop counts its days from 0. *)
lateFeeFromDayZero(daysLate, pricePerDay, originalPrice) ==
  LET total[day \in 0 .. daysLate] ==
        IF day = 0 THEN 0
        ELSE total[day - 1] + Ratio(pricePerDay * (day - 1), LATE_FEE_DAILY_RATIO)
  IN Least(total[daysLate], originalPrice)

(* Day n costs n times the daily ratio, up to the value of the device. *)
calculateLateFeeForDays(daysLate, pricePerDay, originalPrice) ==
  LET total[day \in 0 .. daysLate] ==
        IF day = 0 THEN 0
        ELSE total[day - 1] + Ratio(pricePerDay * day, LATE_FEE_DAILY_RATIO)
  IN Least(total[daysLate], originalPrice)

(* A day begun counts. *)
calculateLateFee(returnedAt, expectedEndTime, pricePerDay, originalPrice) ==
  IF returnedAt <= expectedEndTime THEN 0
  ELSE calculateLateFeeForDays(CeilDiv(returnedAt - expectedEndTime, DAY_MS),
                               pricePerDay, originalPrice)

(* Mutant: a day begun does not count. *)
rentalPriceByFullDays(pricePerHour, pricePerDay, start, end) ==
  IF end - start <= HOURLY_PRICING_MAX_HOURS * HOUR_MS
    THEN pricePerHour * CeilDiv(end - start, HOUR_MS)
    ELSE pricePerDay * ((end - start) \div DAY_MS)

(* By the hour up to a day, by the day beyond it. *)
calculateRentalPrice(pricePerHour, pricePerDay, start, end) ==
  IF end - start <= HOURLY_PRICING_MAX_HOURS * HOUR_MS
    THEN pricePerHour * CeilDiv(end - start, HOUR_MS)
    ELSE pricePerDay * CeilDiv(end - start, DAY_MS)

-----------------------------------------------------------------------------
calculateDepositSettlement(depositAmount, lateFee, damageFee, repairFee) ==
  LET totalDeductions == lateFee + damageFee + repairFee
      balance == depositAmount - totalDeductions IN
  [totalDeductions |-> totalDeductions,
   refundAmount |-> Greatest(balance, 0),
   amountOwed |-> Greatest(-balance, 0)]

-----------------------------------------------------------------------------
(* Days in the shop's time zone; day 0, 1970-01-01, is a Thursday. *)
storeDayKey(date) == (date + STORE_UTC_OFFSET_MS) \div DAY_MS

(* Mutant: the day of the week in UTC. *)
isUtcWeekend(date) == (date \div DAY_MS + 4) % 7 \in {0, 6}

isStoreWeekend(date) == (storeDayKey(date) + 4) % 7 \in {0, 6}

(* The loop, day by day: result[n] is the date after n business days. *)
addBusinessDays(from, days) ==
  LET NextBusinessDay(date) ==
        date + DAY_MS * (CHOOSE n \in 1 .. 3 :
                           /\ ~isStoreWeekend(date + n * DAY_MS)
                           /\ \A m \in 1 .. n - 1 : isStoreWeekend(date + m * DAY_MS))
      result[n \in 0 .. days] ==
        IF n = 0 THEN from ELSE NextBusinessDay(result[n - 1])
  IN result[days]

depositRefundDueAt(from) == addBusinessDays(from, DEPOSIT_REFUND_BUSINESS_DAYS)

-----------------------------------------------------------------------------
(* Mutant: the time used is not clamped to the rental. *)
unusedRentalRefundUnclamped(totalPrice, startTime, endTime, endedAt) ==
  LET total == endTime - startTime
      used == endedAt - startTime IN
  IF total <= 0 THEN 0
  ELSE ((totalPrice * (total - used)) \div (total * REFUND_ROUNDING_VND))
         * REFUND_ROUNDING_VND

calculateUnusedRentalRefund(totalPrice, startTime, endTime, endedAt) ==
  LET total == endTime - startTime
      used == Least(Greatest(endedAt - startTime, 0), total) IN
  IF total <= 0 THEN 0
  ELSE ((totalPrice * (total - used)) \div (total * REFUND_ROUNDING_VND))
         * REFUND_ROUNDING_VND

(* Mutant: the late fee is not cut to what the claim leaves for it. *)
lostDeviceDebtUncut(originalPrice, depositAmount, lateFee) ==
  [lateFee |-> lateFee,
   amountOwed |-> Greatest(originalPrice + lateFee - depositAmount, 0)]

calculateLostDeviceDebt(originalPrice, depositAmount, lateFee) ==
  LET maxClaim == Ratio(originalPrice, LOST_DEVICE_MAX_CLAIM_RATIO)
      fee == Greatest(Least(lateFee, maxClaim - originalPrice), 0) IN
  [lateFee |-> fee,
   amountOwed |-> Greatest(originalPrice + fee - depositAmount, 0)]

isEquivalentValue(originalPrice, candidatePrice) ==
  /\ candidatePrice - originalPrice <= Ratio(originalPrice, REPLACEMENT_VALUE_TOLERANCE)
  /\ originalPrice - candidatePrice <= Ratio(originalPrice, REPLACEMENT_VALUE_TOLERANCE)
=============================================================================
