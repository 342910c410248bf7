-------------------------- MODULE MCBusinessPolicy --------------------------
(***************************************************************************)
(* The figures of business-policy.ts while the clock runs: one rental, cut *)
(* from a small price list, from two days before it starts until well      *)
(* after the day on which the shop suspects the device is lost.            *)
(***************************************************************************)
EXTENDS BusinessPolicy, FiniteSets

CONSTANTS Rentals,    \* records [perHour, perDay, value, from, to]
          Clock       \* the times the clock shows

(* Prices are round, as in BusinessPolicy, and a rental takes some time.    *)
ASSUME RentalsArePriced ==
  \A r \in Rentals :
    /\ r.perHour \in Nat /\ r.perDay \in Nat /\ r.value \in Nat
    /\ r.perDay % 100 = 0 /\ r.value % 100 = 0
    /\ r.from \in Int /\ r.to \in Int /\ r.from < r.to

(* The clock has a first time, and stops within 100 days after a rental.    *)
ASSUME ClockRuns ==
  /\ Clock \subseteq Int
  /\ \E t \in Clock : t - 1 \notin Clock
  /\ \A r \in Rentals, t \in Clock : t <= r.to + 100 * DAY_MS

VARIABLES rental, now

vars == <<rental, now>>

Rental(perHour, perDay, value, from, to) ==
  [perHour |-> perHour, perDay |-> perDay, value |-> value, from |-> from, to |-> to]

(* Half hours: a cheap and a dear device, rented for less than a day and   *)
(* for more.                                                               *)
MCRentals ==
  {Rental(100, 1200, 20000, 0, 47), Rental(100, 1200, 20000, 9, 9 + 99),
   Rental(300, 4000, 9000, 20, 20 + 48), Rental(300, 3600, 500, 20, 20 + 49)}

MCClock == -96 .. 600

Init == rental \in Rentals /\ now = CHOOSE t \in Clock : t - 1 \notin Clock

Tick == now + 1 \in Clock /\ now' = now + 1 /\ UNCHANGED rental

Spec == Init /\ [][Tick]_vars

-----------------------------------------------------------------------------
Deposit == calculateDeposit(rental.value)
LateFee == calculateLateFee(now, rental.to, rental.perDay, rental.value)
Total == calculateRentalPrice(rental.perHour, rental.perDay, rental.from, rental.to)
Unused == calculateUnusedRentalRefund(Total, rental.from, rental.to, now)

(* The late fee is the sum of an arithmetic progression over the days the  *)
(* device is late, a day begun included, up to the value of the device;    *)
(* and it never falls while the customer is late.                          *)
DaysBegun == Cardinality({d \in 0 .. 99 : rental.to + d * DAY_MS < now})

LateFeeIsProgressive ==
  LateFee = Least((rental.perDay * 20 * DaysBegun * (DaysBegun + 1)) \div 200, rental.value)

(* Whoever cancels gets the best tier still open, and nothing when none    *)
(* is: all up to 24 hours before the rental, half up to 6 hours, the       *)
(* limits included.                                                        *)
BestTierApplies ==
  LET left == rental.from - now
      pay == calculateRefundPercentage(left, FALSE)
      open == {REFUND_TIERS[i].percentage :
                 i \in {j \in DOMAIN REFUND_TIERS :
                          left >= REFUND_TIERS[j].minHoursBeforeStart * HOUR_MS}} IN
  /\ pay \in open \union {0}
  /\ \A p \in open \union {0} : pay >= p

(* A longer rental does not cost less, at the step from hours to days      *)
(* either, for a device whose two days cost at least its 24 hours.         *)
LongerCostsNoLess ==
  [][now > rental.from /\ 2 * rental.perDay >= 24 * rental.perHour =>
       calculateRentalPrice(rental.perHour, rental.perDay, rental.from, now)
         <= calculateRentalPrice(rental.perHour, rental.perDay, rental.from, now')]_vars

(* The refund of an ended rental is the unused share, less than one        *)
(* rounding below it: nothing after the end, all of it before the start,   *)
(* and never more than was paid.                                           *)
UnusedShareIsRefunded ==
  LET length == rental.to - rental.from
      left == Cardinality({t \in rental.from .. rental.to - 1 : now <= t}) IN
  /\ Unused % REFUND_ROUNDING_VND = 0
  /\ Unused * length <= Total * left
  /\ Total * left < (Unused + REFUND_ROUNDING_VND) * length

(* Three days on which the shop works lie between the return and the last  *)
(* day for the refund, that day included, at the same time of day.  Monday *)
(* to Friday are days 4 to 8 of the epoch and every seventh after them, in *)
(* the shop's own time.                                                    *)
DueAfterThreeWorkingDays ==
  LET due == depositRefundDueAt(now)
      StoreDay(t) == (t + 7 * HOUR_MS) \div DAY_MS
      Works(day) == (day - 4) % 7 \in 0 .. 4
      days == (StoreDay(now) + 1) .. StoreDay(due) IN
  /\ (due - now) % DAY_MS = 0
  /\ Works(StoreDay(due))
  /\ Cardinality({day \in days : Works(day)}) = 3

(* The deposit kept and the debt of a lost device come to no more than one *)
(* and a half times its value, and to its value at least, however late it  *)
(* is: also when it was swapped in, for a device that cost more or less    *)
(* and on which the deposit was taken, which the cut of the fee does not   *)
(* look at.                                                                *)
LostClaimIsCapped ==
  \A value \in {100 * n : n \in 0 .. 240} :
    isEquivalentValue(rental.value, value) =>
      LET lateFee == calculateLateFee(now, rental.to, rental.perDay, value)
          debt == calculateLostDeviceDebt(value, Deposit, lateFee) IN
      /\ 2 * (Deposit + debt.amountOwed) <= 3 * value
      /\ Deposit + debt.amountOwed >= value
=============================================================================
