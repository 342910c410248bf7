------------------------ MODULE BusinessPolicyProofs ------------------------
(***************************************************************************)
(* What the figures guarantee for every amount and every time.             *)
(***************************************************************************)
EXTENDS BusinessPolicy, InductionLemmas, TLAPS

(* The return desk settles a deposit to the unit: what goes back less what *)
(* is owed is the deposit less the deductions, never both, never negative. *)
(* confirmReturn and previewReturn rest on it.                             *)
THEOREM SettlementBalances ==
  ASSUME NEW depositAmount \in Nat, NEW lateFee \in Nat,
         NEW damageFee \in Nat, NEW repairFee \in Nat
  PROVE  LET s == calculateDepositSettlement(depositAmount, lateFee, damageFee, repairFee) IN
         /\ s.refundAmount \in Nat
         /\ s.amountOwed \in Nat
         /\ s.refundAmount = 0 \/ s.amountOwed = 0
         /\ s.refundAmount <= depositAmount
         /\ s.refundAmount + s.totalDeductions = depositAmount + s.amountOwed
<1> DEFINE s == calculateDepositSettlement(depositAmount, lateFee, damageFee, repairFee)
           total == lateFee + damageFee + repairFee
           balance == depositAmount - total
<1>1. s = [totalDeductions |-> total,
           refundAmount |-> Greatest(balance, 0),
           amountOwed |-> Greatest(-balance, 0)]
  BY DEF calculateDepositSettlement
<1>2. total \in Nat /\ balance \in Int /\ balance <= depositAmount
  OBVIOUS
<1>3. CASE balance >= 0
  <2>1. s.refundAmount = balance /\ s.amountOwed = 0 /\ s.totalDeductions = total
    BY <1>1, <1>2, <1>3 DEF Greatest
  <2> QED
    BY <2>1, <1>2, <1>3
<1>4. CASE balance < 0
  <2>1. s.refundAmount = 0 /\ s.amountOwed = -balance /\ s.totalDeductions = total
    BY <1>1, <1>2, <1>4 DEF Greatest
  <2> QED
    BY <2>1, <1>2, <1>4
<1> QED
  BY <1>2, <1>3, <1>4

(* A lost device costs its customer, the kept deposit included, its value  *)
(* at least and the capped claim at most, for every late fee, provided the *)
(* deposit itself does not exceed the claim.  calculateLostDeviceDebt does *)
(* not check the proviso; the comment above it states the cap without one. *)
THEOREM LostClaimIsBounded ==
  ASSUME NEW originalPrice \in Nat, NEW depositAmount \in Nat, NEW lateFee \in Nat,
         depositAmount <= Ratio(originalPrice, LOST_DEVICE_MAX_CLAIM_RATIO)
  PROVE  LET debt == calculateLostDeviceDebt(originalPrice, depositAmount, lateFee) IN
         /\ debt.amountOwed \in Nat
         /\ originalPrice <= depositAmount + debt.amountOwed
         /\ depositAmount + debt.amountOwed
              <= Ratio(originalPrice, LOST_DEVICE_MAX_CLAIM_RATIO)
<1> DEFINE debt == calculateLostDeviceDebt(originalPrice, depositAmount, lateFee)
           maxClaim == Ratio(originalPrice, LOST_DEVICE_MAX_CLAIM_RATIO)
           fee == Greatest(Least(lateFee, maxClaim - originalPrice), 0)
<1>1. maxClaim \in Nat /\ originalPrice <= maxClaim
  BY DEF Ratio, LOST_DEVICE_MAX_CLAIM_RATIO
<1> HIDE DEF maxClaim
<1>2. fee \in Nat /\ originalPrice + fee <= maxClaim
  BY <1>1 DEF Greatest, Least
<1>3. debt.amountOwed = Greatest(originalPrice + fee - depositAmount, 0)
  BY DEF calculateLostDeviceDebt, maxClaim
<1> HIDE DEF fee, debt
<1>4. depositAmount <= maxClaim
  BY DEF maxClaim
<1>5. /\ debt.amountOwed \in Nat
      /\ originalPrice <= depositAmount + debt.amountOwed
      /\ depositAmount + debt.amountOwed <= maxClaim
  BY <1>1, <1>2, <1>3, <1>4 DEF Greatest
<1> QED
  BY <1>5 DEF maxClaim, debt

(* The time used is clamped to the rental, however far from it the rental  *)
(* is ended.                                                               *)
LEMMA UsedTimeIsClamped ==
  ASSUME NEW startTime \in Int, NEW endTime \in Int, NEW endedAt \in Int,
         startTime <= endTime
  PROVE  Least(Greatest(endedAt - startTime, 0), endTime - startTime)
           \in 0 .. endTime - startTime
  BY DEF Least, Greatest

LEMMA DivisionRoundsDown ==
  ASSUME NEW n \in Nat, NEW m \in Nat \ {0}
  PROVE  /\ n \div m \in Nat
         /\ m * (n \div m) <= n
  OBVIOUS

LEMMA ProductsKeepOrder ==
  ASSUME NEW a \in Nat, NEW b \in Nat, NEW c \in Nat, a <= b
  PROVE  c * a <= c * b
  OBVIOUS

LEMMA FactorsCancel ==
  ASSUME NEW a \in Nat, NEW b \in Nat, NEW c \in Nat \ {0}, c * a <= c * b
  PROVE  a <= b
  OBVIOUS

LEMMA ProductsRegroup ==
  ASSUME NEW a \in Nat, NEW b \in Nat, NEW c \in Nat
  PROVE  a * (b * c) = (a * b) * c /\ (a * b) * c = a * (c * b)
  OBVIOUS

(* Ending a rental early never gives back more rent than was paid for it,  *)
(* whenever it is ended.                                                   *)
THEOREM UnusedRefundIsWithinPrice ==
  ASSUME NEW totalPrice \in Nat,
         NEW startTime \in Int, NEW endTime \in Int, NEW endedAt \in Int
  PROVE  LET refund == calculateUnusedRentalRefund(totalPrice, startTime, endTime, endedAt) IN
         refund \in 0 .. totalPrice
<1> DEFINE R == REFUND_ROUNDING_VND
           total == endTime - startTime
           used == Least(Greatest(endedAt - startTime, 0), total)
           left == total - used
           q == (totalPrice * left) \div (total * R)
<1>1. CASE total <= 0
  BY <1>1 DEF calculateUnusedRentalRefund
<1>2. CASE total > 0
  <2>1. used \in 0 .. total
    <3>1. startTime <= endTime
      BY <1>2
    <3> QED
      BY <3>1, UsedTimeIsClamped
  <2>2. total \in Nat \ {0} /\ R \in Nat \ {0} /\ left \in Nat /\ left <= total
    BY <2>1, <1>2, RoundingIsAnAmount
  <2>3. calculateUnusedRentalRefund(totalPrice, startTime, endTime, endedAt) = q * R
    BY <1>2 DEF calculateUnusedRentalRefund
  <2> HIDE DEF total, used, left, R
  <2>4. totalPrice * left \in Nat /\ total * R \in Nat \ {0}
    BY <2>2
  <2>5. q \in Nat /\ (total * R) * q <= totalPrice * left
    BY <2>4, DivisionRoundsDown
  <2> HIDE DEF q
  <2>6. totalPrice * left <= totalPrice * total
    BY <2>2, ProductsKeepOrder
  <2>7. (total * R) * q = total * (q * R) /\ totalPrice * total = total * totalPrice
    BY <2>2, <2>5, ProductsRegroup
  <2>8. q * R \in Nat
    BY <2>2, <2>5
  <2>9. total * (q * R) <= total * totalPrice
    <3>1. (total * R) * q \in Int /\ totalPrice * left \in Int /\ totalPrice * total \in Int
      BY <2>2, <2>4, <2>5
    <3> QED
      BY <2>5, <2>6, <2>7, <3>1
  <2> QED
    BY <2>2, <2>3, <2>8, <2>9, FactorsCancel
<1> QED
  BY <1>1, <1>2

(* The deposit is half the value of the device it is paid for, so that the *)
(* proviso of the cap holds while device and deposit belong together.      *)
THEOREM DepositIsWithinClaim ==
  ASSUME NEW originalPrice \in Nat
  PROVE  /\ calculateDeposit(originalPrice) \in Nat
         /\ calculateDeposit(originalPrice)
              <= Ratio(originalPrice, LOST_DEVICE_MAX_CLAIM_RATIO)
  BY DEF calculateDeposit, Ratio, DEPOSIT_RATIO, LOST_DEVICE_MAX_CLAIM_RATIO

(* After one swap to an equivalent device the deposit taken for the first  *)
(* one is still within the claim for the second.                           *)
THEOREM SwappedDepositIsWithinClaim ==
  ASSUME NEW originalPrice \in Nat, NEW candidatePrice \in Nat,
         isEquivalentValue(originalPrice, candidatePrice)
  PROVE  calculateDeposit(originalPrice)
           <= Ratio(candidatePrice, LOST_DEVICE_MAX_CLAIM_RATIO)
  BY DEF calculateDeposit, isEquivalentValue, Ratio, DEPOSIT_RATIO,
         REPLACEMENT_VALUE_TOLERANCE, LOST_DEVICE_MAX_CLAIM_RATIO

-----------------------------------------------------------------------------
(* Division and its rounding, downwards and upwards.                       *)
LEMMA DivisionBounds ==
  ASSUME NEW n \in Int, NEW d \in Nat \ {0}
  PROVE  /\ n \div d \in Int
         /\ d * (n \div d) <= n
         /\ n < d * (n \div d) + d
  OBVIOUS

LEMMA DivisionIs ==
  ASSUME NEW n \in Int, NEW d \in Nat \ {0}, NEW q \in Int, d * q <= n, n < d * q + d
  PROVE  n \div d = q
  <1> DEFINE p == n \div d
  <1>1. p \in Int /\ d * p <= n /\ n < d * p + d
    BY DivisionBounds
  <1> HIDE DEF p
  <1>2. d * p < d * q + d /\ d * q < d * p + d
    BY <1>1
  <1>3. ASSUME p < q PROVE FALSE
    <2>1. p + 1 <= q /\ d * (p + 1) = d * p + d
      BY <1>1, <1>3
    <2>2. d * (p + 1) <= d * q
      BY <1>1, <2>1
    <2> QED BY <1>1, <1>2, <2>1, <2>2
  <1>4. ASSUME q < p PROVE FALSE
    <2>1. q + 1 <= p /\ d * (q + 1) = d * q + d
      BY <1>1, <1>4
    <2>2. d * (q + 1) <= d * p
      BY <1>1, <2>1
    <2> QED BY <1>1, <1>2, <2>1, <2>2
  <1>5. p = q
    BY <1>1, <1>3, <1>4
  <1> QED BY <1>5 DEF p

LEMMA CeilingBounds ==
  ASSUME NEW n \in Int, NEW d \in Nat \ {0}
  PROVE  /\ CeilDiv(n, d) \in Int
         /\ n <= d * CeilDiv(n, d)
         /\ d * CeilDiv(n, d) < n + d
  <1> DEFINE q == (-n) \div d
  <1>1. q \in Int /\ d * q <= -n /\ -n < d * q + d
    BY DivisionBounds
  <1> HIDE DEF q
  <1>2. d * (-q) = -(d * q) /\ d * q \in Int
    BY <1>1
  <1>3. CeilDiv(n, d) = -q
    BY DEF CeilDiv, q
  <1> QED BY <1>1, <1>2, <1>3

LEMMA CeilingIs ==
  ASSUME NEW n \in Int, NEW d \in Nat \ {0}, NEW q \in Int, n <= d * q, d * q < n + d
  PROVE  CeilDiv(n, d) = q
  <1>1. d * (-q) = -(d * q) /\ d * q \in Int
    OBVIOUS
  <1>2. (-n) \div d = -q
    BY <1>1, DivisionIs
  <1> QED BY <1>2 DEF CeilDiv

-----------------------------------------------------------------------------
(* The loop of calculateLateFeeForDays: total[day] is what the days up to  *)
(* that one cost.                                                          *)
DayFees(total, daysLate, price) ==
  total = [day \in 0 .. daysLate |->
             IF day = 0 THEN 0 ELSE total[day - 1] + Ratio(price * day, LATE_FEE_DAILY_RATIO)]

(* The loop ends with a total, *)
LEMMA SomeFees ==
  ASSUME NEW n \in Nat, NEW price \in Nat
  PROVE  \E total : total \in [0 .. n -> Nat] /\ DayFees(total, n, price)
  <1> DEFINE fee == [day \in 1 .. n |-> Ratio(price * day, LATE_FEE_DAILY_RATIO)]
             step == [p \in (1 .. n) \X Nat |-> p[2] + fee[p[1]]]
  <1>1. fee \in [1 .. n -> Nat]
    <2>1. ASSUME NEW day \in 1 .. n
          PROVE  Ratio(price * day, LATE_FEE_DAILY_RATIO) \in Nat
      <3>1. price * day \in Nat
        OBVIOUS
      <3> DEFINE x == price * day
      <3> HIDE DEF x
      <3> QED BY <3>1 DEF x, Ratio, LATE_FEE_DAILY_RATIO
    <2> QED BY <2>1
  <1> HIDE DEF fee
  <1>2. step \in [(1 .. n) \X Nat -> Nat]
    BY <1>1
  <1>3. \A i \in 1 .. n, v \in Nat : step[<<i, v>>] = v + fee[i]
    OBVIOUS
  <1> HIDE DEF step
  <1> PICK f \in [0 .. n -> Nat] : Loops(f, n, 0, step)
    BY <1>2, SomeLoop
  <1>4. ASSUME NEW i \in 1 .. n
        PROVE  f[i] = f[i - 1] + fee[i]
    <2>1. i - 1 \in 0 .. n /\ f[i - 1] \in Nat
      OBVIOUS
    <2> QED BY <2>1, <1>3 DEF Loops
  <1>5. \A i \in 0 .. n : f[i] = IF i = 0 THEN 0 ELSE f[i - 1] + Ratio(price * i, LATE_FEE_DAILY_RATIO)
    BY <1>4 DEF fee, Loops
  <1>6. f = [i \in 0 .. n |-> f[i]]
    OBVIOUS
  <1>7. DayFees(f, n, price)
    BY <1>5, <1>6 DEF DayFees
  <1> QED BY <1>7

(* which is the fee, up to the value of the device. *)
LEMMA LateFeeIsSum ==
  ASSUME NEW n \in Nat, NEW price \in Nat, NEW value
  PROVE  \E total : /\ DayFees(total, n, price)
                    /\ calculateLateFeeForDays(n, price, value) = Least(total[n], value)
  <1> DEFINE Rule(total) == DayFees(total, n, price)
             sum == CHOOSE total : Rule(total)
  <1>1. Rule(sum)
    <2>1. \E total : Rule(total)
      BY SomeFees
    <2> HIDE DEF Rule
    <2> QED BY <2>1
  <1>2. calculateLateFeeForDays(n, price, value) = Least(sum[n], value)
    BY DEF calculateLateFeeForDays, DayFees
  <1> HIDE DEF sum
  <1> QED BY <1>1, <1>2

(* Each day's total is an amount. *)
LEMMA FeesAreAmounts ==
  ASSUME NEW n \in Nat, NEW price \in Nat, NEW total, DayFees(total, n, price)
  PROVE  \A day \in 0 .. n : total[day] \in Nat
  <1> DEFINE S == {k \in Nat : k <= n => total[k] \in Nat}
  <1>1. 0 \in S
    BY DEF DayFees
  <1>2. ASSUME NEW k \in Nat, k \in S
        PROVE  k + 1 \in S
    <2> SUFFICES ASSUME k + 1 <= n PROVE total[k + 1] \in Nat
      OBVIOUS
    <2>1. total[k] \in Nat /\ k + 1 \in 0 .. n /\ k + 1 # 0 /\ k + 1 - 1 = k
      BY <1>2
    <2>2. total[k + 1] = total[k] + Ratio(price * (k + 1), LATE_FEE_DAILY_RATIO)
      BY <2>1 DEF DayFees
    <2>3. Ratio(price * (k + 1), LATE_FEE_DAILY_RATIO) \in Nat
      <3> DEFINE x == price * (k + 1)
      <3>1. x \in Nat
        OBVIOUS
      <3> HIDE DEF x
      <3> QED BY <3>1 DEF x, Ratio, LATE_FEE_DAILY_RATIO
    <2> QED BY <2>1, <2>2, <2>3
  <1> HIDE DEF S
  <1>3. Nat \subseteq S
    BY <1>1, <1>2, EveryNumber
  <1> QED BY <1>3 DEF S

(* For a price of which a fifth is whole, day n costs n fifths of it, and  *)
(* the days up to n add up to n(n + 1)/2 fifths.                           *)
LEMMA FeesAreProgressive ==
  ASSUME NEW n \in Nat, NEW fifth \in Nat, NEW total, DayFees(total, n, 5 * fifth)
  PROVE  2 * total[n] = fifth * (n * (n + 1))
  <1> DEFINE S == {k \in Nat : k <= n => 2 * total[k] = fifth * (k * (k + 1))}
  <1>1. 0 \in S
    BY DEF DayFees
  <1>2. ASSUME NEW k \in Nat, k \in S
        PROVE  k + 1 \in S
    <2> SUFFICES ASSUME k + 1 <= n PROVE 2 * total[k + 1] = fifth * ((k + 1) * (k + 1 + 1))
      OBVIOUS
    <2>1. 2 * total[k] = fifth * (k * (k + 1)) /\ k + 1 \in 0 .. n /\ k + 1 # 0 /\ k + 1 - 1 = k
      BY <1>2
    <2>2. total[k + 1] = total[k] + Ratio((5 * fifth) * (k + 1), LATE_FEE_DAILY_RATIO)
      BY <2>1 DEF DayFees
    <2>3. total[k] \in Nat
      BY FeesAreAmounts
    <2>4. Ratio((5 * fifth) * (k + 1), LATE_FEE_DAILY_RATIO) = fifth * (k + 1)
      <3> DEFINE x == fifth * (k + 1)
      <3>1. x \in Nat /\ (5 * fifth) * (k + 1) = 5 * x
        OBVIOUS
      <3> HIDE DEF x
      <3>2. Ratio(5 * x, LATE_FEE_DAILY_RATIO) = x
        BY <3>1 DEF Ratio, LATE_FEE_DAILY_RATIO
      <3> QED BY <3>1, <3>2 DEF x
    <2>5. 2 * total[k + 1] = fifth * (k * (k + 1)) + 2 * (fifth * (k + 1))
      <3> DEFINE x == fifth * (k + 1)
                 t == total[k]
                 u == total[k + 1]
      <3>1. x \in Nat /\ t \in Nat /\ u = t + x
        BY <2>2, <2>3, <2>4
      <3> HIDE DEF x, t, u
      <3>2. 2 * u = 2 * t + 2 * x
        BY <3>1
      <3> QED BY <2>1, <3>2 DEF x, t, u
    <2>6. fifth * (k * (k + 1)) + 2 * (fifth * (k + 1)) = fifth * ((k + 1) * (k + 1 + 1))
      OBVIOUS
    <2> QED BY <2>5, <2>6
  <1> HIDE DEF S
  <1>3. Nat \subseteq S
    BY <1>1, <1>2, EveryNumber
  <1> QED BY <1>3 DEF S

LEMMA DaysHaveUnits == DAY_MS \in Nat \ {0}
  BY HoursHaveUnits DEF DAY_MS

(* A customer is late by whole days begun, one at least. *)
LEMMA DaysLateAreCounted ==
  ASSUME NEW late \in Int, late > 0
  PROVE  CeilDiv(late, DAY_MS) \in Nat \ {0}
  <1> DEFINE d == DAY_MS
             c == CeilDiv(late, d)
  <1>1. d \in Nat \ {0}
    BY DaysHaveUnits
  <1> HIDE DEF d
  <1>2. c \in Int /\ late <= d * c
    BY <1>1, CeilingBounds
  <1> HIDE DEF c
  <1>3. ASSUME c <= 0 PROVE FALSE
    <2>1. d * c <= 0
      BY <1>1, <1>2, <1>3
    <2> QED BY <1>1, <1>2, <2>1
  <1>4. c \in Nat \ {0}
    BY <1>2, <1>3
  <1> QED BY <1>4 DEF c, d

(* A late fee is an amount, and never exceeds the value of the device,     *)
(* however late it is returned and whatever a day costs.                   *)
THEOREM LateFeeIsWithinValue ==
  ASSUME NEW returnedAt \in Int, NEW expectedEndTime \in Int,
         NEW pricePerDay \in Nat, NEW originalPrice \in Nat
  PROVE  calculateLateFee(returnedAt, expectedEndTime, pricePerDay, originalPrice)
           \in 0 .. originalPrice
  <1> DEFINE late == returnedAt - expectedEndTime
             n == CeilDiv(late, DAY_MS)
  <1>1. CASE returnedAt <= expectedEndTime
    BY <1>1 DEF calculateLateFee
  <1>2. CASE returnedAt > expectedEndTime
    <2>1. n \in Nat
      BY <1>2, DaysLateAreCounted
    <2>2. calculateLateFee(returnedAt, expectedEndTime, pricePerDay, originalPrice)
            = calculateLateFeeForDays(n, pricePerDay, originalPrice)
      BY <1>2 DEF calculateLateFee
    <2> HIDE DEF n
    <2>3. PICK total : /\ DayFees(total, n, pricePerDay)
                       /\ calculateLateFeeForDays(n, pricePerDay, originalPrice)
                            = Least(total[n], originalPrice)
      BY <2>1, LateFeeIsSum
    <2>4. total[n] \in Nat
      BY <2>1, <2>3, FeesAreAmounts
    <2> QED BY <2>2, <2>3, <2>4 DEF Least
  <1> QED BY <1>1, <1>2
=============================================================================
